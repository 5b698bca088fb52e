--------------------------- MODULE MCCapabilities ---------------------------
(* An app with its own directory, two nested private paths and all of public. *)
EXTENDS Capabilities

CONSTANT raw

MCApp == <<"creator", "app">>
MCPrivatePaths == <<Directory(<<"Docs">>), Directory(<<"Docs", "Old">>)>>
MCPublicPaths == <<Directory(<< >>)>>
MCRaw == <<raw>>

Asked == PermissionPaths \o MCRaw
Private == SelectSeq(PermissionPaths, IsPrivate)

(* All that was asked for; the root UCAN; one UCAN, or one secret, less; no UCAN;  *)
(* a file in a directory besides.                                                    *)
MCGrants ==
  {[ucans |-> Asked, secrets |-> Private],
   [ucans |-> <<Star>>, secrets |-> Private],
   [ucans |-> Tail(Asked), secrets |-> Private],
   [ucans |-> Asked, secrets |-> Tail(Private)],
   [ucans |-> << >>, secrets |-> Private],
   [ucans |-> Append(Asked, File(<<"private", "Docs", "file">>)), secrets |-> Private]}
=============================================================================
