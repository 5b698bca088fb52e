---------------------------- MODULE Capabilities ----------------------------
(***************************************************************************)
(* Sessions by capabilities: the page goes to the auth lobby, collects     *)
(* UCANs, read keys and bare name filters through an iframe, stores them,  *)
(* checks them against the permissions of the app and loads the file       *)
(* system (src/src/capabilities.ts, permissions.ts, index.ts and the lobby *)
(* component fission-lobby.ts).                                            *)
(*                                                                         *)
(* One page, closed and opened again at any step.  A path is a record of a *)
(* kind and its parts; resources and labels are paths, Star ("*") or a raw *)
(* resource; the DID of an account is the name of its user.  What the      *)
(* lobby grants is any member of Grants, more or less than was asked for.  *)
(*                                                                         *)
(* Left out: several tabs and destroying a session (module Session), what  *)
(* the file system does (module FileSystem), exchanges that go on in the   *)
(* background after the page has its answer: their results are dropped.    *)
(***************************************************************************)
EXTENDS Naturals, Sequences, SequencesExt, FiniteSets

CONSTANTS
  Users,
  App,           \* permissions: creator and name of the app, or None
  PrivatePaths,  \* permissions: sequence of paths below private
  PublicPaths,   \* permissions: sequence of paths below public
  Raw,           \* permissions: sequence of other resources
  Grants,        \* what the lobby may grant: resources of UCANs and paths of secrets
  Lifetime,      \* units of time that a UCAN of the lobby is good for
  Tries,         \* how often the exchange is tried
  MaxOpens,      \* bound: number of times that the page is opened
  MaxTime,       \* bound on the clock
  Star, None

IsList(list) == list \in Seq(Range(list))
IsPath(path) ==
  /\ path = [kind |-> path.kind, parts |-> path.parts]
  /\ path.kind \in {"directory", "file"} /\ IsList(path.parts)

Resources == {Star} \union UNION {Range(grant.ucans) : grant \in Grants}
UcanSet == [rsc : Resources, root : Users \union {None}, exp : Nat]

ASSUME CapabilitiesAssumption ==
  /\ Lifetime \in Nat \ {0} /\ Tries \in Nat \ {0} /\ MaxOpens \in Nat /\ MaxTime \in Nat
  /\ None \notin Users \union {"load"} \union UcanSet
  /\ \A list \in {PrivatePaths, PublicPaths, Raw} : IsList(list)
  /\ \A grant \in Grants : IsList(grant.ucans) /\ IsList(grant.secrets)
  /\ App # None => IsList(App)
  /\ \A p \in Range(PrivatePaths) \union Range(PublicPaths) : IsPath(p)

VARIABLES
  url,       \* the user in the page's URL, or None
  ucans,     \* storage: the UCANs of the repository
  session,   \* storage: user of the session, or None
  keys,      \* keystore: <<user, parts>> of the read keys
  filters,   \* storage: <<user, parts>> of the bare name filters
  page,
  attempts,  \* attempts at an exchange, in the order of their start
  now, opens,
  cut        \* history: the page was closed between a key and its filter

vars == <<url, ucans, session, keys, filters, page, attempts, now, opens, cut>>

-----------------------------------------------------------------------------
(* Paths and permissions. *)
Directory(parts) == [kind |-> "directory", parts |-> parts]
File(parts) == [kind |-> "file", parts |-> parts]
AppData(app) == Directory(<<"private", "Apps">> \o app)
WithPartition(partition, path) == [path EXCEPT !.parts = <<partition>> \o @]
IsPrivate(path) == path.parts[1] # "public"
Within(paths, partition) == [i \in DOMAIN paths |-> WithPartition(partition, paths[i])]

PermissionPaths ==
  (IF App = None THEN << >> ELSE <<AppData(App)>>)
    \o Within(PrivatePaths, "private") \o Within(PublicPaths, "public")

AskedFor == Range(PermissionPaths) \union Range(Raw)

SecretPaths == {p \in Range(PermissionPaths) : IsPrivate(p)}

-----------------------------------------------------------------------------
(* UCANs.  One of the device for itself has the root None. *)
SelfSigned == [rsc |-> Star, root |-> None, exp |-> MaxTime + 1]
IsSelfSigned(ucan) == ucan.root = None
IsExpired(ucan) == ucan.exp <= now

(* toDictionary keeps the last UCAN of a resource. *)
GetByKey(list, rsc) ==
  LET those == {i \in DOMAIN list : list[i].rsc = rsc}
  IN IF those = {} THEN None ELSE list[Max(those)]

(* The labels that are tried for a path: itself, then its parents. *)
Candidates(path) ==
  [i \in DOMAIN path.parts |->
     LET parts == SubSeq(path.parts, 1, Len(path.parts) - i + 1)
     IN IF i = 1 /\ path.kind = "file" THEN File(parts) ELSE Directory(parts)]

LookupFilesystemUcan(list, path) ==
  LET god == GetByKey(list, Star)
      found == {i \in DOMAIN Candidates(path) : GetByKey(list, Candidates(path)[i]) # None}
  IN CASE god # None -> god
       [] god = None /\ found # {} -> GetByKey(list, Candidates(path)[Min(found)])
       [] OTHER -> None

Usable(ucan) == ucan # None /\ ~IsExpired(ucan)

(* Mutant: one of the permissions is enough. *)
SomePermission(list) ==
  \/ Usable(GetByKey(list, Star)) /\ ~IsSelfSigned(GetByKey(list, Star))
  \/ \E rsc \in AskedFor : Usable(GetByKey(list, rsc))

(* validatePermissions: whether it finds a UCAN. *)
ValidPermissions(list) ==
  \/ Usable(GetByKey(list, Star)) /\ ~IsSelfSigned(GetByKey(list, Star))
  \/ AskedFor # {} /\ \A rsc \in AskedFor : Usable(GetByKey(list, rsc))

-----------------------------------------------------------------------------
(* Secrets. *)
ReadKey(user, path) == <<user, path.parts>>
BareNameFilter(user, path) == <<user, path.parts>>

ValidSecrets(user) == \A p \in SecretPaths : ReadKey(user, p) \in keys

(* findPrivateNode, in the map of the paths that are loaded before. *)
HasLoadedParent(path) ==
  \E p \in SecretPaths : p.kind = "directory" /\ p # path /\ IsPrefix(p.parts, path.parts)

(* loadPrivateNodes: the root needs no filter; that of a path below another can be read there. *)
NodesLoad(user) ==
  \A p \in SecretPaths :
    \/ p.parts = <<"private">>
    \/ BareNameFilter(user, p) \in filters
    \/ HasLoadedParent(p)

(* permissionKeys *)
KeysLoad(user) == \A p \in SecretPaths : ReadKey(user, p) \in keys

-----------------------------------------------------------------------------
(* A page, before it collects anything, with the UCANs and the session of the storage. *)
Blank(list, restored) ==
  [pc |-> "closed", user |-> None, info |-> None, secrets |-> << >>, ucans |-> list,
   restored |-> restored, session |-> None, why |-> None]

Closed == Blank(<< >>, None)

Init ==
  /\ url \in Users \union {None} /\ ucans \in {<< >>, <<SelfSigned>>} /\ session = None
  /\ keys = {} /\ filters = {} /\ page = Closed /\ attempts = << >>
  /\ now = 0 /\ opens = 0 /\ cut = FALSE

Go(pc) == page' = [page EXCEPT !.pc = pc]
Fails(why) == page' = [page EXCEPT !.pc = "failed", !.why = why]
Stored == <<ucans, session, keys, filters>>

(* Assembly of the program, after what could be collected. *)
Resume(pg) ==
  IF pg.restored = None THEN [pg EXCEPT !.pc = "open"]
  ELSE [pg EXCEPT !.pc = "validate", !.user = pg.restored, !.restored = None]

-----------------------------------------------------------------------------
(* Exchange with the lobby.  What a retry comes to is dropped: only the first attempt counts. *)
Attempt(tries) == [tries |-> tries, state |-> "frame", timer |-> TRUE]

(* Mutant: the tries are not counted. *)
RetriedForEver(list, those) ==
  list \o [k \in DOMAIN SetToSeq(those) |-> Attempt(Tries)]

(* One more attempt for each of those, if it has tries left; their order is of no account. *)
Retried(list, those) ==
  LET again == SetToSeq({i \in those : attempts[i].tries > 1})
  IN list \o [k \in DOMAIN again |-> Attempt(attempts[again[k]].tries - 1)]

Listening(attempt) == attempt.state = "listening"
Ended(list, how) ==
  [i \in DOMAIN list |->
     IF Listening(list[i]) THEN [list[i] EXCEPT !.state = how, !.timer = FALSE] ELSE list[i]]

Exchanging == page.pc = "exchange" /\ UNCHANGED <<url, Stored, now, opens, cut>>

FrameLoads(i) ==
  /\ Exchanging /\ i \in DOMAIN attempts /\ attempts[i].state = "frame"
  /\ attempts' = [attempts EXCEPT ![i].state = "listening"] /\ UNCHANGED page

(* Mutant: an attempt that takes too long does not listen any more. *)
TimesOutForGood(i) ==
  /\ Exchanging /\ i \in DOMAIN attempts /\ attempts[i].timer
  /\ attempts' = Retried([attempts EXCEPT ![i].timer = FALSE, ![i].state = "stopped"], {i})
  /\ UNCHANGED page

TimesOut(i) ==
  /\ Exchanging /\ i \in DOMAIN attempts /\ attempts[i].timer
  /\ attempts' = Retried([attempts EXCEPT ![i].timer = FALSE], {i})
  /\ UNCHANGED page

(* The answer to one iframe is a message that all the listeners hear. *)
Answered ==
  /\ Exchanging /\ \E i \in DOMAIN attempts : Listening(attempts[i])
  /\ IF Listening(attempts[1])
     THEN /\ attempts' = << >>
          /\ \E grant \in Grants \union {None} :
               page' = [page EXCEPT !.pc = "translate", !.info = grant]
     ELSE attempts' = Ended(attempts, "resolved") /\ UNCHANGED page

(* So is a message from elsewhere, or one that holds no information: each starts a retry. *)
Disturbed ==
  /\ Exchanging /\ \E i \in DOMAIN attempts : Listening(attempts[i])
  /\ attempts' = Retried(Ended(attempts, "rejected"), {i \in DOMAIN attempts : Listening(attempts[i])})
  /\ UNCHANGED page

-----------------------------------------------------------------------------
(* translateClassifiedInfo; the URL is cleared when it succeeds. *)
Translate ==
  /\ page.pc = "translate"
  /\ IF page.info = None THEN Fails("secrets") /\ UNCHANGED url
     ELSE Go("permissions") /\ url' = None
  /\ UNCHANGED <<Stored, attempts, now, opens, cut>>

Ucan(rsc) == [rsc |-> rsc, root |-> page.user, exp |-> now + Lifetime]

CollectPermissions ==
  /\ page.pc = "permissions"
  /\ IF page.info.ucans = << >> THEN Fails("no UCAN") /\ UNCHANGED ucans
     ELSE /\ ucans' = page.ucans \o [i \in DOMAIN page.info.ucans |-> Ucan(page.info.ucans[i])]
          /\ page' = [page EXCEPT !.pc = "lookup", !.ucans = ucans']
  /\ UNCHANGED <<url, session, keys, filters, attempts, now, opens, cut>>

(* The DID of the account is looked up. *)
LookupDid ==
  /\ page.pc = "lookup"
  /\ \/ page' = [page EXCEPT !.pc = "key", !.secrets = page.info.secrets, !.info = None]
     \/ Fails("offline")
  /\ UNCHANGED <<url, Stored, attempts, now, opens, cut>>

ImportKey ==
  /\ page.pc = "key"
  /\ IF page.secrets = << >> THEN Go("validate") /\ UNCHANGED keys
     ELSE keys' = keys \union {ReadKey(page.user, Head(page.secrets))} /\ Go("filter")
  /\ UNCHANGED <<url, ucans, session, filters, attempts, now, opens, cut>>

(* Mutant: only the first of the filters is stored. *)
StoreFirstFilter ==
  /\ page.pc = "filter"
  /\ filters' = IF filters = {} THEN {BareNameFilter(page.user, Head(page.secrets))} ELSE filters
  /\ page' = [page EXCEPT !.pc = "key", !.secrets = Tail(@)]
  /\ UNCHANGED <<url, ucans, session, keys, attempts, now, opens, cut>>

StoreFilter ==
  /\ page.pc = "filter"
  /\ filters' = filters \union {BareNameFilter(page.user, Head(page.secrets))}
  /\ page' = [page EXCEPT !.pc = "key", !.secrets = Tail(@)]
  /\ UNCHANGED <<url, ucans, session, keys, attempts, now, opens, cut>>

-----------------------------------------------------------------------------
(* capabilities.session, for the user that was collected and for that of the stored session. *)
NoSession == page' = Resume([page EXCEPT !.session = None])

Validate ==
  /\ page.pc = "validate"
  /\ IF ValidPermissions(page.ucans) THEN Go("secrets") \/ Fails("offline") ELSE NoSession
  /\ UNCHANGED <<url, Stored, attempts, now, opens, cut>>

CheckSecrets ==
  /\ page.pc = "secrets"
  /\ IF ValidSecrets(page.user) THEN Go("provide") ELSE NoSession
  /\ UNCHANGED <<url, Stored, attempts, now, opens, cut>>

Provide ==
  /\ page.pc = "provide" /\ session' = page.user /\ Go("load")
  /\ UNCHANGED <<url, ucans, keys, filters, attempts, now, opens, cut>>

Load ==
  /\ page.pc = "load"
  /\ IF KeysLoad(page.user) /\ NodesLoad(page.user)
     THEN page' = Resume([page EXCEPT !.session = page.user])
     ELSE Fails("load")
  /\ UNCHANGED <<url, Stored, attempts, now, opens, cut>>

-----------------------------------------------------------------------------
Open ==
  /\ page.pc = "closed" /\ opens < MaxOpens /\ opens' = opens + 1
  /\ LET pg == Blank(ucans, session)
     IN IF url = None THEN page' = Resume(pg) /\ attempts' = << >>
        ELSE /\ page' = [pg EXCEPT !.pc = "exchange", !.user = url]
             /\ attempts' = <<Attempt(Tries)>>
  /\ UNCHANGED <<url, Stored, now, cut>>

Close ==
  /\ page.pc # "closed" /\ page' = Closed /\ attempts' = << >>
  /\ cut' = (cut \/ page.pc = "filter")
  /\ UNCHANGED <<url, Stored, now, opens>>

(* The page goes to the lobby, which sends a user back, or nobody. *)
Request ==
  /\ page.pc = "open" /\ page' = Closed /\ attempts' = << >>
  /\ url' \in Users \union {None}
  /\ UNCHANGED <<Stored, now, opens, cut>>

Tick ==
  /\ now < MaxTime /\ now' = now + 1
  /\ UNCHANGED <<url, Stored, page, attempts, opens, cut>>

PageSteps ==
  Translate \/ CollectPermissions \/ LookupDid \/ ImportKey \/ StoreFilter
    \/ Validate \/ CheckSecrets \/ Provide \/ Load

Next ==
  \/ Open \/ Close \/ Request \/ Tick
  \/ \E i \in DOMAIN attempts : FrameLoads(i) \/ TimesOut(i)
  \/ Answered \/ Disturbed
  \/ PageSteps

(* The page takes its steps; a frame loads in the end, and the lobby answers. *)
Fairness == WF_vars(PageSteps) /\ WF_vars(FrameLoads(1)) /\ WF_vars(Answered)

Spec == Init /\ [][Next]_vars /\ Fairness

-----------------------------------------------------------------------------
Starting == {"exchange", "translate", "permissions", "lookup", "key", "filter",
             "validate", "secrets", "provide", "load"}
Secrets == Users \X {p.parts : p \in UNION {Range(grant.secrets) : grant \in Grants}}

(* The page, the exchange and what is stored have the values that the code gives them. *)
TypeOK ==
  /\ {url, session, page.user, page.session, page.restored} \subseteq Users \union {None}
  /\ ucans \in Seq(UcanSet)
  /\ keys \subseteq Secrets /\ filters \subseteq keys
  /\ page.pc \in Starting \union {"closed", "open", "failed"}
  /\ page.why \in {None, "secrets", "no UCAN", "offline", "load"}
  /\ Len(attempts) < 2 ^ Tries
  /\ \A a \in Range(attempts) :
       /\ a.tries \in 1..Tries /\ a.state \in {"frame", "listening", "resolved", "rejected"}
       /\ a.timer \in BOOLEAN

(* Secrets that validateSecrets accepts load: it looks at the read keys     *)
(* only, so this rests on a filter being there for every key, whatever was *)
(* granted and whenever the page was closed, except between storing a key  *)
(* and its filter (capabilities.ts:87).                                    *)
SecretsLoad == page.why = "load" => cut

Below(path) == IF path.kind = "file" THEN {path} ELSE {path, File(Append(path.parts, "file"))}

(* Nothing in the repository hides the UCANs of the session from a lookup: *)
(* a root UCAN that has expired or that the device made for itself, which  *)
(* validatePermissions passes over and lookupFilesystemUcan returns; one    *)
(* that was not asked for and has expired, in a directory that was; or     *)
(* UCANs of a second user.                                                 *)
Unclouded ==
  LET god == GetByKey(page.ucans, Star)
  IN /\ god = None \/ (Usable(god) /\ ~IsSelfSigned(god))
     /\ \A u \in Range(page.ucans) : u.rsc \notin AskedFor => Usable(GetByKey(page.ucans, u.rsc))
     /\ Cardinality({u.root : u \in Range(page.ucans)} \ {None}) <= 1

(* Permissions that validatePermissions accepts are of use: each path that *)
(* the app asked for, and each below, has a UCAN that file system calls    *)
(* find as their proof, that has not expired and that comes from the       *)
(* account of the session.                                                 *)
ChangesAreProven ==
  [][page.pc = "validate" /\ page'.pc = "secrets" /\ Unclouded =>
       \A p \in UNION {Below(q) : q \in Range(PermissionPaths)} :
         LET proof == LookupFilesystemUcan(page.ucans, p)
         IN Usable(proof) /\ proof.root = page.user]_vars

FirstRejected == attempts # << >> /\ attempts[1].state = "rejected"

(* Collecting comes to an end, in a session, without one or with an error, *)
(* however many timeouts and retries there are, if the lobby answers: also *)
(* an answer that comes late, or to another attempt, counts.  Only when a  *)
(* message from elsewhere rejects the first attempt does collect hang, as  *)
(* the result of a retry goes nowhere (fission-lobby.ts:286).              *)
CollectSettles == (page.pc = "exchange") ~> (page.pc \notin Starting \/ FirstRejected)
=============================================================================
