---------------------------- MODULE MCFileSystem ----------------------------
(* FileSystem for TLC: paths and the calls that are made. *)
EXTENDS FileSystem

CONSTANTS c1, c2

at(part, kind, names) == [part |-> part, kind |-> kind, names |-> names]
op(kind, path, to, publish) == [kind |-> kind, path |-> path, to |-> to, publish |-> publish, with |-> None]
share(path, with) == [op("share", path, path, TRUE) EXCEPT !.with = with]

privateRoot == at("private", "directory", << >>)
privateFile(name) == at("private", "file", <<name>>)
publicFile == at("public", "file", <<"f">>)
publicDir == at("public", "directory", <<"d">>)

(* The whole private tree is loaded, or one file of it. *)
HeldNodes == {{privateRoot}, {privateFile("g")}}

Calls ==
  {op("write", publicFile, publicFile, TRUE), op("links", publicDir, publicDir, FALSE),
   op("historyStep", publicDir, publicDir, FALSE), op("ls", publicDir, publicDir, FALSE),
   op("write", privateFile("g"), publicFile, TRUE), share(privateFile("f"), "bob")}

AnyCaller == Permutations(Callers)
=============================================================================
