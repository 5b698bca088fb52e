---------------------------- MODULE MCPublicTree ----------------------------
(* PublicTree for TLC: all kinds of calls one at a time, some together. *)
EXTENDS PublicTree

CONSTANTS c1, c2

add(p) == [kind |-> "add", path |-> p, to |-> << >>]
mkdir(p) == [kind |-> "mkdir", path |-> p, to |-> << >>]
rm(p) == [kind |-> "rm", path |-> p, to |-> << >>]
mv(p, q) == [kind |-> "mv", path |-> p, to |-> q]

File == [isFile |-> TRUE, cid |-> 0, sub |-> Empty, shared |-> None]
Directory(s) == [isFile |-> FALSE, cid |-> s, sub |-> s, shared |-> None]
LoadedTrees == {Empty, [Empty EXCEPT !["a"] = Directory([Empty EXCEPT !["b"] = File])]}

OneByOne ==
  {add(<<"a">>), add(<<"a", "a">>), add(<<"a", "b">>), add(<<"b", "a">>), add(<<"a", "b", "a">>),
   mkdir(<<"a", "b">>), mkdir(<<"b">>), rm(<<"a">>), rm(<<"a", "b">>),
   mv(<<"a">>, <<"b">>), mv(<<"a", "b">>, <<"b", "a">>), mv(<<"a">>, <<"b", "a">>),
   mv(<<"a">>, <<"a", "b">>)}

Together == {add(<<"a", "a">>), add(<<"a", "b">>), mkdir(<<"a">>), add(<<"b">>)}

AllOps == OneByOne \union Together
MCPlans ==
  {[callers |-> {c1}, ops |-> OneByOne, reloads |-> 1],
   [callers |-> {c1, c2}, ops |-> Together, reloads |-> 0]}
=============================================================================
