----------------------------- MODULE MCSession -----------------------------
(* Session for TLC. *)
EXTENDS Session, TLC

CONSTANTS t1, t2

AnyTab == Permutations({t1, t2})
=============================================================================
