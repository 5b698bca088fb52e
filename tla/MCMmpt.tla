------------------------------- MODULE MCMmpt -------------------------------
(* Mmpt for TLC: binary names, a node to load, a leaf to split twice over, *)
(* a name that is there already.                                           *)
EXTENDS Mmpt

InitialNames == {<<0, 0, 0>>, <<0, 0, 1>>, <<1, 0, 0>>}
AddedNames == {<<0, 1, 0>>, <<0, 1, 1>>, <<1, 0, 1>>, <<1, 1, 0>>, <<0, 0, 0>>}
=============================================================================
