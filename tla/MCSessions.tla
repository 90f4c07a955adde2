----------------------------- MODULE MCSessions -----------------------------
(***************************************************************************)
(* Two tabs of one browser on a shared computer, two people.               *)
(***************************************************************************)
EXTENDS Sessions, TLC

Interchangeable == Permutations(Tabs) \cup Permutations(Users)
=============================================================================
