----------------------------- MODULE MCUploads ------------------------------
(***************************************************************************)
(* A register of one number and two people who both buy things, a          *)
(* requester, at whose editor we look, and an approver: drafts are created,*)
(* given files, submitted or deleted, and the number is given out again,   *)
(* perhaps to the other one, while transfers are under way.                *)
(***************************************************************************)
EXTENDS Uploads, TLC

CONSTANTS req, mgr

MCUsers == {req, mgr}

MCInitialUsers ==
  [u \in MCUsers |->
     IF u = req THEN [role |-> "REQUESTER", tier |-> NoTier]
                ELSE [role |-> "APPROVER", tier |-> "MANAGER"]]

MCContents == {[amount |-> 500000, complete |-> TRUE, copy |-> NoUser]}
Alike == Permutations(Files)
=============================================================================
