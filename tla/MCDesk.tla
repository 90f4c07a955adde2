------------------------------- MODULE MCDesk -------------------------------
(***************************************************************************)
(* A requester with two versions of one purchase, an approver, and a       *)
(* reviewer of Finance.  We look at the page of either of the two while    *)
(* the other one, or the same person elsewhere, signs, clears and sends    *)
(* back, and the requester amends and submits again.                       *)
(***************************************************************************)
EXTENDS Desk

CONSTANTS req, mgr, fin

MCUsers == {req, mgr, fin}

MCInitialUsers ==
  [u \in MCUsers |->
     CASE u = req -> [role |-> "REQUESTER", tier |-> NoTier]
       [] u = mgr -> [role |-> "APPROVER", tier |-> "MANAGER"]
       [] u = fin -> [role |-> "FINANCE_REVIEWER", tier |-> NoTier]]

MCContents == {[amount |-> a, complete |-> TRUE, copy |-> NoUser] : a \in {100000, 500000}}
=============================================================================
