----------------------------- MODULE MCReassign -----------------------------
(***************************************************************************)
(* A purchase request worked on while an administrator moves people        *)
(* between positions, sessions outlive the position they were issued for,  *)
(* and the server restarts.                                                *)
(***************************************************************************)
EXTENDS PrfStoreProperties

CONSTANTS req, dir, adm

MCUsers == {req, dir, adm}

MCInitialUsers ==
  [u \in MCUsers |->
     CASE u = req -> [role |-> "REQUESTER", tier |-> NoTier]
       [] u = dir -> [role |-> "APPROVER", tier |-> "DIRECTOR"]
       [] u = adm -> [role |-> "FINANCE_ADMIN", tier |-> NoTier]]

MCContents == {[amount |-> 1500000, complete |-> TRUE, copy |-> NoUser]}
=============================================================================
