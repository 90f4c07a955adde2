---------------------------- MODULE MCLifecycle -----------------------------
(***************************************************************************)
(* One purchase request taken round both gates, twice, by a requester, two *)
(* approvers of different bands and a finance reviewer whose positions do  *)
(* not change.  Amounts sit on the two sides of the manager's limit.       *)
(***************************************************************************)
EXTENDS PrfStoreProperties

CONSTANTS req, mgr, chf, fin

MCUsers == {req, mgr, chf, fin}

MCInitialUsers ==
  [u \in MCUsers |->
     CASE u = req -> [role |-> "REQUESTER", tier |-> NoTier]
       [] u = mgr -> [role |-> "APPROVER", tier |-> "MANAGER"]
       [] u = chf -> [role |-> "APPROVER", tier |-> "CHIEF"]
       [] u = fin -> [role |-> "FINANCE_REVIEWER", tier |-> NoTier]]

MCContents ==
  {[amount |-> 500000, complete |-> TRUE,  copy |-> mgr],
   [amount |-> 500001, complete |-> TRUE,  copy |-> NoUser],
   [amount |-> 0,      complete |-> FALSE, copy |-> NoUser]}
=============================================================================
