---------------------------- MODULE MCNumbering -----------------------------
(***************************************************************************)
(* PrfStore with a record of every number it ever gave out.                *)
(***************************************************************************)
EXTENDS PrfStoreProperties

CONSTANTS req

VARIABLE issued   \* history: the PRF numbers given out so far

MCInitialUsers == [u \in Users |-> [role |-> "REQUESTER", tier |-> NoTier]]

MCContents == {[amount |-> 500000, complete |-> TRUE, copy |-> NoUser]}

NumberingInit == Init /\ issued = {}

NumberingNext == Next /\ issued' = issued \cup DOMAIN requests'

NumberingSpec == NumberingInit /\ [][NumberingNext]_<<vars, issued>>

\* store.ts, nextPrfNumber: "PRF numbers come from the highest issued number",
\* so no new request may take a number that was given out before.
NumbersNeverReused ==
  [][\A id \in DOMAIN requests' \ DOMAIN requests : id \notin issued]_<<vars, issued>>
=============================================================================
