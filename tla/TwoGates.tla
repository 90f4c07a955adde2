------------------------------ MODULE TwoGates ------------------------------
(***************************************************************************)
(* What the Hub promises its users, with nothing said of how: a purchase   *)
(* is written by its author, submitted, signed by somebody else whose      *)
(* authority covers it, cleared by Finance, and then it is final.  Either  *)
(* gate may send it back, which voids the signature; it is then revised    *)
(* and goes through both gates again.  Only a purchase that was never      *)
(* submitted can be discarded.                                             *)
(***************************************************************************)
EXTENDS Integers

CONSTANTS
  Ids,      \* the purchases there may be
  People,
  Nobody,
  Amounts,  \* what a purchase may be worth
  Limits    \* the limits people may sign under

VARIABLES
  stage,      \* how far each purchase has come
  author,     \* who wrote it
  worth,      \* its amount, in cents
  signer,     \* who signed the present submission, if anybody has
  authority,  \* the limit that signature was given under
  clearer     \* who cleared it for payment

gvars == <<stage, author, worth, signer, authority, clearer>>

Init ==
  /\ stage = [i \in Ids |-> "absent"]
  /\ author = [i \in Ids |-> Nobody]
  /\ worth = [i \in Ids |-> 0]
  /\ signer = [i \in Ids |-> Nobody]
  /\ authority = [i \in Ids |-> 0]
  /\ clearer = [i \in Ids |-> Nobody]

Write(i, p, amount) ==
  /\ stage[i] = "absent"
  /\ stage' = [stage EXCEPT ![i] = "draft"]
  /\ author' = [author EXCEPT ![i] = p]
  /\ worth' = [worth EXCEPT ![i] = amount]
  /\ UNCHANGED <<signer, authority, clearer>>

Revise(i, amount) ==
  /\ stage[i] \in {"draft", "revision"}
  /\ worth' = [worth EXCEPT ![i] = amount]
  /\ UNCHANGED <<stage, author, signer, authority, clearer>>

Discard(i) ==
  /\ stage[i] = "draft"
  /\ stage' = [stage EXCEPT ![i] = "absent"]
  /\ author' = [author EXCEPT ![i] = Nobody]
  /\ worth' = [worth EXCEPT ![i] = 0]
  /\ UNCHANGED <<signer, authority, clearer>>

Submit(i) ==
  /\ stage[i] \in {"draft", "revision"}
  /\ stage' = [stage EXCEPT ![i] = "gate 1"]
  /\ UNCHANGED <<author, worth, signer, authority, clearer>>

Sign(i, p, limit) ==
  /\ stage[i] = "gate 1"
  /\ p # author[i]
  /\ limit >= worth[i]
  /\ stage' = [stage EXCEPT ![i] = "gate 2"]
  /\ signer' = [signer EXCEPT ![i] = p]
  /\ authority' = [authority EXCEPT ![i] = limit]
  /\ UNCHANGED <<author, worth, clearer>>

Clear(i, p) ==
  /\ stage[i] = "gate 2"
  /\ stage' = [stage EXCEPT ![i] = "approved"]
  /\ clearer' = [clearer EXCEPT ![i] = p]
  /\ UNCHANGED <<author, worth, signer, authority>>

SendBack(i) ==
  /\ stage[i] \in {"gate 1", "gate 2"}
  /\ stage' = [stage EXCEPT ![i] = "revision"]
  /\ signer' = [signer EXCEPT ![i] = Nobody]
  /\ authority' = [authority EXCEPT ![i] = 0]
  /\ UNCHANGED <<author, worth, clearer>>

Next ==
  \E i \in Ids :
    \/ \E p \in People, amount \in Amounts : Write(i, p, amount)
    \/ \E amount \in Amounts : Revise(i, amount)
    \/ Discard(i)
    \/ Submit(i)
    \/ \E p \in People : \E limit \in Limits : Sign(i, p, limit)
    \/ \E p \in People : Clear(i, p)
    \/ SendBack(i)

Spec == Init /\ [][Next]_gvars
=============================================================================
