---------------------------- MODULE PrfAuthority ----------------------------
(***************************************************************************)
(* Who may do what in the Purchase Request Hub: the five roles, the        *)
(* signing ladder, and the rule that turns an amount into the lowest tier  *)
(* that may authorise it.  src/lib/store.ts keeps these at the top of the  *)
(* data layer and every operation of PrfStore consults them.               *)
(*                                                                         *)
(* Amounts are whole cents, because total() rounds to two decimals, so a   *)
(* band that ends at $5,000 ends at 500000 here.                           *)
(***************************************************************************)
EXTENDS Integers

CONSTANTS
  Infinity,   \* Number.POSITIVE_INFINITY: the limit of the CFO and the CEO
  NoTier      \* an account or a session that carries no signing band

ASSUME InfinityAssumption == Infinity \in Nat /\ Infinity > 7500000

Roles == {"REQUESTER", "APPROVER", "FINANCE_REVIEWER", "FINANCE_ADMIN", "VIEW_ONLY"}

TIERS == <<"MANAGER", "DIRECTOR", "SENIOR_DIRECTOR", "CHIEF", "CFO", "CEO">>
Tiers == {"MANAGER", "DIRECTOR", "SENIOR_DIRECTOR", "CHIEF", "CFO", "CEO"}

ASSUME NoTierAssumption == NoTier \notin Tiers

TIER_LIMIT ==
  [ MANAGER         |-> 500000,
    DIRECTOR        |-> 1500000,
    SENIOR_DIRECTOR |-> 2500000,
    CHIEF           |-> 7500000,
    CFO             |-> Infinity,
    CEO             |-> Infinity ]

\* A band that is absent authorises nothing.
tierLimit(tier) == IF tier \in Tiers THEN TIER_LIMIT[tier] ELSE 0

\* The lowest tier of the ladder whose limit covers the amount.
tierForAmount(amount) ==
  IF amount <= 0 THEN "MANAGER"
  ELSE TIERS[CHOOSE i \in 1..6 :
               /\ amount <= tierLimit(TIERS[i])
               /\ \A j \in 1..(i-1) : amount > tierLimit(TIERS[j])]

\* One rung up; the CEO stays where they are.
nextTierAbove(tier) ==
  LET i == CHOOSE k \in 1..6 : TIERS[k] = tier
  IN  TIERS[IF i < 6 THEN i + 1 ELSE 6]

-----------------------------------------------------------------------------
(* Capabilities.  Each is a function of the role alone.                    *)

isApprover(role) == role = "APPROVER"
isFinance(role)  == role \in {"FINANCE_REVIEWER", "FINANCE_ADMIN"}
isAdmin(role)    == role = "FINANCE_ADMIN"
=============================================================================
