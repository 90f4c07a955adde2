----------------------------- MODULE MCAccounts -----------------------------
(***************************************************************************)
(* A demo account, an administrator's, and somebody else whose address     *)
(* begins with the same twelve characters.  Passwords are tried on the     *)
(* administrator's: two windows of two tries, and the edge between them.   *)
(***************************************************************************)
EXTENDS Accounts, TLC

CONSTANTS adm, ext, prefix

MCAddresses == {adm, ext}
MCSeedUsers == <<[email |-> adm, role |-> "FINANCE_ADMIN"]>>
MCMaxLogins == (adm :> 4) @@ (ext :> 0)
MCssoId == [a \in MCAddresses |-> prefix]
=============================================================================
