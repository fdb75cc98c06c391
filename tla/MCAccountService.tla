-------------------------- MODULE MCAccountService --------------------------
(***************************************************************************)
(* A development account that exists or not, and two registrations for its *)
(* address.                                                                *)
(***************************************************************************)
EXTENDS AccountService, TLC

CONSTANTS rita, rudi, dev

MCEmailOf == [u \in Users |-> "admin@hotel"]

MCDevRole == (dev :> "ADMIN")
=============================================================================
