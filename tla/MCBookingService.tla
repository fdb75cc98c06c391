-------------------------- MODULE MCBookingService --------------------------
(***************************************************************************)
(* One room and three stays for TLC: two that share a night, and the first *)
(* one requested again with the same idempotency key.                      *)
(***************************************************************************)
EXTENDS BookingService, TLC

CONSTANTS early, again, late, room, k1, k2

MCRequests == {early, again, late}
MCTwoRequests == {early, late}
MCRoom == [r \in Requests |-> room]
MCCheckIn == [r \in Requests |-> IF r = late THEN 2 ELSE 1]
MCCheckOut == [r \in Requests |-> IF r = late THEN 4 ELSE 3]
MCKey == [r \in Requests |-> IF r = late THEN k2 ELSE k1]

\* Operations in flight differ in nothing but their names.
OpSymmetry == Permutations(Ops)
=============================================================================
