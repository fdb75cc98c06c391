-------------------------- MODULE MCWalletService --------------------------
(***************************************************************************)
(* Small wallets for TLC.  The guest can pay for one of two bookings and,  *)
(* after a top-up, for both; one owner owns both rooms; the top-up request *)
(* is sent twice with one idempotency key.                                 *)
(***************************************************************************)
EXTENDS WalletService, TLC

CONSTANTS guest, owner, b1, b2, t1, t2, k1

MCUsers == {guest, owner}
MCBookings == {b1, b2}
MCOneBooking == {b1}
MCOpening == [u \in MCUsers |-> IF u = guest THEN 3 ELSE 0]
MCGuest == [b \in Bookings |-> guest]
MCOwner == [b \in Bookings |-> owner]
MCAmount == [b \in Bookings |-> 2]
MCTopUps == {t1, t2}
MCOneTopUp == {t1}
MCTopUpUser == [r \in TopUps |-> guest]
MCTopUpKey == [r \in TopUps |-> k1]
MCTopUpAmount == [r \in TopUps |-> 1]
MCKeys == {k1}

\* Activations differ in nothing but their names.
WorkerSymmetry == Permutations(Workers)

=============================================================================
