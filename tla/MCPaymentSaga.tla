---------------------------- MODULE MCPaymentSaga ----------------------------
(***************************************************************************)
(* One booking that costs one unit, two proceed calls for it, a worker     *)
(* that can run two activations, and a guest with enough to pay unless the *)
(* money goes elsewhere.  Top-ups are among what happens elsewhere.        *)
(***************************************************************************)
EXTENDS PaymentSaga, TLC

CONSTANTS guest, owner, beach

MCUsers == {guest, owner}
MCOpening == [u \in MCUsers |-> IF u = guest THEN 1 ELSE 0]
MCGuest == [b \in Bookings |-> guest]
MCOwner == [b \in Bookings |-> owner]
MCAmount == [b \in Bookings |-> 1]
MCNobody == [r \in TopUps |-> guest]
MCNothing == [r \in TopUps |-> 1]
MCSums == {0, 1}
MCPausing == {"readOwner", "emitInsufficient"}

\* Activations and calls differ in nothing but their names.
SagaSymmetry == Permutations(Workers) \cup Permutations(Calls)
=============================================================================
