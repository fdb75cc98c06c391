--------------------------- MODULE IdealBookings ---------------------------
(***************************************************************************)
(* What the booking service promises (payment-flow.md, "Flow Summary" and  *)
(* "Failure Rules"): a room is reserved only for nights nobody else has,   *)
(* and a booking goes through its states once, in one direction.           *)
(***************************************************************************)
CONSTANTS
    Bookings,
    Clashes     \* pairs of bookings that cannot both stand

VARIABLE status     \* [Bookings -> status, "none" before the booking exists]

Stands(b) == status[b] \in {"PENDING_PAYMENT", "CONFIRMED"}

Init == status = [b \in Bookings |-> "none"]

Become(b, from, to) ==
    /\ status[b] \in from
    /\ status' = [status EXCEPT ![b] = to]

Reserve(b) ==
    /\ \A c \in Bookings : <<b, c>> \in Clashes => ~Stands(c)
    /\ Become(b, {"none"}, "PENDING_PAYMENT")

Confirm(b) == Become(b, {"PENDING_PAYMENT"}, "CONFIRMED")

Fail(b) == Become(b, {"PENDING_PAYMENT"}, "FAILED")

Cancel(b) == Become(b, {"PENDING_PAYMENT", "CONFIRMED"}, "CANCELLED")

Next == \E b \in Bookings : Reserve(b) \/ Confirm(b) \/ Fail(b) \/ Cancel(b)

Spec == Init /\ [][Next]_status
=============================================================================
