-------------------------- MODULE BookingLifecycle --------------------------
(***************************************************************************)
(* What happens to a booking after it is created (booking.service.js):     *)
(* payment, cancellation and the payment events.  Every operation reads    *)
(* the booking, decides, and writes with an update that is not conditional *)
(* on what it read; an operation in flight is an `op`.  The proceed call   *)
(* of the wallet service (proceedBookingPayment) is a client of three of   *)
(* the operations and runs through them in one op.                         *)
(*                                                                         *)
(* confirmBookingForUser has no action: it stores the value it has just    *)
(* read and changes nothing.                                               *)
(***************************************************************************)
EXTENDS BookingStore

CONSTANT Ops        \* operations that can be in flight at the same time

VARIABLES
    op,         \* [Ops -> [pc, booking, seen]]: control point, booking, payment read
    asked       \* bookings for which BOOKING_CREATED was published

lifecycleVars == <<op, asked>>

OpPoints == {"idle", "cancelWrite", "successWrite", "failRead", "failWrite",
             "processRead", "processWrite", "emit", "release"}

IdleOp == [pc |-> "idle", booking |-> NoRequest, seen |-> "none"]

LifecycleInit ==
    /\ op = [o \in Ops |-> IdleOp]
    /\ asked = {}

OnBooking(o) == op[o].booking

Pending(b) == booking[b].status = "PENDING_PAYMENT"

Begin(o, b, point) ==
    /\ op[o].pc = "idle"
    /\ op' = [op EXCEPT ![o] = [pc |-> point, booking |-> b, seen |-> booking[b].payment]]

\* The op stands at `from` and moves on to `to`; an op that is done forgets.
Advance(o, from, to) ==
    /\ op[o].pc = from
    /\ op' = [op EXCEPT ![o] = IF to = "idle" THEN IdleOp ELSE [op[o] EXCEPT !.pc = to]]

-----------------------------------------------------------------------------
(***************************************************************************)
(* cancelBookingForUser.                                                   *)
(***************************************************************************)

\* Mutant of BeginCancel: the missing booking is not answered with 404.
BeginCancelAnything(o, b) ==
    /\ booking[b].status \notin {"FAILED", "CANCELLED"}
    /\ Begin(o, b, "cancelWrite")
    /\ UNCHANGED <<asked, storeVars>>

\* The read.  404 without the booking; 400, or the cancelled booking itself,
\* unless it is pending or confirmed.
BeginCancel(o, b) ==
    /\ Live(b)
    /\ Begin(o, b, "cancelWrite")
    /\ UNCHANGED <<asked, storeVars>>

\* Mutant of CancelWrite: the refund of a paid booking is forgotten.
CancelWriteKeepsPayment(o) ==
    /\ Advance(o, "cancelWrite", "release")
    /\ UpdateBooking(OnBooking(o), "CANCELLED", op[o].seen)
    /\ UNCHANGED <<asked, locks, stranded>>

\* The payment status written is computed from the one that was read.
CancelWrite(o) ==
    /\ Advance(o, "cancelWrite", "release")
    /\ UpdateBooking(OnBooking(o), "CANCELLED",
                     IF op[o].seen = "SUCCESS" THEN "REFUNDED" ELSE op[o].seen)
    /\ UNCHANGED <<asked, locks, stranded>>

-----------------------------------------------------------------------------
(***************************************************************************)
(* handlePaymentEvent.                                                     *)
(***************************************************************************)

\* Mutant of BeginSuccess: the handler does not look at the status.
BeginSuccessUnchecked(o, b) ==
    /\ Exists(b)
    /\ Begin(o, b, "successWrite")
    /\ UNCHANGED <<asked, storeVars>>

\* PAYMENT_SUCCESS for a booking that is not pending is ignored.
BeginSuccess(o, b) ==
    /\ Pending(b)
    /\ Begin(o, b, "successWrite")
    /\ UNCHANGED <<asked, storeVars>>

SuccessWrite(o) ==
    /\ Advance(o, "successWrite", "release")
    /\ UpdateBooking(OnBooking(o), "CONFIRMED", "SUCCESS")
    /\ UNCHANGED <<asked, locks, stranded>>

\* PAYMENT_FAILED: markPaymentFailedBySystem.
BeginFailure(o, b) ==
    /\ Pending(b)
    /\ Begin(o, b, "failWrite")
    /\ UNCHANGED <<asked, storeVars>>

\* Mutant of FailWrite: the room lock is left to its TTL.
FailWriteKeepsLock(o) ==
    /\ Advance(o, "failWrite", "idle")
    /\ UpdateBooking(OnBooking(o), "FAILED", "FAILED")
    /\ UNCHANGED <<asked, locks, stranded>>

FailWrite(o) ==
    /\ Advance(o, "failWrite", "release")
    /\ UpdateBooking(OnBooking(o), "FAILED", "FAILED")
    /\ UNCHANGED <<asked, locks, stranded>>

\* releaseRoomLock: DEL booking.lockKey, whoever holds it by now.
ReleaseRoomLock(o) ==
    /\ Advance(o, "release", "idle")
    /\ Delete(RoomLock(OnBooking(o)))
    /\ UNCHANGED <<asked, booking, stranded>>

-----------------------------------------------------------------------------
(***************************************************************************)
(* proceedBookingPayment of the wallet service, with the operations it     *)
(* calls here.  It reads the booking, then the guest's balance.            *)
(***************************************************************************)

\* GET /internal/bookings/:id says PENDING_PAYMENT; the balance suffices or not.
BeginProceed(o, b) ==
    /\ Pending(b)
    /\ \E point \in {"processRead", "failRead"} : Begin(o, b, point)
    /\ UNCHANGED <<asked, storeVars>>

\* POST mark-failed: markPaymentFailedBySystem reads for itself.
FailRead(o) ==
    /\ Advance(o, "failRead", IF Pending(OnBooking(o)) THEN "failWrite" ELSE "idle")
    /\ UNCHANGED <<asked, storeVars>>

\* POST mark-processing: markPaymentProcessing, up to its update.
ProcessRead(o) ==
    /\ Advance(o, "processRead",
               IF ~Pending(OnBooking(o)) THEN "idle"
               ELSE IF booking[OnBooking(o)].payment = "SUCCESS" THEN "emit"
               ELSE "processWrite")
    /\ UNCHANGED <<asked, storeVars>>

\* The payment status is written whatever the status is by now; a booking that
\* is no longer pending makes the call fail after the write.
ProcessWrite(o) ==
    LET b == OnBooking(o)
    IN  /\ Advance(o, "processWrite", IF Pending(b) THEN "emit" ELSE "idle")
        /\ UpdateBooking(b, booking[b].status, "PROCESSING")
        /\ UNCHANGED <<asked, locks, stranded>>

\* POST emit-booking-created: publishes without looking at the status.
EmitBookingCreated(o) ==
    /\ Advance(o, "emit", "idle")
    /\ asked' = asked \cup {OnBooking(o)}
    /\ UNCHANGED storeVars

\* The call fails, and the booking is marked failed.
EmitFails(o) ==
    /\ Advance(o, "emit", "failRead")
    /\ UNCHANGED <<asked, storeVars>>

-----------------------------------------------------------------------------
\* The process dies, or an awaited call throws: the rest is not done.  A failing
\* DEL is ignored by releaseRoomLock, with the same effect.
OpDies(o) ==
    /\ op[o].pc # "idle"
    /\ op' = [op EXCEPT ![o] = IdleOp]
    /\ IF op[o].pc = "release" THEN Strand(OnBooking(o)) ELSE UNCHANGED stranded
    /\ UNCHANGED <<asked, locks, booking>>

OpStep(o) ==
    \/ CancelWrite(o) \/ SuccessWrite(o) \/ FailRead(o) \/ FailWrite(o)
    \/ ProcessRead(o) \/ ProcessWrite(o) \/ EmitBookingCreated(o)
    \/ ReleaseRoomLock(o)
=============================================================================
