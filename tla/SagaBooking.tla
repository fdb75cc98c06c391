----------------------------- MODULE SagaBooking -----------------------------
(***************************************************************************)
(* The booking service in the payment saga: the operations on one booking  *)
(* that take part (booking.service.js).  Each reads the booking, decides,  *)
(* and updates it by its id without looking again, so the read and the     *)
(* update are steps of their own, and what was read may be stale.          *)
(***************************************************************************)
EXTENDS Naturals

CONSTANTS
    Bookings,
    Events,     \* the outcomes of payments
    MaxHeld     \* bound: handlers of one outcome at a time

VARIABLES
    booking,    \* [Bookings -> [status, payment]]
    held,       \* [Events -> Nat]: handlers of an outcome that have read their booking pending
    leaving,    \* [Bookings -> the payment column read by the cancellation under way, or "none"]
    asked,      \* history: bookings with a BOOKING_CREATED
    dropped     \* history: bookings that a cancellation or a proceed call ended without a
                \* payment event, whose BOOKING_CREATED is out all the same

bookingVars == <<booking, held, leaving, asked, dropped>>

PaymentStates == {"PENDING", "PROCESSING", "SUCCESS", "FAILED", "REFUNDED"}

BookingStates ==
    [status : {"PENDING_PAYMENT", "CONFIRMED", "FAILED", "CANCELLED"}, payment : PaymentStates]

BookingInit ==
    /\ booking = [b \in Bookings |-> [status |-> "PENDING_PAYMENT", payment |-> "PENDING"]]
    /\ held = [e \in Events |-> 0]
    /\ leaving = [b \in Bookings |-> "none"]
    /\ asked = {} /\ dropped = {}

StatusIs(b, status) == booking[b].status = status

Pending(b) == StatusIs(b, "PENDING_PAYMENT")

Update(b, status, payment) == booking' = [booking EXCEPT ![b] = [status |-> status, payment |-> payment]]

\* The booking is ended here, while its payment may be under way.
EndUnpaid(b) == dropped' = IF b \in asked THEN dropped \cup {b} ELSE dropped

-----------------------------------------------------------------------------
(***************************************************************************)
(* cancelBookingForUser: the payment column goes by what was read.         *)
(***************************************************************************)
ReadForCancel(b) ==
    /\ leaving[b] = "none"
    /\ Pending(b) \/ StatusIs(b, "CONFIRMED")
    /\ leaving' = [leaving EXCEPT ![b] = booking[b].payment]
    /\ UNCHANGED <<booking, held, asked, dropped>>

Cancel(b) ==
    /\ leaving[b] # "none"
    /\ IF leaving[b] = "SUCCESS"
       THEN Update(b, "CANCELLED", "REFUNDED") /\ UNCHANGED dropped
       ELSE Update(b, "CANCELLED", leaving[b]) /\ EndUnpaid(b)
    /\ leaving' = [leaving EXCEPT ![b] = "none"]
    /\ UNCHANGED <<held, asked>>

(***************************************************************************)
(* The requests of a proceed call, behind their reads.                     *)
(***************************************************************************)
\* markPaymentProcessing updates the payment column alone.
MarkProcessing(b) ==
    /\ booking' = [booking EXCEPT ![b].payment = "PROCESSING"]
    /\ UNCHANGED <<held, leaving, asked, dropped>>

\* markPaymentFailedBySystem, for POST mark-failed.
MarkFailed(b) ==
    /\ Update(b, "FAILED", "FAILED")
    /\ EndUnpaid(b)
    /\ UNCHANGED <<held, leaving, asked>>

\* publishBookingCreatedEventForPayment does not look at the status.
AskForPayment(b) ==
    /\ asked' = asked \cup {b}
    /\ dropped' = IF StatusIs(b, "CANCELLED") \/ StatusIs(b, "FAILED") THEN dropped \cup {b} ELSE dropped
    /\ UNCHANGED <<booking, held, leaving>>

(***************************************************************************)
(* handlePaymentEvent.                                                     *)
(***************************************************************************)
\* Only a pending booking is followed up.
ReadForOutcome(e) ==
    /\ held[e] < MaxHeld
    /\ held' = IF Pending(e.booking) THEN [held EXCEPT ![e] = @ + 1] ELSE held
    /\ UNCHANGED <<booking, leaving, asked, dropped>>

\* A handler that has read its booking is done, one way or another.
LetGo(e) == held[e] > 0 /\ held' = [held EXCEPT ![e] = @ - 1]

\* Mutant of WriteOutcome: the type of the event is not looked at.
ConfirmAlways(e) ==
    /\ LetGo(e)
    /\ Update(e.booking, "CONFIRMED", "SUCCESS")
    /\ UNCHANGED <<leaving, asked, dropped>>

WriteOutcome(e) ==
    /\ LetGo(e)
    /\ IF e.type = "PAYMENT_SUCCESS"
       THEN Update(e.booking, "CONFIRMED", "SUCCESS")
       ELSE Update(e.booking, "FAILED", "FAILED")
    /\ UNCHANGED <<leaving, asked, dropped>>

GiveUpOutcome(e) == LetGo(e) /\ UNCHANGED <<booking, leaving, asked, dropped>>
=============================================================================
