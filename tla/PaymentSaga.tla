----------------------------- MODULE PaymentSaga -----------------------------
(***************************************************************************)
(* The payment of a booking across the services: the proceed call of the   *)
(* wallet service asks the booking service over HTTP, which publishes      *)
(* BOOKING_CREATED; the payment worker, which is WalletService's with all  *)
(* its steps and failures, charges the guest and publishes the outcome;    *)
(* the booking service and the notification service consume it.            *)
(* Nothing is atomic across services and there is no compensation in the   *)
(* booking service: what each ends up with must agree by the order of      *)
(* these steps.                                                            *)
(***************************************************************************)
EXTENDS WalletService, EventBus

CONSTANTS
    Calls,          \* proceed calls
    Sums,           \* bound: balances that a guest's other business can leave behind
    MaxHeld,        \* bound: handlers of one outcome at a time
    MaxHitches,     \* bound: lost, repeated or unheard messages and requests, and their deaths
    MaxTroubles,    \* bound: hitches, faults, crashes and stalls together
    Pausing,        \* bound: points at which an activation lets others step in; the code's are Points
    Prompt          \* bound: TRUE: notifications are made before anything else happens

ASSUME SagaAssumption ==
    /\ Sums \subseteq Nat
    /\ {MaxHeld, MaxHitches, MaxTroubles} \subseteq Nat
    /\ Pausing \subseteq Points /\ Prompt \in BOOLEAN

VARIABLES
    booking, held, leaving, asked, dropped,     \* see SagaBooking
    call,       \* [Calls -> [pc, booking]], proceedBookingPayment
    notices,    \* payment events with a notification
    forgotten,  \* history: bookings whose job has expired
    hitches

BookingService == INSTANCE SagaBooking

bookingVars == <<booking, held, leaving, asked, dropped>>

\* All but the wallet service's worker, the bus and the booking service.
restVars == <<call, notices, forgotten, hitches>>

sagaVars == <<vars, busVars, bookingVars, restVars>>

NewCall == [pc |-> "new", booking |-> NoBooking]

CallPoints == {"wallet", "processing", "processingWrite", "emit", "fail", "failWrite", "done"}

SagaInit ==
    /\ Init /\ BusInit
    /\ BookingService!BookingInit
    /\ call = [c \in Calls |-> NewCall]
    /\ notices = {} /\ forgotten = {} /\ hitches = 0

Hitch == hitches < MaxHitches /\ hitches' = hitches + 1

-----------------------------------------------------------------------------
(***************************************************************************)
(* The guest.                                                              *)
(***************************************************************************)
\* Top-ups, the payments of other bookings, and saves that write over what was read.
Elsewhere(b) ==
    /\ \E n \in Sums : balance' = [balance EXCEPT ![Guest[b]] = n]
    /\ UNCHANGED <<transactions, processorVars, topUpVars, busVars, bookingVars, restVars>>

GuestCancels(b) ==
    /\ BookingService!ReadForCancel(b) \/ BookingService!Cancel(b)
    /\ UNCHANGED <<vars, busVars, restVars>>

CallAt(c, pc) == call[c].pc = pc

OnBooking(c) == call[c].booking

GoOn(c, pc) == call' = [call EXCEPT ![c].pc = pc]

\* GET /internal/bookings/:id shows a pending booking; any other answer ends the call.
GuestProceeds(c, b) ==
    /\ CallAt(c, "new")
    /\ BookingService!Pending(b)
    /\ call' = [call EXCEPT ![c] = [pc |-> "wallet", booking |-> b]]
    /\ UNCHANGED <<vars, busVars, bookingVars, notices, forgotten, hitches>>

-----------------------------------------------------------------------------
(***************************************************************************)
(* proceedBookingPayment and its requests to the booking service.          *)
(***************************************************************************)
\* findOrCreateWallet, and the balance on the copy.
ReadBalance(c) ==
    /\ CallAt(c, "wallet")
    /\ GoOn(c, IF Enough(Guest[OnBooking(c)], Amount[OnBooking(c)]) THEN "processing" ELSE "fail")
    /\ UNCHANGED <<vars, busVars, bookingVars, notices, forgotten, hitches>>

\* The first half of markPaymentProcessing, which answers 400, and of
\* markPaymentFailedBySystem, which does nothing, for a booking that is no longer pending.
ReadPending(c) ==
    /\ \/ CallAt(c, "processing")
          /\ GoOn(c, IF BookingService!Pending(OnBooking(c)) THEN "processingWrite" ELSE "done")
       \/ CallAt(c, "fail")
          /\ GoOn(c, IF BookingService!Pending(OnBooking(c)) THEN "failWrite" ELSE "done")
    /\ UNCHANGED <<vars, busVars, bookingVars, notices, forgotten, hitches>>

\* The second half; 400 when the updated booking turns out not to be pending.
MarkProcessing(c) ==
    /\ CallAt(c, "processingWrite")
    /\ BookingService!MarkProcessing(OnBooking(c))
    /\ GoOn(c, IF BookingService!Pending(OnBooking(c)) THEN "emit" ELSE "done")
    /\ UNCHANGED <<vars, busVars, notices, forgotten, hitches>>

MarkFailed(c) ==
    /\ CallAt(c, "failWrite")
    /\ BookingService!MarkFailed(OnBooking(c))
    /\ GoOn(c, "done")
    /\ UNCHANGED <<vars, busVars, notices, forgotten, hitches>>

Ask(c) ==
    /\ CallAt(c, "emit")
    /\ PublishEvent(Created(OnBooking(c)))
    /\ BookingService!AskForPayment(OnBooking(c))
    /\ UNCHANGED <<vars, lost, notices, forgotten>>

EmitBookingCreated(c) == Ask(c) /\ GoOn(c, "done") /\ UNCHANGED hitches

\* bookingServiceRequest: the connection breaks after the POST was served, and the
\* next base URL gets it too.
AskRepeated(c) == Hitch /\ Ask(c) /\ UNCHANGED call

MarkProcessingRepeated(c) ==
    /\ Hitch
    /\ CallAt(c, "processingWrite")
    /\ BookingService!MarkProcessing(OnBooking(c))
    /\ GoOn(c, "processing")
    /\ UNCHANGED <<vars, busVars, notices, forgotten>>

\* No base URL answers; the event is published or not.
AskUnanswered(c) ==
    /\ Hitch
    /\ CallAt(c, "emit")
    /\ Ask(c) \/ UNCHANGED <<vars, busVars, bookingVars, notices, forgotten>>
    /\ GoOn(c, "fail")

\* The process dies, or a request ends in an error.
CallDies(c) ==
    /\ Hitch
    /\ ~CallAt(c, "new") /\ ~CallAt(c, "done") /\ GoOn(c, "done")
    /\ UNCHANGED <<vars, busVars, bookingVars, notices, forgotten>>

-----------------------------------------------------------------------------
(***************************************************************************)
(* The consumers.                                                          *)
(***************************************************************************)
\* enqueuePaymentJob; an id that is in the queue or retained is not added.
Enqueue(b) ==
    IF job[b].state = "none" THEN EnqueuePaymentJob(b) /\ UNCHANGED topUpVars ELSE UNCHANGED vars

\* The handlers of one await: paymentQueue.add, and handlePaymentEvent of the
\* notification service, which makes another notification with the same text when it
\* gets an event again.
Consume(e) ==
    IF e.type = "BOOKING_CREATED"
    THEN Enqueue(e.booking) /\ UNCHANGED notices
    ELSE notices' = notices \cup {e} /\ UNCHANGED vars

Deliver(q, e) ==
    /\ q # "booking"
    /\ Take(q, e) /\ Consume(e)
    /\ UNCHANGED <<lost, bookingVars, call, forgotten, hitches>>

\* The consumer dies between the handler's write and the ack.
Redeliver(q, e) ==
    /\ Hitch
    /\ q # "booking" /\ e \in queue[q]
    /\ Consume(e)
    /\ UNCHANGED <<busVars, bookingVars, call, forgotten>>

HandlerThrows(q, e) ==
    /\ Hitch
    /\ Take(q, e) /\ Nack(e)
    /\ UNCHANGED <<vars, bookingVars, call, notices, forgotten>>

\* handlePaymentEvent of the booking service, up to its update or its return.
ReadForOutcome(e) ==
    /\ Take("booking", e)
    /\ BookingService!ReadForOutcome(e)
    /\ UNCHANGED <<vars, lost, restVars>>

WriteOutcome(e) ==
    /\ BookingService!WriteOutcome(e)
    /\ UNCHANGED <<vars, busVars, restVars>>

\* The consumer dies on either side of the update, before its ack.
OutcomeRedelivered(e) ==
    /\ Hitch
    /\ BookingService!WriteOutcome(e) \/ BookingService!GiveUpOutcome(e)
    /\ Requeue("booking", e)
    /\ UNCHANGED <<vars, lost, call, notices, forgotten>>

\* The update throws, or the release of the room lock behind it.
OutcomeThrows(e) ==
    /\ Hitch
    /\ BookingService!GiveUpOutcome(e) \/ BookingService!WriteOutcome(e)
    /\ Nack(e)
    /\ UNCHANGED <<vars, queue, call, notices, forgotten>>

-----------------------------------------------------------------------------
(***************************************************************************)
(* The payment worker.                                                     *)
(***************************************************************************)
Reporting == {"emitSuccess", "emitRefunded", "emitInsufficient"}

\* The event that an activation publishes from where it is.
Report(w) ==
    LET b == act[w].booking
    IN  CASE At(w, "emitSuccess") -> Success(b)
          [] At(w, "emitRefunded") -> Failed(b, "CREDIT_FAILED_REFUNDED")
          [] OTHER -> Failed(b, "INSUFFICIENT_BALANCE")

Works(w) ==
    /\ Handle(w)
    /\ IF act[w].pc \in Reporting THEN PublishEvent(Report(w)) ELSE UNCHANGED queue
    /\ UNCHANGED <<lost, bookingVars, restVars>>

Breaks(w) == Disturb(w) /\ UNCHANGED <<busVars, bookingVars, restVars>>

TakesJob(w, b) == TakeJob(w, b) /\ UNCHANGED <<busVars, bookingVars, restVars>>

JobStalls(b) == LockExpires(b) /\ UNCHANGED <<topUpVars, busVars, bookingVars, restVars>>

JobExpires(b) ==
    /\ ExpireJob(b)
    /\ forgotten' = forgotten \cup {b}
    /\ UNCHANGED <<topUpVars, busVars, bookingVars, call, notices, hitches>>

\* None but these activations is between two points of the bound, and no notification
\* is due before the next step.
Free(ws) ==
    /\ \A w \in Workers \ ws : act[w].pc \in Pausing \cup {"idle"}
    /\ Prompt => queue["notification"] = {}

-----------------------------------------------------------------------------
TheGuest ==
    \E b \in Bookings : Elsewhere(b) \/ GuestCancels(b) \/ \E c \in Calls : GuestProceeds(c, b)

TheCall ==
    \E c \in Calls :
        \/ ReadBalance(c) \/ ReadPending(c) \/ MarkProcessing(c) \/ MarkFailed(c) \/ EmitBookingCreated(c)
        \/ AskRepeated(c) \/ MarkProcessingRepeated(c) \/ AskUnanswered(c) \/ CallDies(c)

Messages == Events \cup {Created(b) : b \in Bookings}

TheQueues(qs) ==
    \E q \in qs, e \in Messages : Deliver(q, e) \/ Redeliver(q, e) \/ HandlerThrows(q, e)

TheOutcomes ==
    \E e \in Events : ReadForOutcome(e) \/ WriteOutcome(e) \/ OutcomeRedelivered(e) \/ OutcomeThrows(e)

TheQueue ==
    \E b \in Bookings : JobStalls(b) \/ JobExpires(b) \/ \E w \in Workers : TakesJob(w, b)

Troubles == hitches + spent.faults + spent.crashes + spent.stalls

SagaNext ==
    /\ \/ TheQueues({"notification"})
       \/ Free({}) /\ (TheGuest \/ TheCall \/ TheQueues({"wallet", "booking"}) \/ TheOutcomes \/ TheQueue)
       \/ \E w \in Workers : Free({w}) /\ (Works(w) \/ Breaks(w))
    /\ Troubles' <= MaxTroubles

SagaSpec == SagaInit /\ [][SagaNext]_sagaVars

-----------------------------------------------------------------------------
(***************************************************************************)
(* Safety.                                                                 *)
(***************************************************************************)
\* Every variable of the saga has its type; no consumer is handed a message that it does
\* not know (consumeEvents binds a queue to its routing keys; the handlers parse by type).
SagaTypeOK ==
    /\ TypeOK
    /\ queue \in [Queues -> SUBSET Messages]
    /\ queue["wallet"] \cap Events = {}
    /\ queue["booking"] \cup queue["notification"] \subseteq Events
    /\ booking \in [Bookings -> BookingService!BookingStates]
    /\ held \in [Events -> Nat]
    /\ leaving \in [Bookings -> BookingService!PaymentStates \cup {"none"}]
    /\ call \in [Calls -> {NewCall} \cup [pc : CallPoints, booking : Bookings]]
    /\ asked \cup dropped \cup lost \cup forgotten \subseteq Bookings
    /\ notices \subseteq Events
    /\ hitches \in Nat

PaidFor(b) == Recorded("DEBIT", b) /\ Recorded("CREDIT", b)

\* A confirmed booking has been charged and its owner paid, whatever is lost, repeated,
\* overtaken or dies between the ledger and the booking; and the charge was not refunded,
\* unless a lock expired under a live activation: then one can report PAYMENT_SUCCESS and
\* another of the same job refund (handleBookingCreated; handlePaymentEvent).
ConfirmedIsPaid ==
    \A b \in Bookings :
        BookingService!StatusIs(b, "CONFIRMED") =>
            PaidFor(b) /\ (spent.stalls = 0 => ~Recorded("REFUND", b))

\* The job of a booking was run again after it had reported, or may have been: it expired, or
\* an activation died or lost its lock before the job was completed.
MayRerun(b) == b \in forgotten \/ spent.crashes + spent.stalls > 0

\* A booking whose payment was asked for and that ends FAILED has no charge that was not
\* refunded.  There are two ways round that, and no third: a proceed call or a cancellation
\* ended the booking by itself while its payment ran, and PAYMENT_FAILED(INSUFFICIENT_BALANCE)
\* was out when the job ran again and found the money (payment-processor.service.js:186-189).
FailedIsUnpaid ==
    \A b \in asked \ dropped :
        BookingService!StatusIs(b, "FAILED") /\ Recorded("DEBIT", b) =>
            \/ Recorded("REFUND", b)
            \/ Failed(b, "INSUFFICIENT_BALANCE") \in events /\ MayRerun(b)

\* Guests are told the truth: nobody is told that a booking is confirmed unless it was
\* charged and its owner paid, and nobody is told the opposite too, unless a lock expired
\* under a live activation, or the job ran again after refusing.
NoticesAreTrue ==
    \A b \in Bookings :
        Success(b) \in notices =>
            /\ PaidFor(b)
            /\ Failed(b, "CREDIT_FAILED_REFUNDED") \in notices => spent.stalls > 0
            /\ Failed(b, "INSUFFICIENT_BALANCE") \in notices => MayRerun(b)

\* Nothing about a booking is under way.
Quiet(b) ==
    /\ job[b].state \in {"none", "completed", "failed"}
    /\ \A e \in Messages : e.booking = b =>
          (\A q \in Queues : e \notin queue[q]) /\ (e \in Events => held[e] = 0)

\* The services contradict each other: the job ran again after it had refused.
Contradicted(b) ==
    /\ BookingService!StatusIs(b, "FAILED") /\ PaidFor(b) /\ MayRerun(b)
    /\ {Success(b), Failed(b, "INSUFFICIENT_BALANCE")} \subseteq notices

\* When nothing about a booking is under way, the services agree and the guest has been told:
\* it is confirmed, or was and has been cancelled, and the charge is kept; or it has failed
\* and the charge, if any, was refunded.  That takes that no message is lost (nack
\* without requeue), that the booking was not ended by other means while its payment ran
\* (nothing compensates), that the job has not used up its attempts or stalls, and
\* that locks hold; and it leaves the contradiction of FailedIsUnpaid.
SettledTogether ==
    WithinLimits /\ spent.stalls = 0 =>
        \A b \in asked \ (lost \cup dropped) :
            Quiet(b) =>
                \/ /\ booking[b].status \in {"CONFIRMED", "CANCELLED"}
                   /\ PaidFor(b) /\ ~Recorded("REFUND", b)
                   /\ Success(b) \in notices
                \/ /\ BookingService!StatusIs(b, "FAILED")
                   /\ Recorded("DEBIT", b) => Recorded("REFUND", b)
                   /\ \E e \in notices : e.booking = b /\ e.type = "PAYMENT_FAILED"
                \/ Contradicted(b)

\* A payment that was asked for and whose booking is still pending has a message, a job or
\* an outcome ahead of it, whatever overlaps and dies, until a message is lost or the
\* limits of the job are used up: then the booking stays PROCESSING for good, as
\* nothing else looks for it.
NoPaymentIsStranded ==
    WithinLimits =>
        \A b \in asked \ lost :
            BookingService!Pending(b) =>
                \/ Created(b) \in queue["wallet"]
                \/ job[b].state \in {"waiting", "active"}
                \/ \E e \in Events : e.booking = b /\ (e \in queue["booking"] \/ held[e] > 0)
=============================================================================
