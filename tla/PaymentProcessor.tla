-------------------------- MODULE PaymentProcessor --------------------------
(***************************************************************************)
(* The payment worker of the wallet service: the BullMQ queue              *)
(* `wallet-payment-processing` (wallet-service/src/index.js) and the       *)
(* handler handleBookingCreated (payment-processor.service.js) that its    *)
(* worker runs.  A job is one BOOKING_CREATED event, keyed by the          *)
(* booking's idempotency key; an activation is one run of the handler.     *)
(* Every await of the handler is a step of its own.                        *)
(***************************************************************************)
EXTENDS WalletStore, FiniteSets

CONSTANTS
    Bookings,           \* bookings whose payment may be asked for
    Guest,              \* [Bookings -> Users]: event.userId
    Owner,              \* [Bookings -> Users]: event.ownerId
    Amount,             \* [Bookings -> Nat \ {0}]: event.amount, z.number().positive()
    Workers,            \* handler activations that can run at the same time
    NoWorker,           \* no live holder of a job's lock
    NoBooking,          \* an idle activation's booking
    MaxAttempts,        \* attempts: 5 in enqueuePaymentJob
    MaxStalledCount,    \* BullMQ's default of 1
    MaxFaults,          \* bound: failing database or broker calls
    MaxCrashes,         \* bound: activations that die
    MaxStalls           \* bound: locks that expire under a live activation

ASSUME PaymentAssumption ==
    /\ Guest \in [Bookings -> Users]
    /\ Owner \in [Bookings -> Users]
    /\ Amount \in [Bookings -> Nat \ {0}]
    /\ NoWorker \notin Workers
    /\ NoBooking \notin Bookings
    /\ MaxAttempts \in Nat \ {0}
    /\ {MaxStalledCount, MaxFaults, MaxCrashes, MaxStalls} \subseteq Nat

VARIABLES
    job,        \* [Bookings -> Job]: the queue, by jobId
    act,        \* [Workers -> Activation]: control point and locals of a handler run
    events,     \* PAYMENT_SUCCESS and PAYMENT_FAILED events published so far
    moved,      \* history: how often each booking moved money, by movement
    spent       \* faults, crashes and stalls used up

processorVars == <<job, act, events, moved, spent>>

Stages == {"DEBIT", "CREDIT", "REFUND"}

JobStates == {"none", "waiting", "active", "completed", "failed"}

Points == {"idle", "reading", "debit", "recordDebit", "readOwner", "creditOwner",
           "recordCredit", "findRefund", "readGuest", "refundGuest", "recordRefund",
           "emitSuccess", "emitRefunded", "emitInsufficient", "return"}

NoJob == [state |-> "none", holder |-> NoWorker, attempts |-> 0, stalls |-> 0]

Idle == [pc |-> "idle", booking |-> NoBooking, unread |-> {}, prior |-> {}, copy |-> 0]

Success(b) == [type |-> "PAYMENT_SUCCESS", booking |-> b, reason |-> "none"]
Failed(b, reason) == [type |-> "PAYMENT_FAILED", booking |-> b, reason |-> reason]

ProcessorInit ==
    /\ job = [b \in Bookings |-> NoJob]
    /\ act = [w \in Workers |-> Idle]
    /\ events = {}
    /\ moved = [b \in Bookings |-> [s \in Stages |-> 0]]
    /\ spent = [faults |-> 0, crashes |-> 0, stalls |-> 0]

-----------------------------------------------------------------------------
(***************************************************************************)
(* The queue.                                                              *)
(***************************************************************************)

\* enqueuePaymentJob on a BOOKING_CREATED message.  paymentQueue.add ignores a
\* jobId that is still in the queue or retained, so a second delivery of the
\* event does nothing unless the job has expired.
EnqueuePaymentJob(b) ==
    /\ job[b].state = "none"
    /\ job' = [job EXCEPT ![b] = [NoJob EXCEPT !.state = "waiting"]]
    /\ UNCHANGED <<act, events, moved, spent, storeVars>>

\* removeOnComplete {age: 3600} and removeOnFail {age: 86400}: the jobId is free again.
ExpireJob(b) ==
    /\ job[b].state \in {"completed", "failed"}
    /\ job' = [job EXCEPT ![b] = NoJob]
    /\ UNCHANGED <<act, events, moved, spent, storeVars>>

\* The worker takes a waiting job and its lock and calls the handler, which
\* issues its three queries at once (Promise.all).
PickJob(w, b) ==
    /\ act[w].pc = "idle"
    /\ job[b].state = "waiting"
    /\ job' = [job EXCEPT ![b] = [job[b] EXCEPT !.state = "active", !.holder = w]]
    /\ act' = [act EXCEPT ![w] = [Idle EXCEPT !.pc = "reading",
                                              !.booking = b,
                                              !.unread = Stages]]
    /\ UNCHANGED <<events, moved, spent, storeVars>>

\* The lock of an active job is gone when the stalled check runs: the job goes
\* back to wait, or fails once it has stalled more than MaxStalledCount times.
\* Behind a dead holder this always happens in the end; under a live one
\* (an event loop blocked for longer than the lock) it is a stall, and the
\* first activation goes on.
LockExpires(b) ==
    /\ job[b].state = "active"
    /\ IF job[b].holder = NoWorker
       THEN UNCHANGED spent
       ELSE /\ spent.stalls < MaxStalls
            /\ spent' = [spent EXCEPT !.stalls = @ + 1]
    /\ job' = [job EXCEPT ![b] =
                [job[b] EXCEPT !.state = IF job[b].stalls < MaxStalledCount
                                         THEN "waiting" ELSE "failed",
                               !.holder = NoWorker,
                               !.stalls = job[b].stalls + 1]]
    /\ UNCHANGED <<act, events, moved, storeVars>>

\* The process running the activation dies; its lock is no longer renewed.
Crash(w) ==
    /\ act[w].pc # "idle"
    /\ spent.crashes < MaxCrashes
    /\ spent' = [spent EXCEPT !.crashes = @ + 1]
    /\ act' = [act EXCEPT ![w] = Idle]
    /\ job' = [b \in Bookings |-> IF job[b].holder = w
                                  THEN [job[b] EXCEPT !.holder = NoWorker]
                                  ELSE job[b]]
    /\ UNCHANGED <<events, moved, storeVars>>

\* Mutant of Settle: the last attempt is never made.
SettleOneAttemptShort(w, outcome) ==
    LET b == act[w].booking
        after == IF outcome = "resolved" THEN "completed"
                 ELSE IF job[b].attempts + 2 < MaxAttempts THEN "waiting"
                 ELSE "failed"
    IN  /\ act' = [act EXCEPT ![w] = Idle]
        /\ job' = IF job[b].holder = w
                  THEN [job EXCEPT ![b] = [job[b] EXCEPT
                            !.state = after,
                            !.holder = NoWorker,
                            !.attempts = job[b].attempts + 1]]
                  ELSE job

\* The handler's promise settles.  BullMQ moves the job only for the activation
\* that still holds its lock; an error costs an attempt, and the last attempt
\* leaves the job failed with nobody listening.
Settle(w, outcome) ==
    LET b == act[w].booking
        after == IF outcome = "resolved" THEN "completed"
                 ELSE IF job[b].attempts + 1 < MaxAttempts THEN "waiting"
                 ELSE "failed"
    IN  /\ act' = [act EXCEPT ![w] = Idle]
        /\ job' = IF job[b].holder = w
                  THEN [job EXCEPT ![b] = [job[b] EXCEPT
                            !.state = after,
                            !.holder = NoWorker,
                            !.attempts = job[b].attempts + 1]]
                  ELSE job

-----------------------------------------------------------------------------
(***************************************************************************)
(* handleBookingCreated.                                                   *)
(***************************************************************************)
At(w, point) == act[w].pc = point

Goto(w, point) == act' = [act EXCEPT ![w].pc = point]

\* The branch taken once the debit is known to be recorded.
AfterDebit(prior) == IF "CREDIT" \in prior THEN "emitSuccess" ELSE "readOwner"

\* Mutants of AfterRead: the early exit for a settled booking, or for a refunded one, is
\* missing; the debit is taken for granted.
AfterReadIgnoresPrior(prior) == IF "REFUND" \in prior THEN "emitRefunded" ELSE "debit"

AfterReadIgnoresRefund(prior) == IF "DEBIT" \in prior THEN AfterDebit(prior) ELSE "debit"

AfterReadSkipsDebit(prior) ==
    IF "REFUND" \in prior THEN "emitRefunded" ELSE AfterDebit(prior)

\* The branches taken on what getPaymentState found.
AfterRead(prior) ==
    IF "REFUND" \in prior THEN "emitRefunded"
    ELSE IF "DEBIT" \in prior THEN AfterDebit(prior)
    ELSE "debit"

\* One of the three queries of getPaymentState answers; the others may answer
\* before or after other activations write.
ReadPrior(w, s) ==
    /\ At(w, "reading")
    /\ s \in act[w].unread
    /\ LET b == act[w].booking
           prior == act[w].prior \cup (IF Recorded(s, b) THEN {s} ELSE {})
           left == act[w].unread \ {s}
       IN  act' = [act EXCEPT ![w] =
                    [act[w] EXCEPT !.unread = left,
                                   !.prior = prior,
                                   !.pc = IF left = {} THEN AfterRead(prior) ELSE "reading"]]
    /\ UNCHANGED <<job, events, moved, spent, storeVars>>

\* debitWalletIfEnough, and the InsufficientBalanceError when it matches nothing.
GuestDebit(w) ==
    LET b == act[w].booking
    IN  /\ At(w, "debit")
        /\ IF Enough(Guest[b], Amount[b])
           THEN /\ DebitWallet(Guest[b], Amount[b])
                /\ moved' = [moved EXCEPT ![b]["DEBIT"] = @ + 1]
                /\ Goto(w, "recordDebit")
           ELSE /\ Goto(w, "emitInsufficient")
                /\ UNCHANGED <<balance, moved>>
        /\ UNCHANGED <<job, events, spent, transactions>>

\* createTransaction DEBIT; a duplicate key falls back to the document that is there.
RecordDebit(w) ==
    LET b == act[w].booking
    IN  /\ At(w, "recordDebit")
        /\ CreateTransaction("DEBIT", b, Guest[b], Amount[b])
        /\ Goto(w, AfterDebit(act[w].prior))
        /\ UNCHANGED <<job, events, moved, spent, balance>>

\* creditWallet(owner), first half: findOrCreateWallet returns a document.
ReadOwner(w) ==
    /\ At(w, "readOwner")
    /\ act' = [act EXCEPT ![w].pc = "creditOwner",
                          ![w].copy = balance[Owner[act[w].booking]]]
    /\ UNCHANGED <<job, events, moved, spent, storeVars>>

\* Mutant of CreditOwner: the wallet that was read is the owner's, the one saved
\* is event.userId's.
CreditOwnerToGuest(w) ==
    LET b == act[w].booking
    IN  /\ At(w, "creditOwner")
        /\ SaveWallet(Guest[b], act[w].copy, Amount[b])
        /\ moved' = [moved EXCEPT ![b]["CREDIT"] = @ + 1]
        /\ act' = [act EXCEPT ![w].pc = "recordCredit", ![w].copy = 0]
        /\ UNCHANGED <<job, events, spent, transactions>>

\* creditWallet(owner), second half: balance += amount; save().
CreditOwner(w) ==
    LET b == act[w].booking
    IN  /\ At(w, "creditOwner")
        /\ SaveWallet(Owner[b], act[w].copy, Amount[b])
        /\ moved' = [moved EXCEPT ![b]["CREDIT"] = @ + 1]
        /\ act' = [act EXCEPT ![w].pc = "recordCredit", ![w].copy = 0]
        /\ UNCHANGED <<job, events, spent, transactions>>

\* Mutant of RecordCredit: the handler returns without publishing.
RecordCreditSilently(w) ==
    LET b == act[w].booking
    IN  /\ At(w, "recordCredit")
        /\ CreateTransaction("CREDIT", b, Owner[b], Amount[b])
        /\ Goto(w, "return")
        /\ UNCHANGED <<job, events, moved, spent, balance>>

\* createTransaction CREDIT, with the same fallback on a duplicate key.
RecordCredit(w) ==
    LET b == act[w].booking
    IN  /\ At(w, "recordCredit")
        /\ CreateTransaction("CREDIT", b, Owner[b], Amount[b])
        /\ Goto(w, "emitSuccess")
        /\ UNCHANGED <<job, events, moved, spent, balance>>

\* ensureGuestRefund, reached from the catch of the credit stage.
FindRefund(w) ==
    /\ At(w, "findRefund")
    /\ Goto(w, IF Recorded("REFUND", act[w].booking) THEN "emitRefunded" ELSE "readGuest")
    /\ UNCHANGED <<job, events, moved, spent, storeVars>>

ReadGuest(w) ==
    /\ At(w, "readGuest")
    /\ act' = [act EXCEPT ![w].pc = "refundGuest",
                          ![w].copy = balance[Guest[act[w].booking]]]
    /\ UNCHANGED <<job, events, moved, spent, storeVars>>

RefundGuest(w) ==
    LET b == act[w].booking
    IN  /\ At(w, "refundGuest")
        /\ SaveWallet(Guest[b], act[w].copy, Amount[b])
        /\ moved' = [moved EXCEPT ![b]["REFUND"] = @ + 1]
        /\ act' = [act EXCEPT ![w].pc = "recordRefund", ![w].copy = 0]
        /\ UNCHANGED <<job, events, spent, transactions>>

RecordRefund(w) ==
    LET b == act[w].booking
    IN  /\ At(w, "recordRefund")
        /\ CreateTransaction("REFUND", b, Guest[b], Amount[b])
        /\ Goto(w, "emitRefunded")
        /\ UNCHANGED <<job, events, moved, spent, balance>>

\* emitPaymentSuccess and emitPaymentFailed.
Emit(w) ==
    LET b == act[w].booking
    IN  /\ \/ /\ At(w, "emitSuccess")
              /\ events' = events \cup {Success(b)}
           \/ /\ At(w, "emitRefunded")
              /\ events' = events \cup {Failed(b, "CREDIT_FAILED_REFUNDED")}
           \/ /\ At(w, "emitInsufficient")
              /\ events' = events \cup {Failed(b, "INSUFFICIENT_BALANCE")}
        /\ Goto(w, "return")
        /\ UNCHANGED <<job, moved, spent, storeVars>>

Return(w) ==
    /\ At(w, "return")
    /\ Settle(w, "resolved")
    /\ UNCHANGED <<events, moved, spent, storeVars>>

-----------------------------------------------------------------------------
(***************************************************************************)
(* A call the handler awaits fails (database unreachable, timeout, channel *)
(* closed).  In the credit stage the error is caught and the debit is      *)
(* compensated; anywhere else it leaves the handler and costs an attempt.  *)
(***************************************************************************)
CreditStage == {"readOwner", "creditOwner", "recordCredit"}

Spend == /\ spent.faults < MaxFaults
         /\ spent' = [spent EXCEPT !.faults = @ + 1]

\* Mutant of CreditFails: the failure is reported without compensating.
CreditFailsUncompensated(w) ==
    /\ act[w].pc \in CreditStage
    /\ Spend
    /\ act' = [act EXCEPT ![w].pc = "emitRefunded", ![w].copy = 0]
    /\ UNCHANGED <<job, events, moved, storeVars>>

CreditFails(w) ==
    /\ act[w].pc \in CreditStage
    /\ Spend
    /\ act' = [act EXCEPT ![w].pc = "findRefund", ![w].copy = 0]
    /\ UNCHANGED <<job, events, moved, storeVars>>

\* The CREDIT document is inserted and the acknowledgement is lost.
CreditUnacknowledged(w) ==
    LET b == act[w].booking
    IN  /\ At(w, "recordCredit")
        /\ ~Recorded("CREDIT", b)
        /\ Spend
        /\ CreateTransaction("CREDIT", b, Owner[b], Amount[b])
        /\ Goto(w, "findRefund")
        /\ UNCHANGED <<job, events, moved, balance>>

AttemptFails(w) ==
    /\ act[w].pc \notin CreditStage \cup {"idle", "return"}
    /\ Spend
    /\ Settle(w, "rejected")
    /\ UNCHANGED <<events, moved, storeVars>>

-----------------------------------------------------------------------------
\* The steps of one activation that no failure is needed for.
HandlerStep(w) ==
    \/ \E s \in Stages : ReadPrior(w, s)
    \/ GuestDebit(w) \/ RecordDebit(w)
    \/ ReadOwner(w) \/ CreditOwner(w) \/ RecordCredit(w)
    \/ FindRefund(w) \/ ReadGuest(w) \/ RefundGuest(w) \/ RecordRefund(w)
    \/ Emit(w) \/ Return(w)

Disturbance(w) ==
    CreditFails(w) \/ CreditUnacknowledged(w) \/ AttemptFails(w) \/ Crash(w)

QueueStep(b) == EnqueuePaymentJob(b) \/ ExpireJob(b) \/ LockExpires(b)
=============================================================================
