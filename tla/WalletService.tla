--------------------------- MODULE WalletService ---------------------------
(***************************************************************************)
(* The wallet service: payment jobs and top-up requests on the same two    *)
(* collections.  The service has no lock of its own, so any two operations *)
(* interleave at every await.                                              *)
(***************************************************************************)
EXTENDS PaymentProcessor, WalletTopUp

vars == <<storeVars, processorVars, topUpVars>>

Running(w) == act[w].pc # "idle"

Init == StoreInit /\ ProcessorInit /\ TopUpInit

TakeJob(w, b) == PickJob(w, b) /\ UNCHANGED topUpVars

Accept(r) == Arrive(r) /\ UNCHANGED processorVars

Handle(w) == HandlerStep(w) /\ UNCHANGED topUpVars

Serve(r) == TopUpStep(r) /\ UNCHANGED processorVars

DropRequest(r) == TopUpFails(r) /\ Spend /\ UNCHANGED <<job, act, events, moved>>

Queue(b) == QueueStep(b) /\ UNCHANGED topUpVars

Disturb(w) == Disturbance(w) /\ UNCHANGED topUpVars

Next ==
    \/ \E b \in Bookings : Queue(b)
    \/ \E w \in Workers : Handle(w) \/ Disturb(w)
    \/ \E w \in Workers, b \in Bookings : TakeJob(w, b)
    \/ \E r \in TopUps : Accept(r) \/ Serve(r) \/ DropRequest(r)

(***************************************************************************)
(* A running handler keeps running: weak fairness of its steps.  The       *)
(* waiting list is first in first out and a retried job goes to its end,   *)
(* so a job that is waiting again and again whenever a worker is free is   *)
(* taken: strong fairness.  The stalled check runs every 30 s.             *)
(***************************************************************************)
Fairness ==
    /\ \A w \in Workers : WF_vars(Handle(w))
    /\ \A b \in Bookings : SF_vars(\E w \in Workers : TakeJob(w, b))
    /\ \A b \in Bookings :
            WF_vars(job[b].holder = NoWorker /\ LockExpires(b) /\ UNCHANGED topUpVars)
    /\ \A r \in TopUps : WF_vars(Serve(r))

Spec == Init /\ [][Next]_vars

FairSpec == Spec /\ Fairness

-----------------------------------------------------------------------------
(***************************************************************************)
(* Types.                                                                  *)
(***************************************************************************)
Job == [state : JobStates, holder : Workers \cup {NoWorker},
        attempts : Nat, stalls : Nat]

Activation == [pc : Points, booking : Bookings \cup {NoBooking},
               unread : SUBSET Stages, prior : SUBSET Stages, copy : Nat]

Transactions ==
    [type : Stages \cup {"TOP_UP"}, ref : Bookings \cup Keys, user : Users, amount : Nat]

Events ==
    {Success(b) : b \in Bookings}
    \cup {Failed(b, reason) : b \in Bookings,
                              reason \in {"CREDIT_FAILED_REFUNDED", "INSUFFICIENT_BALANCE"}}

BalanceTypeOK == balance \in [Users -> Nat]

LedgerTypeOK == transactions \subseteq Transactions

JobTypeOK == job \in [Bookings -> Job]

RunTypeOK ==
    /\ act \in [Workers -> Activation]
    /\ \A w \in Workers : Running(w) => act[w].booking \in Bookings

ReportTypeOK == events \subseteq Events

MovedTypeOK == moved \in [Bookings -> [Stages -> Nat]]

SpentTypeOK == spent \in [faults : Nat, crashes : Nat, stalls : Nat]

RequestTypeOK ==
    /\ request \in [TopUps -> [pc : RequestPoints, copy : Nat]]
    /\ credited \in [Keys -> Nat]

\* Every variable has its type.  That balances are natural numbers says that no
\* interleaving of debits, stale saves, crashes and retries overdraws a wallet
\* (wallet.model.js: min 0; debitWalletIfEnough).
TypeOK ==
    /\ BalanceTypeOK /\ LedgerTypeOK
    /\ JobTypeOK /\ RunTypeOK
    /\ ReportTypeOK /\ MovedTypeOK /\ SpentTypeOK
    /\ RequestTypeOK

-----------------------------------------------------------------------------
(***************************************************************************)
(* Safety.                                                                 *)
(***************************************************************************)

\* What the booking service is told is on the ledger, whatever fails or runs
\* twice: PAYMENT_SUCCESS is published only when both the guest's DEBIT and the
\* owner's CREDIT are recorded, CREDIT_FAILED_REFUNDED only when the DEBIT and
\* the REFUND are (handleBookingCreated publishes after its transactions).
EventsBacked ==
    \A b \in Bookings :
        /\ Success(b) \in events => Recorded("DEBIT", b) /\ Recorded("CREDIT", b)
        /\ Failed(b, "CREDIT_FAILED_REFUNDED") \in events =>
                Recorded("DEBIT", b) /\ Recorded("REFUND", b)

\* The ledger never runs ahead of the money: a recorded movement has happened
\* to a balance, and nobody is credited or refunded, on a balance or on the
\* ledger, for a booking whose guest has no recorded debit.
LedgerBehindMoney ==
    \A b \in Bookings :
        /\ \A s \in Stages : Recorded(s, b) => moved[b][s] > 0
        /\ \A s \in {"CREDIT", "REFUND"} : moved[b][s] > 0 => Recorded("DEBIT", b)

\* Points behind a recorded debit.
DebitDone == {"readOwner", "creditOwner", "recordCredit", "findRefund", "readGuest",
              "refundGuest", "recordRefund", "emitSuccess", "emitRefunded"}

\* What an activation may rely on where it stands.
Knows(w) ==
    LET b == act[w].booking
        pc == act[w].pc
    IN  Running(w) =>
          /\ \A s \in act[w].prior : Recorded(s, b)
          /\ pc \in DebitDone => Recorded("DEBIT", b)
          /\ pc = "emitSuccess" => Recorded("CREDIT", b)
          /\ pc = "emitRefunded" => Recorded("REFUND", b)
          /\ pc = "recordDebit" => moved[b]["DEBIT"] > 0
          /\ pc = "recordCredit" => moved[b]["CREDIT"] > 0
          /\ pc = "recordRefund" => moved[b]["REFUND"] > 0

\* The inductive invariant behind EventsBacked and LedgerBehindMoney: every
\* activation, however late, stale or repeated, stands only where the ledger
\* supports what it does next.
Sound == TypeOK /\ EventsBacked /\ LedgerBehindMoney /\ \A w \in Workers : Knows(w)

\* No call has failed, no activation died, no lock expired under a live one.
Undisturbed == spent = [faults |-> 0, crashes |-> 0, stalls |-> 0]

\* Without failures a booking moves money at most once in each direction and is
\* never refunded, however many jobs run at once and however often its
\* BOOKING_CREATED event is delivered, even after its job has expired.
ChargedOnce ==
    Undisturbed =>
        \A b \in Bookings :
            /\ moved[b]["DEBIT"] <= 1
            /\ moved[b]["CREDIT"] <= 1
            /\ moved[b]["REFUND"] = 0

(***************************************************************************)
(* Without failures the worker implements IdealPayments.  A combination of *)
(* movements the ideal does not know maps to a phase it cannot reach.      *)
(***************************************************************************)
Moves(debits, credits, refunds) ==
    [s \in Stages |-> CASE s = "DEBIT" -> debits [] s = "CREDIT" -> credits
                         [] OTHER -> refunds]

Phase(b) ==
    CASE moved[b] = Moves(0, 0, 0) -> "unpaid"
      [] moved[b] = Moves(1, 0, 0) -> "charged"
      [] moved[b] = Moves(1, 1, 0) -> "paid"
      [] OTHER -> "corrupt"

Ideal == INSTANCE IdealPayments WITH
    phase <- [b \in Bookings |-> Phase(b)],
    paid <- {b \in Bookings : Success(b) \in events},
    refused <- {b \in Bookings : \E e \in events :
                                    e.booking = b /\ e.type = "PAYMENT_FAILED"}

\* The guest is charged once, the charge reaches the owner, and every report
\* agrees with the movements, with all jobs and top-ups running concurrently.
ImplementsIdealPayments == Ideal!FairSpec

\* A booking that was reported paid, or refunded, is never reported otherwise later,
\* even by a job that runs again: emitPaymentSuccess and emitPaymentFailed.
OutcomeIsFinal ==
    [][\A b \in Bookings, e \in events :
            e \in {Success(b), Failed(b, "CREDIT_FAILED_REFUNDED")} =>
                \A d \in events' \ events : d.booking # b]_vars

Outcomes(b) == {e \in events : e.booking = b}

\* The limits on attempts and stalls of a job cannot have been used up yet.
WithinLimits ==
    /\ spent.faults < MaxAttempts
    /\ spent.crashes + spent.stalls <= MaxStalledCount

\* Whoever was charged and has heard nothing has a job that will go on, whatever failed,
\* died or ran twice, until the limits of the queue are used up (enqueuePaymentJob:
\* attempts; BullMQ: maxStalledCount; every path of handleBookingCreated that returns
\* publishes first).
ChargesAreFollowedUp ==
    WithinLimits =>
        \A b \in Bookings :
            moved[b]["DEBIT"] > 0 /\ Outcomes(b) = {} => job[b].state \in {"waiting", "active"}

(***************************************************************************)
(* What the documentation says beyond this, which the code does not keep.  *)
(***************************************************************************)

\* payment-flow.md: "guest debit (idempotent)".  The guest's balance is lowered
\* at most once for a booking.
GuestDebitIdempotent == \A b \in Bookings : moved[b]["DEBIT"] <= 1

\* patterns-and-usage.md: "Safe retries for booking creation and wallet
\* top-up/payment processing".  A top-up retried with its idempotency key raises
\* the balance at most once.
TopUpRetrySafe == \A k \in Keys : credited[k] <= 1

\* A job that is taken up leads to an outcome for the booking service, even
\* through a failed attempt or a crash, while the limits on attempts and stalls
\* are not used up.
EveryJobIsAnswered ==
    \A b \in Bookings : job[b].state = "waiting" ~> Outcomes(b) # {}
=============================================================================
