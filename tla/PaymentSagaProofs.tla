-------------------------- MODULE PaymentSagaProofs --------------------------
(***************************************************************************)
(* Proofs about the payment saga, for any bookings, calls, balances,       *)
(* workers, failures and points at which activations pause.                *)
(*                                                                         *)
(* None of the properties is inductive: a booking becomes CONFIRMED by a   *)
(* message, so the messages must be true; they are true because they are   *)
(* reports of the worker, and about these WalletServiceProofs and          *)
(* ChargedOnceProofs know that they are backed by the ledger (Sound) and   *)
(* that charges are followed up (Followed), and, until a lock expires,     *)
(* that an activation has its booking to itself (Faithful).  What the      *)
(* saga needs beyond these of the worker is proved first: Limited,         *)
(* Answered, Refused.  Then come the messages and the booking columns.     *)
(***************************************************************************)
EXTENDS PaymentSaga, ChargedOnceProofs

-----------------------------------------------------------------------------
(***************************************************************************)
(* The invariants of the worker.                                           *)
(***************************************************************************)
\* A job that will run has used up no more than there were failures, one that has failed
\* shows that the limits are used up, and only an active job is held.
LimitedTo(b) ==
    /\ job[b].holder # NoWorker => job[b].state = "active"
    /\ job[b].state \in {"waiting", "active"} =>
          job[b].attempts <= spent.faults /\ Stalled(b) <= spent.crashes + spent.stalls
    /\ job[b].state = "failed" => ~WithinLimits

Limited == \A b \in Bookings : LimitedTo(b)

\* Reported as what the ledger says of a charge: paid or refunded.
Told(b) == Success(b) \in events \/ Failed(b, "CREDIT_FAILED_REFUNDED") \in events

\* A handler that returns has told what became of a charge, and a charge of which nothing
\* is told has a job.
AnsweredOf(b) ==
    /\ Recorded("DEBIT", b) /\ ~Told(b) /\ WithinLimits => job[b].state \in {"waiting", "active"}
    /\ \A w \in Workers : On(w, b) /\ act[w].pc = "return" /\ Recorded("DEBIT", b) => Told(b)

Answered == \A b \in Bookings : AnsweredOf(b)

Refusal(b) == Failed(b, "INSUFFICIENT_BALANCE")

\* The job of a refused booking is over, or its activation is about to return.
Over(b) ==
    /\ ~Recorded("DEBIT", b)
    /\ job[b].state = "completed" \/ (job[b].state = "active" /\ job[b].holder # NoWorker)
    /\ \A w \in Workers : On(w, b) => act[w].pc = "return"

RefusedOf(b) == Refusal(b) \in events /\ ~MayRerun(b) => Over(b)

Refused == \A b \in Bookings : RefusedOf(b)

-----------------------------------------------------------------------------
(***************************************************************************)
(* What a step of the wallet service does, as far as these are concerned.  *)
(***************************************************************************)
\* Activation w goes on to another point of the handler, with at most a publish or a
\* record for its booking.
GoesOn(w) ==
    /\ Running(w)
    /\ UNCHANGED job
    /\ spent' = spent \/ Spend
    /\ \A v \in Workers : v # w => UNCHANGED act[v]
    /\ act'[w].booking = act[w].booking
    /\ act[w].pc # "return"
    /\ \/ /\ act[w].pc \in Reporting
          /\ events' = events \cup {Report(w)} /\ UNCHANGED transactions
          /\ act'[w].pc = "return"
       \/ /\ act[w].pc \notin Reporting
          /\ UNCHANGED events
          /\ act'[w].pc # "return"
          /\ \A b \in Bookings, s \in Stages :
                b # act[w].booking => (Recorded(s, b)' <=> Recorded(s, b))

\* Nothing of this changes.
NothingDone ==
    /\ UNCHANGED <<job, act, events>>
    /\ \A b \in Bookings, s \in Stages : Recorded(s, b)' <=> Recorded(s, b)
    /\ spent' = spent \/ Spend

LEMMA HandlerGoesOn ==
    ASSUME TypeOK, NEW w \in Workers,
           (HandlerStep(w) /\ ~Return(w)) \/ CreditFails(w) \/ CreditUnacknowledged(w)
    PROVE  GoesOn(w)
<1>1. act \in [Workers -> Activation]
  BY DEF TypeOK, RunTypeOK
<1>3. ASSUME NEW s \in Stages, ReadPrior(w, s) PROVE GoesOn(w)
  <2>1. act'[w].pc \in {"reading", "emitRefunded", "emitSuccess", "readOwner", "debit"}
    BY <1>1, <1>3 DEF ReadPrior, AfterRead, AfterDebit, Activation
  <2>2. act'[w].booking = act[w].booking /\ \A v \in Workers : v # w => UNCHANGED act[v]
    BY <1>1, <1>3 DEF ReadPrior, Activation
  <2>. QED
    BY <1>3, <2>1, <2>2 DEF ReadPrior, At, GoesOn, Running, Reporting, storeVars, Recorded
<1>4. ASSUME GuestDebit(w) \/ FindRefund(w) PROVE GoesOn(w)
  <2>1. PICK p \in Points \ {"idle", "return"} : Goto(w, p)
    BY <1>4 DEF GuestDebit, FindRefund, Points
  <2>2. act'[w].pc = p /\ act'[w].booking = act[w].booking /\ \A v \in Workers : v # w => UNCHANGED act[v]
    BY <1>1, <2>1 DEF Goto, Activation
  <2>. QED
    BY <1>4, <2>1, <2>2 DEF GuestDebit, FindRefund, At, GoesOn, Running, Reporting, storeVars, Recorded
<1>5. ASSUME ReadOwner(w) \/ ReadGuest(w) \/ CreditOwner(w) \/ RefundGuest(w) \/ CreditFails(w) PROVE GoesOn(w)
  <2>1. PICK p \in Points \ {"idle", "return"} : \E c : act' = [act EXCEPT ![w].pc = p, ![w].copy = c]
    BY <1>5 DEF ReadOwner, ReadGuest, CreditOwner, RefundGuest, CreditFails, Points
  <2>2. act'[w].pc = p /\ act'[w].booking = act[w].booking /\ \A v \in Workers : v # w => UNCHANGED act[v]
    BY <1>1, <2>1 DEF Activation
  <2>3. UNCHANGED <<job, events, transactions>> /\ (spent' = spent \/ Spend)
    BY <1>5 DEF ReadOwner, ReadGuest, CreditOwner, RefundGuest, CreditFails, storeVars
  <2>4. act[w].pc \in {"readOwner", "readGuest", "creditOwner", "refundGuest", "recordCredit"}
    BY <1>5 DEF ReadOwner, ReadGuest, CreditOwner, RefundGuest, CreditFails, At, CreditStage
  <2>. QED
    BY <2>1, <2>2, <2>3, <2>4 DEF GoesOn, Running, Reporting, Recorded
<1>6. ASSUME RecordDebit(w) \/ RecordCredit(w) \/ RecordRefund(w) \/ CreditUnacknowledged(w) PROVE GoesOn(w)
  <2>1. PICK p \in Points \ {"idle", "return"} : Goto(w, p)
    BY <1>6 DEF RecordDebit, RecordCredit, RecordRefund, CreditUnacknowledged, AfterDebit, Points
  <2>2. act'[w].pc = p /\ act'[w].booking = act[w].booking /\ \A v \in Workers : v # w => UNCHANGED act[v]
    BY <1>1, <2>1 DEF Goto, Activation
  <2>3. UNCHANGED <<job, events>> /\ (spent' = spent \/ Spend)
    BY <1>6 DEF RecordDebit, RecordCredit, RecordRefund, CreditUnacknowledged
  <2>4. act[w].pc \in {"recordDebit", "recordCredit", "recordRefund"}
    BY <1>6 DEF RecordDebit, RecordCredit, RecordRefund, CreditUnacknowledged, At
  <2>5. PICK t, u, a : CreateTransaction(t, act[w].booking, u, a)
    BY <1>6 DEF RecordDebit, RecordCredit, RecordRefund, CreditUnacknowledged
  <2>6. \A b \in Bookings, s \in Stages : b # act[w].booking => (Recorded(s, b)' <=> Recorded(s, b))
    BY <2>5, CreateTransactionRecords
  <2>. QED
    BY <2>1, <2>2, <2>3, <2>4, <2>6 DEF GoesOn, Running, Reporting
<1>7. ASSUME Emit(w) PROVE GoesOn(w)
  <2>1. act'[w].pc = "return" /\ act'[w].booking = act[w].booking /\ \A v \in Workers : v # w => UNCHANGED act[v]
    BY <1>1, <1>7 DEF Emit, Goto, Activation
  <2>2. act[w].pc \in Reporting /\ events' = events \cup {Report(w)}
    BY <1>7 DEF Emit, At, Reporting, Report
  <2>. QED
    BY <1>7, <2>1, <2>2 DEF Emit, GoesOn, Running, Reporting, storeVars
<1>. QED
  BY <1>3, <1>4, <1>5, <1>6, <1>7 DEF HandlerStep

\* The steps of the wallet service, by what they do to a job and its activation.
LEMMA WalletSteps ==
    ASSUME TypeOK, [Next]_vars
    PROVE  \/ NothingDone
           \/ \E w \in Workers : GoesOn(w) \/ Return(w) \/ AttemptFails(w) \/ Crash(w)
           \/ \E w \in Workers, b \in Bookings : PickJob(w, b)
           \/ \E b \in Bookings : EnqueuePaymentJob(b) \/ ExpireJob(b) \/ LockExpires(b)
<1>1. CASE UNCHANGED vars
  BY <1>1 DEF vars, storeVars, processorVars, NothingDone, Recorded
<1>2. ASSUME NEW r \in TopUps, Accept(r) \/ Serve(r) \/ DropRequest(r) PROVE NothingDone
  <2>1. UNCHANGED <<act, job, events>> /\ (spent' = spent \/ Spend)
    BY <1>2 DEF Accept, Serve, DropRequest, processorVars
  <2>2. \A b \in Bookings, s \in Stages : Recorded(s, b)' <=> Recorded(s, b)
    <3>1. CASE UNCHANGED transactions
      BY <3>1 DEF Recorded
    <3>2. CASE CreateTransaction("TOP_UP", TopUpKey[r], TopUpUser[r], TopUpAmount[r])
      BY <3>2, CreateTransactionRecords DEF Stages
    <3>. QED
      BY <1>2, <3>1, <3>2
      DEF Accept, Arrive, Serve, TopUpStep, FindExisting, ReadWallet, SaveTopUp, RecordTopUp, DropRequest,
          TopUpFails, storeVars
  <2>. QED
    BY <2>1, <2>2 DEF NothingDone
<1>3. ASSUME NEW w \in Workers, Handle(w) \/ Disturb(w)
      PROVE  GoesOn(w) \/ Return(w) \/ AttemptFails(w) \/ Crash(w)
  <2>1. CASE (HandlerStep(w) /\ ~Return(w)) \/ CreditFails(w) \/ CreditUnacknowledged(w)
    BY <2>1, HandlerGoesOn
  <2>2. CASE Return(w) \/ AttemptFails(w) \/ Crash(w)
    BY <2>2
  <2>. QED
    BY <1>3, <2>1, <2>2 DEF Handle, Disturb, Disturbance
<1>4. ASSUME NEW w \in Workers, NEW b \in Bookings, TakeJob(w, b) PROVE PickJob(w, b)
  BY <1>4 DEF TakeJob
<1>5. ASSUME NEW b \in Bookings, Queue(b) PROVE EnqueuePaymentJob(b) \/ ExpireJob(b) \/ LockExpires(b)
  BY <1>5 DEF Queue, QueueStep
<1>. QED
  BY <1>1, <1>2, <1>3, <1>4, <1>5 DEF Next

-----------------------------------------------------------------------------
(***************************************************************************)
(* The limits of a job.                                                    *)
(***************************************************************************)
LEMMA LimitedStays ==
    ASSUME TypeOK, TypeOK', Later, NEW b \in Bookings, LimitedTo(b), UNCHANGED job[b]
    PROVE  LimitedTo(b)'
<1>1. spent \in [faults : Nat, crashes : Nat, stalls : Nat]
      /\ spent' \in [faults : Nat, crashes : Nat, stalls : Nat]
  BY DEF TypeOK, SpentTypeOK
<1>2. job[b].attempts \in Nat /\ Stalled(b) \in Nat
  BY DEF TypeOK, JobTypeOK, Job, Stalled
<1>3. Stalled(b)' = Stalled(b)
  BY DEF Stalled, Abandoned
<1>4. WithinLimits' => WithinLimits
  BY LimitsShrink DEF TypeOK
<1>. QED
  BY <1>1, <1>2, <1>3, <1>4 DEF LimitedTo, Later

LEMMA EndsLimited ==
    ASSUME TypeOK, TypeOK', Later, Limited, NEW w \in Workers, Return(w) \/ AttemptFails(w) \/ Crash(w)
    PROVE  Limited'
<1>1. Running(w)
  BY DEF Return, AttemptFails, Crash, At, Running
<1>2. PICK b \in Bookings : b = act[w].booking
  BY <1>1, RunningTypes
<1>3. spent \in [faults : Nat, crashes : Nat, stalls : Nat] /\ job \in [Bookings -> Job]
  BY DEF TypeOK, SpentTypeOK, JobTypeOK
<1>4. \A c \in Bookings : job[c] \in Job /\ job[c].attempts \in Nat /\ job[c].stalls \in Nat
  BY <1>3 DEF Job
<1>5. ASSUME Return(w) \/ AttemptFails(w), job' # job PROVE LimitedTo(b)'
  <2>. DEFINE after == IF Return(w) THEN "completed"
                       ELSE IF job[b].attempts + 1 < MaxAttempts THEN "waiting" ELSE "failed"
  <2>1. /\ job[b].holder = w
        /\ job' = [job EXCEPT ![b] = [job[b] EXCEPT !.state = after, !.holder = NoWorker,
                                                    !.attempts = job[b].attempts + 1]]
    BY <1>2, <1>5 DEF Return, AttemptFails, At, Settle
  <2>2. /\ job'[b].state = after /\ job'[b].attempts = job[b].attempts + 1
        /\ job'[b].stalls = job[b].stalls /\ job'[b].holder = NoWorker
    BY <1>3, <1>4, <2>1 DEF Job
  <2>3. after \in {"waiting", "completed", "failed"} /\ (after # "completed" => AttemptFails(w))
    BY <1>5
  <2>4. Stalled(b)' = job[b].stalls /\ job[b].stalls <= Stalled(b) /\ Stalled(b) \in Nat
    BY <1>4, <2>2, <2>3 DEF Stalled, Abandoned
  <2>5. job[b].attempts <= spent.faults /\ Stalled(b) <= spent.crashes + spent.stalls
    BY <2>1, PaymentAssumption DEF Limited, LimitedTo
  <2>6. ASSUME AttemptFails(w)
        PROVE  /\ spent'.faults = spent.faults + 1
               /\ spent'.crashes = spent.crashes /\ spent'.stalls = spent.stalls
    BY <1>3, <2>6 DEF AttemptFails, Spend
  <2>7. ASSUME AttemptFails(w), after = "failed" PROVE ~WithinLimits'
    <3>1. job[b].attempts + 1 >= MaxAttempts
      BY <1>4, <2>7, PaymentAssumption DEF Return, AttemptFails, At, CreditStage
    <3>. QED
      BY <1>3, <1>4, <2>5, <2>6, <2>7, <3>1, PaymentAssumption DEF WithinLimits
  <2>8. ASSUME AttemptFails(w)
        PROVE  /\ job'[b].attempts <= spent'.faults
               /\ Stalled(b)' <= spent'.crashes + spent'.stalls
    BY <1>3, <1>4, <2>2, <2>4, <2>5, <2>6, <2>8
  <2>. HIDE DEF after
  <2>. QED
    BY <2>2, <2>3, <2>7, <2>8 DEF LimitedTo
<1>6. ASSUME Crash(w), NEW c \in Bookings PROVE LimitedTo(c)'
  <2>1. job'[c] = job[c] \/ job'[c] = [job[c] EXCEPT !.holder = NoWorker]
    BY <1>3, <1>6 DEF Crash
  <2>2. /\ job'[c].state = job[c].state /\ job'[c].attempts = job[c].attempts
        /\ job'[c].stalls = job[c].stalls /\ job'[c].holder \in {job[c].holder, NoWorker}
    BY <1>4, <2>1 DEF Job
  <2>3. /\ spent'.faults = spent.faults
        /\ spent'.crashes = spent.crashes + 1 /\ spent'.stalls = spent.stalls
    BY <1>3, <1>6 DEF Crash
  <2>4. Stalled(c) \in Nat /\ Stalled(c)' \in Nat /\ Stalled(c)' <= Stalled(c) + 1
    BY <1>4, <2>2 DEF Stalled, Abandoned
  <2>5. LimitedTo(c)
    BY DEF Limited
  <2>6. WithinLimits' => WithinLimits
    BY LimitsShrink DEF TypeOK
  <2>7. job[c].state \in {"waiting", "active"} => Stalled(c)' <= spent'.crashes + spent'.stalls
    BY <1>3, <2>3, <2>4, <2>5 DEF LimitedTo
  <2>. QED
    BY <2>2, <2>3, <2>5, <2>6, <2>7 DEF LimitedTo
<1>7. ASSUME Return(w) \/ AttemptFails(w), NEW c \in Bookings, c # b \/ job' = job PROVE UNCHANGED job[c]
  BY <1>2, <1>3, <1>7 DEF Return, AttemptFails, Settle
<1>8. ASSUME Return(w) \/ AttemptFails(w), NEW c \in Bookings PROVE LimitedTo(c)'
  BY <1>5, <1>7, <1>8, LimitedStays DEF Limited
<1>. QED
  BY <1>6, <1>8 DEF Limited

LEMMA QueuesLimited ==
    ASSUME TypeOK, TypeOK', Later, Limited, NEW b \in Bookings,
           QueueStep(b) \/ \E w \in Workers : PickJob(w, b)
    PROVE  Limited'
<1>1. spent \in [faults : Nat, crashes : Nat, stalls : Nat] /\ job \in [Bookings -> Job]
  BY DEF TypeOK, SpentTypeOK, JobTypeOK
<1>2. job[b].attempts \in Nat /\ job[b].stalls \in Nat
  BY <1>1 DEF Job
<1>3. \A c \in Bookings : c # b => UNCHANGED job[c]
  BY <1>1 DEF QueueStep, EnqueuePaymentJob, ExpireJob, LockExpires, PickJob
<1>4. ASSUME EnqueuePaymentJob(b) \/ ExpireJob(b) PROVE LimitedTo(b)'
  <2>1. job'[b] \in {[NoJob EXCEPT !.state = "waiting"], NoJob} /\ spent' = spent
    BY <1>1, <1>4 DEF EnqueuePaymentJob, ExpireJob
  <2>2. /\ job'[b].state \in {"none", "waiting"} /\ job'[b].attempts = 0 /\ job'[b].stalls = 0
        /\ job'[b].holder = NoWorker
    BY <2>1 DEF NoJob
  <2>3. Stalled(b)' = 0
    BY <2>2 DEF Stalled, Abandoned
  <2>4. job'[b].attempts <= spent'.faults /\ Stalled(b)' <= spent'.crashes + spent'.stalls
    BY <1>1, <2>1, <2>2, <2>3
  <2>. QED
    BY <2>2, <2>4 DEF LimitedTo
<1>5. ASSUME LockExpires(b) PROVE LimitedTo(b)'
  <2>. DEFINE after == IF job[b].stalls < MaxStalledCount THEN "waiting" ELSE "failed"
  <2>1. job' = [job EXCEPT ![b] = [job[b] EXCEPT !.state = after, !.holder = NoWorker,
                                                 !.stalls = job[b].stalls + 1]]
    BY <1>5 DEF LockExpires
  <2>2. /\ job'[b].state = after /\ job'[b].attempts = job[b].attempts
        /\ job'[b].stalls = job[b].stalls + 1 /\ job'[b].holder = NoWorker
    BY <1>1, <2>1 DEF Job
  <2>3. after \in {"waiting", "failed"}
    OBVIOUS
  <2>4. Stalled(b)' = job[b].stalls + 1
    BY <1>2, <2>2, <2>3 DEF Stalled, Abandoned
  <2>5. /\ spent'.faults = spent.faults /\ spent'.crashes = spent.crashes
        /\ spent'.stalls \in Nat
        /\ Stalled(b)' + spent.stalls <= Stalled(b) + spent'.stalls
    <3>1. CASE job[b].holder = NoWorker
      <4>1. Stalled(b) = job[b].stalls + 1 /\ spent' = spent
        BY <1>5, <3>1 DEF LockExpires, Stalled, Abandoned
      <4>. QED
        BY <1>1, <1>2, <2>4, <4>1
    <3>2. CASE job[b].holder # NoWorker
      <4>1. Stalled(b) = job[b].stalls + 0 /\ spent' = [spent EXCEPT !.stalls = @ + 1]
        BY <1>5, <3>2 DEF LockExpires, Stalled, Abandoned
      <4>. QED
        BY <1>1, <1>2, <2>4, <4>1
    <3>. QED
      BY <3>1, <3>2
  <2>6. Stalled(b) \in Nat
    BY <1>2 DEF Stalled
  <2>7. job[b].attempts <= spent.faults /\ Stalled(b) <= spent.crashes + spent.stalls
    BY <1>5 DEF LockExpires, Limited, LimitedTo
  <2>8. Stalled(b)' <= spent'.crashes + spent'.stalls
    BY <1>1, <1>2, <2>4, <2>5, <2>6, <2>7
  <2>9. after = "failed" => ~WithinLimits'
    BY <1>1, <1>2, <2>4, <2>5, <2>8, PaymentAssumption DEF WithinLimits
  <2>. HIDE DEF after
  <2>10. job'[b].attempts <= spent'.faults
    BY <2>2, <2>5, <2>7
  <2>. QED
    BY <2>2, <2>3, <2>8, <2>9, <2>10 DEF LimitedTo
<1>6. ASSUME NEW w \in Workers, PickJob(w, b) PROVE LimitedTo(b)'
  <2>1. /\ job'[b].state = "active" /\ job'[b].holder = w
        /\ job'[b].attempts = job[b].attempts /\ job'[b].stalls = job[b].stalls
        /\ job[b].state = "waiting" /\ spent' = spent
    BY <1>1, <1>6 DEF PickJob, Job
  <2>2. Stalled(b)' = Stalled(b)
    BY <2>1, PaymentAssumption DEF Stalled, Abandoned
  <2>3. LimitedTo(b)
    BY DEF Limited
  <2>4. job'[b].attempts <= spent'.faults /\ Stalled(b)' <= spent'.crashes + spent'.stalls
    BY <2>1, <2>2, <2>3 DEF LimitedTo
  <2>. QED
    BY <2>1, <2>4 DEF LimitedTo
<1>7. LimitedTo(b)'
  BY <1>4, <1>5, <1>6 DEF QueueStep
<1>. QED
  BY <1>3, <1>7, LimitedStays DEF Limited

LEMMA NextLimited == ASSUME TypeOK, Limited, [Next]_vars PROVE Limited'
<1>1. TypeOK' /\ Later
  BY NextTypeOK, NextLater
<1>2. CASE UNCHANGED job
  BY <1>1, <1>2, LimitedStays DEF Limited
<1>3. ASSUME NEW w \in Workers, Return(w) \/ AttemptFails(w) \/ Crash(w) PROVE Limited'
  BY <1>1, <1>3, EndsLimited
<1>4. ASSUME NEW b \in Bookings, QueueStep(b) \/ \E w \in Workers : PickJob(w, b) PROVE Limited'
  BY <1>1, <1>4, QueuesLimited
<1>. QED
  BY <1>2, <1>3, <1>4, WalletSteps DEF NothingDone, GoesOn, QueueStep

-----------------------------------------------------------------------------
(***************************************************************************)
(* What becomes of a charge, and of a refusal.                             *)
(***************************************************************************)
\* While locks hold, the activation on a booking is the holder of its job.
LEMMA OneIsOn ==
    ASSUME Faithful, NEW b \in Bookings, NEW w \in Workers, On(w, b)
    PROVE  /\ SeesAt(w, b, act[w].pc)
           /\ job[b].state = "active" /\ job[b].holder = w
           /\ \A v \in Workers : On(v, b) => v = w
<1>1. ASSUME NEW v \in Workers, On(v, b) PROVE SeesAt(v, b, act[v].pc)
  BY <1>1 DEF On, Faithful, Sees
<1>. QED
  BY <1>1 DEF SeesAt

\* An activation that ends does so with its job, if that is still its own.
LEMMA EndEffect ==
    ASSUME TypeOK, NEW w \in Workers, Return(w) \/ AttemptFails(w) \/ Crash(w)
    PROVE  /\ Running(w) /\ UNCHANGED <<events, transactions>>
           /\ act'[w].pc = "idle" /\ \A v \in Workers : v # w => UNCHANGED act[v]
           /\ \A c \in Bookings :
                 \/ UNCHANGED job[c]
                 \/ Return(w) /\ On(w, c) /\ job'[c].state = "completed"
                 \/ AttemptFails(w) /\ On(w, c) /\ job'[c].state \in {"waiting", "failed"}
                 \/ Crash(w) /\ job'[c].state = job[c].state
<1>1. Running(w)
  BY DEF Return, AttemptFails, Crash, At, Running
<1>2. act' = [act EXCEPT ![w] = Idle] /\ UNCHANGED <<events, transactions>>
  BY DEF Return, AttemptFails, Crash, Settle, storeVars
<1>3. act'[w].pc = "idle" /\ \A v \in Workers : v # w => UNCHANGED act[v]
  BY <1>2 DEF TypeOK, RunTypeOK, Idle
<1>4. job \in [Bookings -> Job]
  BY DEF TypeOK, JobTypeOK
<1>5. ASSUME NEW c \in Bookings, Return(w) \/ AttemptFails(w)
      PROVE  \/ UNCHANGED job[c]
             \/ Return(w) /\ On(w, c) /\ job'[c].state = "completed"
             \/ AttemptFails(w) /\ On(w, c) /\ job'[c].state \in {"waiting", "failed"}
  <2>1. CASE c # act[w].booking \/ job' = job
    BY <1>4, <1>5, <2>1 DEF Return, AttemptFails, Settle
  <2>2. CASE c = act[w].booking /\ job' # job
    <3>1. On(w, c)
      BY <1>1, <2>2 DEF On
    <3>2. PICK after, n : /\ job' = [job EXCEPT ![c] = [job[c] EXCEPT !.state = after, !.holder = NoWorker,
                                                                      !.attempts = n]]
                          /\ \/ Return(w) /\ after = "completed"
                             \/ AttemptFails(w) /\ after \in {"waiting", "failed"}
      BY <1>5, <2>2 DEF Return, AttemptFails, Settle
    <3>3. job'[c].state = after
      BY <1>4, <3>2 DEF Job
    <3>. QED
      BY <3>1, <3>2, <3>3
  <2>. QED
    BY <2>1, <2>2
<1>6. ASSUME NEW c \in Bookings, Crash(w) PROVE job'[c].state = job[c].state
  <2>1. job'[c] = job[c] \/ job'[c] = [job[c] EXCEPT !.holder = NoWorker]
    BY <1>6 DEF Crash
  <2>. QED
    BY <1>4, <2>1 DEF Job
<1>. QED
  BY <1>1, <1>2, <1>3, <1>5, <1>6

\* The jobs of the queue.
LEMMA QueueEffect ==
    ASSUME TypeOK, NEW b \in Bookings, QueueStep(b)
    PROVE  /\ UNCHANGED <<act, events, transactions>>
           /\ \A c \in Bookings : c # b => UNCHANGED job[c]
           /\ \/ /\ EnqueuePaymentJob(b) /\ UNCHANGED spent
                 /\ job[b].state = "none" /\ job'[b].state = "waiting"
              \/ /\ ExpireJob(b) /\ UNCHANGED spent
                 /\ job[b].state \in {"completed", "failed"} /\ job'[b].state = "none"
              \/ /\ LockExpires(b)
                 /\ job[b].state = "active" /\ job'[b].state \in {"waiting", "failed"}
                 /\ job[b].holder # NoWorker => spent'.stalls > 0
<1>1. job \in [Bookings -> Job] /\ spent \in [faults : Nat, crashes : Nat, stalls : Nat]
  BY DEF TypeOK, JobTypeOK, SpentTypeOK
<1>2. UNCHANGED <<act, events, transactions>> /\ \E j : job' = [job EXCEPT ![b] = j]
  BY DEF QueueStep, EnqueuePaymentJob, ExpireJob, LockExpires, storeVars
<1>3. ASSUME EnqueuePaymentJob(b)
      PROVE  job[b].state = "none" /\ job'[b].state = "waiting" /\ UNCHANGED spent
  BY <1>1, <1>3 DEF EnqueuePaymentJob, NoJob
<1>4. ASSUME ExpireJob(b)
      PROVE  job[b].state \in {"completed", "failed"} /\ job'[b].state = "none" /\ UNCHANGED spent
  BY <1>1, <1>4 DEF ExpireJob, NoJob
<1>5. ASSUME LockExpires(b)
      PROVE  /\ job[b].state = "active" /\ job'[b].state \in {"waiting", "failed"}
             /\ job[b].holder # NoWorker => spent'.stalls > 0
  <2>1. PICK st \in {"waiting", "failed"}, n \in Nat :
           job' = [job EXCEPT ![b] = [job[b] EXCEPT !.state = st, !.holder = NoWorker, !.stalls = n]]
    <3>1. job[b].stalls + 1 \in Nat
      BY <1>1 DEF Job
    <3>. QED
      BY <1>5, <3>1 DEF LockExpires
  <2>2. job'[b].state = st
    BY <1>1, <2>1 DEF Job
  <2>3. job[b].holder # NoWorker => spent'.stalls > 0
    BY <1>1, <1>5 DEF LockExpires
  <2>. QED
    BY <1>5, <2>2, <2>3 DEF LockExpires
<1>. QED
  BY <1>1, <1>2, <1>3, <1>4, <1>5 DEF QueueStep

LEMMA TakeEffect ==
    ASSUME TypeOK, NEW w \in Workers, NEW b \in Bookings, PickJob(w, b)
    PROVE  /\ UNCHANGED <<events, transactions, spent>> /\ ~Running(w)
           /\ act'[w].pc = "reading" /\ act'[w].booking = b
           /\ \A v \in Workers : v # w => UNCHANGED act[v]
           /\ \A c \in Bookings : c # b => UNCHANGED job[c]
           /\ job[b].state = "waiting" /\ job'[b].state = "active"
<1>1. job \in [Bookings -> Job]
  BY DEF TypeOK, JobTypeOK
<1>2. /\ act'[w].pc = "reading" /\ act'[w].booking = b
      /\ \A v \in Workers : v # w => UNCHANGED act[v]
  BY DEF PickJob, TypeOK, RunTypeOK, Idle
<1>3. job'[b].state = "active" /\ \A c \in Bookings : c # b => UNCHANGED job[c]
  BY <1>1 DEF PickJob, Job
<1>. QED
  BY <1>2, <1>3 DEF PickJob, storeVars, Running

\* What is told stays told, and the rest of Answered is about the job and who is on it.
LEMMA AnsweredStays ==
    ASSUME TypeOK, TypeOK', Later, Limited', NEW b \in Bookings, AnsweredOf(b),
           Recorded("DEBIT", b)' <=> Recorded("DEBIT", b),
           \/ job'[b].state = job[b].state
           \/ job'[b].state \in {"waiting", "active", "failed"}
           \/ ~(job[b].state \in {"waiting", "active"})
           \/ Recorded("DEBIT", b) => Told(b),
           \A v \in Workers : On(v, b)' /\ act'[v].pc = "return" => On(v, b) /\ act[v].pc = "return"
    PROVE  AnsweredOf(b)'
<1>1. Told(b) => Told(b)'
  BY DEF Later, Told, Success, Failed
<1>2. WithinLimits' => WithinLimits
  BY LimitsShrink DEF TypeOK
<1>3. job'[b].state = "failed" => ~WithinLimits'
  BY DEF Limited, LimitedTo
<1>. QED
  BY <1>1, <1>2, <1>3 DEF AnsweredOf

LEMMA GoesOnAnswered ==
    ASSUME Sound, TypeOK', Later, Limited', Faithful, Answered, NEW w \in Workers, GoesOn(w)
    PROVE  Answered'
<1>1. TypeOK /\ Running(w)
  BY DEF Sound, GoesOn
<1>2. PICK b \in Bookings : b = act[w].booking
  BY <1>1, RunningTypes
<1>3. On(w, b) /\ act'[w].booking = b /\ \A v \in Workers : v # w => UNCHANGED act[v]
  BY <1>1, <1>2 DEF On, GoesOn
<1>4. /\ SeesAt(w, b, act[w].pc) /\ job[b].state = "active"
      /\ \A v \in Workers : On(v, b) => v = w
  BY <1>3, OneIsOn
<1>5. ASSUME NEW c \in Bookings, c # b PROVE AnsweredOf(c)'
  <2>1. Recorded("DEBIT", c)' <=> Recorded("DEBIT", c)
    BY <1>2, <1>5 DEF GoesOn, Recorded, Stages
  <2>2. \A v \in Workers : On(v, c)' => On(v, c) /\ UNCHANGED act[v]
    BY <1>3, <1>5 DEF On, Running
  <2>3. AnsweredOf(c) /\ UNCHANGED job
    BY DEF Answered, GoesOn
  <2>. QED
    BY <1>1, <2>1, <2>2, <2>3, AnsweredStays
<1>6. ASSUME Recorded("DEBIT", b)', act'[w].pc = "return" PROVE Told(b)'
  <2>1. act[w].pc \in Reporting /\ events' = events \cup {Report(w)} /\ UNCHANGED transactions
    BY <1>6 DEF GoesOn
  <2>2. act[w].pc # "emitInsufficient"
    BY <1>4, <1>6, <2>1 DEF SeesAt, Recorded
  <2>3. Report(w) \in {Success(b), Failed(b, "CREDIT_FAILED_REFUNDED")}
    BY <1>2, <2>1, <2>2 DEF Report, Reporting, At
  <2>. QED
    BY <2>1, <2>3 DEF Told, Success, Failed
<1>7. \A v \in Workers : On(v, b)' => v = w
  BY <1>3, <1>4 DEF On, Running
<1>8. job'[b].state = "active"
  BY <1>4 DEF GoesOn
<1>9. AnsweredOf(b)'
  BY <1>6, <1>7, <1>8 DEF AnsweredOf
<1>. QED
  BY <1>5, <1>9 DEF Answered

LEMMA NextAnswered ==
    ASSUME spent'.stalls = 0, Sound, Limited', Faithful, Answered, [Next]_vars
    PROVE  Answered'
<1>1. TypeOK /\ TypeOK' /\ Later
  BY NextTypeOK, NextLater DEF Sound
<1>2. CASE NothingDone
  <2>1. ASSUME NEW c \in Bookings PROVE AnsweredOf(c)'
    <3>1. Recorded("DEBIT", c)' <=> Recorded("DEBIT", c)
      BY <1>2 DEF NothingDone, Stages
    <3>2. job'[c].state = job[c].state /\ \A v \in Workers : On(v, c)' => On(v, c) /\ UNCHANGED act[v]
      BY <1>2 DEF NothingDone, On, Running
    <3>3. AnsweredOf(c)
      BY DEF Answered
    <3>. QED
      BY <1>1, <3>1, <3>2, <3>3, AnsweredStays
  <2>. QED
    BY <2>1 DEF Answered
<1>3. ASSUME NEW w \in Workers, GoesOn(w) PROVE Answered'
  BY <1>1, <1>3, GoesOnAnswered
<1>4. ASSUME NEW w \in Workers, Return(w) \/ AttemptFails(w) \/ Crash(w) PROVE Answered'
  <2>1. ASSUME NEW c \in Bookings PROVE AnsweredOf(c)'
    <3>1. UNCHANGED <<events, transactions>> /\ AnsweredOf(c)
      BY <1>1, <1>4, EndEffect DEF Answered
    <3>2. Recorded("DEBIT", c)' <=> Recorded("DEBIT", c)
      BY <3>1 DEF Recorded
    <3>3. \A v \in Workers : On(v, c)' => On(v, c) /\ UNCHANGED act[v]
      BY <1>1, <1>4, EndEffect DEF On, Running
    <3>4. Return(w) /\ On(w, c) /\ Recorded("DEBIT", c) => Told(c)
      BY <3>1 DEF Return, At, AnsweredOf
    <3>5. \/ job'[c].state = job[c].state
          \/ job'[c].state \in {"waiting", "active", "failed"}
          \/ Recorded("DEBIT", c) => Told(c)
      BY <1>1, <1>4, <3>4, EndEffect
    <3>. QED
      BY <1>1, <3>1, <3>2, <3>3, <3>5, AnsweredStays
  <2>. QED
    BY <2>1 DEF Answered
<1>5. ASSUME NEW w \in Workers, NEW b \in Bookings, PickJob(w, b) PROVE Answered'
  <2>1. ASSUME NEW c \in Bookings PROVE AnsweredOf(c)'
    <3>1. UNCHANGED <<events, transactions>> /\ AnsweredOf(c)
      BY <1>1, <1>5, TakeEffect DEF Answered
    <3>2. Recorded("DEBIT", c)' <=> Recorded("DEBIT", c)
      BY <3>1 DEF Recorded
    <3>3. \A v \in Workers : act'[v].pc = "return" => UNCHANGED act[v]
      BY <1>1, <1>5, TakeEffect
    <3>4. \A v \in Workers : On(v, c)' /\ act'[v].pc = "return" => On(v, c) /\ act[v].pc = "return"
      BY <3>3 DEF On, Running
    <3>5. job'[c].state = job[c].state \/ job'[c].state \in {"waiting", "active", "failed"}
      BY <1>1, <1>5, TakeEffect
    <3>. QED
      BY <1>1, <3>1, <3>2, <3>4, <3>5, AnsweredStays
  <2>. QED
    BY <2>1 DEF Answered
<1>6. ASSUME NEW b \in Bookings, QueueStep(b) PROVE Answered'
  <2>1. ASSUME NEW c \in Bookings PROVE AnsweredOf(c)'
    <3>1. UNCHANGED <<act, events, transactions>> /\ AnsweredOf(c)
      BY <1>1, <1>6, QueueEffect DEF Answered
    <3>2. Recorded("DEBIT", c)' <=> Recorded("DEBIT", c)
      BY <3>1 DEF Recorded
    <3>3. \A v \in Workers : On(v, c)' => On(v, c) /\ UNCHANGED act[v]
      BY <3>1 DEF On, Running
    <3>4. \/ job'[c].state = job[c].state
          \/ job'[c].state \in {"waiting", "active", "failed"}
          \/ ~(job[c].state \in {"waiting", "active"})
      BY <1>1, <1>6, QueueEffect
    <3>. QED
      BY <1>1, <3>1, <3>2, <3>3, <3>4, AnsweredStays
  <2>. QED
    BY <2>1 DEF Answered
<1>. QED
  BY <1>1, <1>2, <1>3, <1>4, <1>5, <1>6, WalletSteps DEF QueueStep

-----------------------------------------------------------------------------
\* Over stays, unless an activation of the booking starts, dies or loses its lock.
LEMMA OverStays ==
    ASSUME NEW b \in Bookings, Over(b), Recorded("DEBIT", b)' <=> Recorded("DEBIT", b),
           UNCHANGED job[b] \/ job'[b].state = "completed",
           \A v \in Workers : On(v, b)' => On(v, b) /\ UNCHANGED act[v]
    PROVE  Over(b)'
BY DEF Over

\* Activations go on.
LEMMA GoesOnRefused ==
    ASSUME Sound, Faithful, NEW w \in Workers, GoesOn(w), NEW b \in Bookings, Refusal(b) \in events',
           Refusal(b) \in events => Over(b)
    PROVE  Over(b)'
<1>1. TypeOK /\ Running(w) /\ UNCHANGED job
  BY DEF Sound, GoesOn
<1>2. PICK c \in Bookings : c = act[w].booking
  BY <1>1, RunningTypes
<1>3. On(w, c) /\ act'[w].booking = c /\ \A v \in Workers : v # w => UNCHANGED act[v]
  BY <1>1, <1>2 DEF On, GoesOn
<1>4. CASE b # c
  <2>1. Refusal(b) \in events
    BY <1>2, <1>4 DEF GoesOn, Report, Refusal, Success, Failed
  <2>2. Recorded("DEBIT", b)' <=> Recorded("DEBIT", b)
    BY <1>2, <1>4 DEF GoesOn, Recorded, Stages
  <2>3. \A v \in Workers : On(v, b)' => On(v, b) /\ UNCHANGED act[v]
    BY <1>3, <1>4 DEF On, Running
  <2>. QED
    BY <1>1, <2>1, <2>2, <2>3, OverStays
<1>5. CASE b = c
  <2>1. Refusal(b) \notin events
    BY <1>3, <1>5 DEF Over, GoesOn
  <2>2. /\ act[w].pc \in Reporting /\ Report(w) = Refusal(b)
        /\ act'[w].pc = "return" /\ UNCHANGED transactions
    BY <2>1 DEF GoesOn
  <2>3. act[w].pc = "emitInsufficient"
    BY <2>2 DEF Report, Reporting, Refusal, Success, Failed, At
  <2>4. SeesAt(w, b, act[w].pc) /\ \A v \in Workers : On(v, b) => v = w
    BY <1>3, <1>5, OneIsOn
  <2>5. ~Recorded("DEBIT", b) /\ job[b].state = "active" /\ job[b].holder = w
    BY <2>3, <2>4 DEF SeesAt
  <2>6. \A v \in Workers : On(v, b)' => v = w
    BY <1>3, <2>4 DEF On, Running
  <2>7. ~Recorded("DEBIT", b)'
    BY <2>2, <2>5 DEF Recorded
  <2>. QED
    BY <1>1, <2>2, <2>5, <2>6, <2>7, PaymentAssumption DEF Over
<1>. QED
  BY <1>4, <1>5

LEMMA NextRefused ==
    ASSUME Sound, spent'.stalls = 0 => Faithful, Refused, [Next]_vars,
           forgotten \subseteq forgotten',
           \A b \in Bookings : ExpireJob(b) => b \in forgotten'
    PROVE  Refused'
<1>. SUFFICES ASSUME NEW b \in Bookings, Refusal(b) \in events', ~MayRerun(b)' PROVE Over(b)'
  BY DEF Refused, RefusedOf, Refusal, Failed
<1>1. TypeOK /\ TypeOK' /\ Later
  BY NextTypeOK, NextLater DEF Sound
<1>2. /\ spent \in [faults : Nat, crashes : Nat, stalls : Nat]
      /\ spent' \in [faults : Nat, crashes : Nat, stalls : Nat]
  BY <1>1 DEF TypeOK, SpentTypeOK
<1>3. b \notin forgotten' /\ spent'.crashes = 0 /\ spent'.stalls = 0
  BY <1>2 DEF MayRerun
<1>4. ~MayRerun(b)
  BY <1>1, <1>2, <1>3 DEF MayRerun, Later
<1>5. Refusal(b) \in events => Over(b)
  BY <1>4 DEF Refused, RefusedOf
<1>6. CASE NothingDone
  <2>1. /\ Recorded("DEBIT", b)' <=> Recorded("DEBIT", b)
        /\ UNCHANGED job /\ Refusal(b) \in events
        /\ \A v \in Workers : On(v, b)' => On(v, b) /\ UNCHANGED act[v]
    BY <1>6 DEF NothingDone, Stages, On, Running
  <2>. QED
    BY <1>5, <2>1, OverStays
<1>7. ASSUME NEW w \in Workers, GoesOn(w) PROVE Over(b)'
  BY <1>3, <1>5, <1>7, GoesOnRefused
<1>8. ASSUME NEW w \in Workers, Return(w) \/ AttemptFails(w) \/ Crash(w) PROVE Over(b)'
  <2>1. Over(b) /\ (Recorded("DEBIT", b)' <=> Recorded("DEBIT", b))
    BY <1>1, <1>5, <1>8, EndEffect DEF Recorded
  <2>2. \A v \in Workers : On(v, b)' => On(v, b) /\ UNCHANGED act[v]
    BY <1>1, <1>8, EndEffect DEF On, Running
  <2>3. ~Crash(w)
    BY <1>2, <1>3 DEF Crash
  <2>4. ~(AttemptFails(w) /\ On(w, b))
    BY <2>1 DEF AttemptFails, Over
  <2>5. UNCHANGED job[b] \/ job'[b].state = "completed"
    BY <1>1, <1>8, <2>3, <2>4, EndEffect
  <2>. QED
    BY <2>1, <2>2, <2>5, OverStays
<1>9. ASSUME NEW w \in Workers, NEW c \in Bookings, PickJob(w, c) PROVE Over(b)'
  <2>1. Over(b) /\ (Recorded("DEBIT", b)' <=> Recorded("DEBIT", b))
    BY <1>1, <1>5, <1>9, TakeEffect DEF Recorded
  <2>2. c # b
    BY <1>1, <1>9, <2>1, TakeEffect DEF Over
  <2>3. UNCHANGED job[b] /\ \A v \in Workers : On(v, b)' => On(v, b) /\ UNCHANGED act[v]
    BY <1>1, <1>9, <2>2, TakeEffect DEF On, Running
  <2>. QED
    BY <2>1, <2>3, OverStays
<1>10. ASSUME NEW c \in Bookings, QueueStep(c) PROVE Over(b)'
  <2>1. Over(b) /\ (Recorded("DEBIT", b)' <=> Recorded("DEBIT", b))
    BY <1>1, <1>5, <1>10, QueueEffect DEF Recorded
  <2>2. c # b
    <3>1. ~(spent'.stalls > 0) /\ ~ExpireJob(b)
      BY <1>2, <1>3
    <3>. QED
      BY <1>1, <1>10, <2>1, <3>1, QueueEffect DEF Over
  <2>3. UNCHANGED job[b] /\ \A v \in Workers : On(v, b)' => On(v, b) /\ UNCHANGED act[v]
    BY <1>1, <1>10, <2>2, QueueEffect DEF On, Running
  <2>. QED
    BY <2>1, <2>3, OverStays
<1>. QED
  BY <1>1, <1>6, <1>7, <1>8, <1>9, <1>10, WalletSteps DEF QueueStep

-----------------------------------------------------------------------------
(***************************************************************************)
(* The worker within the saga.                                             *)
(***************************************************************************)
WorkerCoherent ==
    /\ Sound /\ Followed /\ Limited /\ Refused
    /\ spent.stalls = 0 => Faithful /\ Answered

\* What the guest does elsewhere changes a balance alone, and none of these looks at one.
BalanceOnly == BalanceTypeOK' /\ UNCHANGED <<transactions, processorVars, topUpVars, forgotten>>

LEMMA ElsewhereKeeps == ASSUME WorkerCoherent, BalanceOnly PROVE WorkerCoherent'
<1>1. UNCHANGED <<transactions, job, act, events, moved, spent, request, credited, forgotten>>
  BY DEF BalanceOnly, processorVars, topUpVars
<1>2. TypeOK'
  BY <1>1, Untouched DEF WorkerCoherent, BalanceOnly, Sound, TypeOK, topUpVars
<1>3. \A s, b : Recorded(s, b)' <=> Recorded(s, b)
  BY <1>1 DEF Recorded
<1>4. EventsBacked' /\ LedgerBehindMoney'
  BY <1>1, <1>3 DEF WorkerCoherent, Sound, EventsBacked, LedgerBehindMoney
<1>5. \A w \in Workers : Knows(w)'
  BY <1>1, <1>3 DEF WorkerCoherent, Sound, Knows, Running
<1>6. Followed'
  BY <1>1 DEF WorkerCoherent, Followed, Tended, Outcomes, WithinLimits, Stalled, Abandoned, On, Running
<1>7. Limited'
  BY <1>1 DEF WorkerCoherent, Limited, LimitedTo, WithinLimits, Stalled, Abandoned
<1>8. Refused'
  BY <1>1, <1>3 DEF WorkerCoherent, Refused, RefusedOf, Refusal, MayRerun, Over, On, Running
<1>9. ASSUME Faithful PROVE Faithful'
  BY <1>1, <1>3, <1>9 DEF Faithful, Sees, SeesAt, Settled, Running
<1>10. ASSUME Answered PROVE Answered'
  BY <1>1, <1>3, <1>10 DEF Answered, AnsweredOf, Told, WithinLimits, On, Running
<1>. QED
  BY <1>1, <1>2, <1>4, <1>5, <1>6, <1>7, <1>8, <1>9, <1>10 DEF WorkerCoherent, Sound

\* A step of the wallet service that lets a job expire only with a note of it.
Noted == forgotten \subseteq forgotten' /\ \A b \in Bookings : ExpireJob(b) => b \in forgotten'

LEMMA WorkerKeeps == ASSUME WorkerCoherent, [Next]_vars, Noted PROVE WorkerCoherent'
<1>1. Sound /\ TypeOK /\ Followed /\ Limited /\ Refused
  BY DEF WorkerCoherent, Sound
<1>2. Sound' /\ Followed' /\ Limited'
  BY <1>1, NextSound, NextFollowed, NextLimited
<1>3. Later /\ spent \in [faults : Nat, crashes : Nat, stalls : Nat]
  BY <1>1, NextLater DEF TypeOK, SpentTypeOK
<1>4. ASSUME spent'.stalls = 0 PROVE Faithful /\ Answered
  BY <1>3, <1>4 DEF Later, WorkerCoherent
<1>5. spent'.stalls = 0 => Faithful' /\ Answered'
  BY <1>1, <1>2, <1>4, NextFaithful, NextAnswered
<1>6. Refused'
  BY <1>1, <1>4, NextRefused DEF Noted
<1>. QED
  BY <1>2, <1>5, <1>6 DEF WorkerCoherent

\* An activation frees no job id.
LEMMA NotFreed ==
    ASSUME TypeOK, NEW w \in Workers, HandlerStep(w) \/ Disturbance(w), NEW b \in Bookings
    PROVE  job'[b].state # "none" \/ job[b].state = "none"
<1>1. CASE (HandlerStep(w) /\ ~Return(w)) \/ CreditFails(w) \/ CreditUnacknowledged(w)
  BY <1>1, HandlerGoesOn DEF GoesOn
<1>2. CASE Return(w) \/ AttemptFails(w) \/ Crash(w)
  BY <1>2, EndEffect
<1>. QED
  BY <1>1, <1>2 DEF Disturbance

\* Neither does any step but JobExpires.
LEMMA NotedUnless ==
    ASSUME TypeOK, UNCHANGED forgotten,
           \A b \in Bookings : job'[b].state # "none" \/ job[b].state = "none"
    PROVE  Noted
<1>1. ASSUME NEW b \in Bookings, ExpireJob(b) PROVE FALSE
  <2>1. QueueStep(b)
    BY <1>1 DEF QueueStep
  <2>2. job[b].state \in {"completed", "failed"} /\ job'[b].state = "none"
    BY <1>1, <2>1, QueueEffect DEF ExpireJob
  <2>. QED
    BY <2>2
<1>. QED
  BY <1>1 DEF Noted

\* No step of the saga disturbs the worker.
LEMMA SagaWorker ==
    ASSUME WorkerCoherent, [SagaNext]_sagaVars
    PROVE  WorkerCoherent'
<1>1. TypeOK
  BY DEF WorkerCoherent, Sound
<1>2. ASSUME UNCHANGED <<vars, forgotten>> PROVE WorkerCoherent'
  <2>1. Noted
    BY <1>1, <1>2, NotedUnless DEF vars, processorVars
  <2>. QED
    BY <1>2, <2>1, WorkerKeeps
<1>3. ASSUME NEW b \in Bookings, Elsewhere(b) PROVE WorkerCoherent'
  <2>1. PICK n \in Sums : balance' = [balance EXCEPT ![Guest[b]] = n]
    BY <1>3 DEF Elsewhere
  <2>2. BalanceTypeOK'
    BY <1>1, <2>1, SagaAssumption DEF TypeOK, BalanceTypeOK
  <2>. QED
    BY <1>3, <2>2, ElsewhereKeeps DEF Elsewhere, BalanceOnly, restVars
<1>4. ASSUME NEW w \in Workers, Works(w) \/ Breaks(w) PROVE WorkerCoherent'
  <2>1. Handle(w) \/ Disturb(w)
    BY <1>4 DEF Works, Breaks
  <2>2. UNCHANGED forgotten
    BY <1>4 DEF Works, Breaks, restVars
  <2>3. \A b \in Bookings : job'[b].state # "none" \/ job[b].state = "none"
    BY <1>1, <2>1, NotFreed DEF Handle, Disturb
  <2>4. Noted
    BY <1>1, <2>2, <2>3, NotedUnless
  <2>. QED
    BY <2>1, <2>4, WorkerKeeps DEF Next
<1>5. ASSUME NEW b \in Bookings, EnqueuePaymentJob(b) \/ LockExpires(b), UNCHANGED <<topUpVars, forgotten>>
      PROVE  WorkerCoherent'
  <2>1. QueueStep(b)
    BY <1>5 DEF QueueStep
  <2>2. \A c \in Bookings : job'[c].state # "none" \/ job[c].state = "none"
    BY <1>1, <1>5, <2>1, QueueEffect DEF EnqueuePaymentJob, LockExpires
  <2>. QED
    BY <1>1, <1>5, <2>1, <2>2, NotedUnless, WorkerKeeps DEF Next, Queue
<1>6. ASSUME NEW b \in Bookings, JobExpires(b) PROVE WorkerCoherent'
  <2>1. QueueStep(b) /\ UNCHANGED topUpVars /\ forgotten' = forgotten \cup {b}
    BY <1>6 DEF JobExpires, QueueStep
  <2>2. ASSUME NEW c \in Bookings, ExpireJob(c) PROVE c \in forgotten'
    <3>1. job[c].state \in {"completed", "failed"} /\ job'[c].state = "none"
      <4>1. QueueStep(c)
        BY <2>2 DEF QueueStep
      <4>. QED
        BY <1>1, <2>2, <4>1, QueueEffect DEF ExpireJob
    <3>2. c = b
      BY <1>1, <2>1, <3>1, QueueEffect
    <3>. QED
      BY <2>1, <3>2
  <2>3. Noted
    BY <2>1, <2>2 DEF Noted
  <2>. QED
    BY <2>1, <2>3, WorkerKeeps DEF Next, Queue
<1>7. ASSUME NEW w \in Workers, NEW b \in Bookings, TakesJob(w, b) PROVE WorkerCoherent'
  <2>1. TakeJob(w, b) /\ PickJob(w, b) /\ UNCHANGED forgotten
    BY <1>7 DEF TakesJob, TakeJob, restVars
  <2>2. \A c \in Bookings : job'[c].state # "none" \/ job[c].state = "none"
    BY <1>1, <2>1, TakeEffect
  <2>. QED
    BY <1>1, <2>1, <2>2, NotedUnless, WorkerKeeps DEF Next
<1>8. ASSUME NEW e \in Messages, Consume(e), UNCHANGED forgotten PROVE WorkerCoherent'
  <2>1. CASE UNCHANGED vars
    BY <1>2, <1>8, <2>1
  <2>2. CASE ~UNCHANGED vars
    <3>1. e.type = "BOOKING_CREATED" /\ Enqueue(e.booking)
      BY <1>8, <2>2 DEF Consume
    <3>2. PICK b \in Bookings : b = e.booking
      BY <3>1 DEF Messages, Events, Created, Success, Failed
    <3>. QED
      BY <1>5, <1>8, <2>2, <3>1, <3>2 DEF Enqueue
  <2>. QED
    BY <2>1, <2>2
<1>9. CASE UNCHANGED sagaVars
  BY <1>2, <1>9 DEF sagaVars, restVars
<1>10. CASE TheGuest
  BY <1>2, <1>3, <1>10 DEF TheGuest, GuestCancels, GuestProceeds, restVars
<1>11. CASE TheCall
  BY <1>2, <1>11 DEF TheCall, ReadBalance, ReadPending, MarkProcessing, MarkFailed, EmitBookingCreated,
     AskRepeated, MarkProcessingRepeated, AskUnanswered, CallDies, Ask
<1>12. ASSUME NEW q, NEW e \in Messages, Deliver(q, e) \/ Redeliver(q, e) \/ HandlerThrows(q, e)
       PROVE  WorkerCoherent'
  BY <1>2, <1>8, <1>12 DEF Deliver, Redeliver, HandlerThrows
<1>13. CASE TheOutcomes
  BY <1>2, <1>13 DEF TheOutcomes, ReadForOutcome, WriteOutcome, OutcomeRedelivered, OutcomeThrows, restVars
<1>14. CASE TheQueue
  BY <1>5, <1>6, <1>7, <1>14 DEF TheQueue, JobStalls, restVars
<1>. QED
  BY <1>4, <1>9, <1>10, <1>11, <1>12, <1>13, <1>14 DEF SagaNext, TheQueues

-----------------------------------------------------------------------------
(***************************************************************************)
(* The messages and the booking columns.                                   *)
(***************************************************************************)
\* Only what was published is on its way, or known to anybody.
Published ==
    /\ queue["booking"] \cup queue["notification"] \cup notices \subseteq events
    /\ \A e \in Events : held[e] > 0 => e \in events

\* What the columns of a booking, and a cancellation that has read them, say was reported.
ColumnsOf(b) ==
    /\ BookingService!StatusIs(b, "CONFIRMED") => Success(b) \in events
    /\ booking[b].payment = "SUCCESS" \/ leaving[b] = "SUCCESS" => Success(b) \in events
    /\ b \in asked \ dropped =>
          /\ BookingService!StatusIs(b, "CANCELLED") => Success(b) \in events
          /\ BookingService!StatusIs(b, "FAILED") => \E e \in events : e.booking = b /\ e.type = "PAYMENT_FAILED"

\* A report is on its way to its consumers until they have acted on it.
CarriedTo(e) ==
    /\ ~BookingService!Pending(e.booking) \/ e \in queue["booking"] \/ held[e] > 0 \/ e.booking \in lost
    /\ e \in notices \cup queue["notification"] \/ e.booking \in lost

\* A payment that was asked for has a message, a job, or a report.
StartedOf(b) ==
    b \in asked \ lost /\ WithinLimits =>
        Created(b) \in queue["wallet"] \/ job[b].state # "none" \/ Outcomes(b) # {}

Carried ==
    /\ Published
    /\ \A b \in Bookings : ColumnsOf(b) /\ StartedOf(b)
    /\ \A e \in events : CarriedTo(e)

Coherent == SagaTypeOK /\ WorkerCoherent /\ Carried

LEMMA MessageKinds ==
    /\ \A b : Created(b).booking = b /\ Created(b).type = "BOOKING_CREATED"
    /\ \A b : Success(b).booking = b /\ Success(b).type = "PAYMENT_SUCCESS"
    /\ \A b, r : Failed(b, r).booking = b /\ Failed(b, r).type = "PAYMENT_FAILED" /\ Failed(b, r).reason = r
    /\ \A e \in Events :
          /\ e.booking \in Bookings
          /\ \/ e = Success(e.booking)
             \/ \E r \in {"CREDIT_FAILED_REFUNDED", "INSUFFICIENT_BALANCE"} : e = Failed(e.booking, r)
    /\ \A e \in Messages \ Events : e.booking \in Bookings /\ e = Created(e.booking)
    /\ \A b \in Bookings : Created(b) \in Messages \ Events
    /\ Events \subseteq Messages
<1>1. /\ \A b : Created(b).booking = b /\ Created(b).type = "BOOKING_CREATED"
      /\ \A b : Success(b).booking = b /\ Success(b).type = "PAYMENT_SUCCESS"
      /\ \A b, r : Failed(b, r).booking = b /\ Failed(b, r).type = "PAYMENT_FAILED" /\ Failed(b, r).reason = r
  BY DEF Created, Success, Failed
<1>2. \A e \in Events :
         \E b \in Bookings :
            e = Success(b) \/ \E r \in {"CREDIT_FAILED_REFUNDED", "INSUFFICIENT_BALANCE"} : e = Failed(b, r)
  BY DEF Events
<1>3. \A e \in Events : e.type # "BOOKING_CREATED"
  BY <1>1, <1>2
<1>. QED
  BY <1>1, <1>2, <1>3 DEF Messages

\* What a booking's columns say depends on these.
LEMMA ColumnsStay ==
    ASSUME NEW b \in Bookings, ColumnsOf(b), events \subseteq events',
           UNCHANGED <<booking[b], leaving[b]>>,
           b \in (asked \ dropped)' => b \in asked \ dropped
    PROVE  ColumnsOf(b)'
BY DEF ColumnsOf, BookingService!StatusIs, Success

\* So does what was started.
LEMMA StartedStays ==
    ASSUME TypeOK, TypeOK', Later, NEW b \in Bookings, StartedOf(b), lost \subseteq lost',
           b \in asked' => b \in asked,
           Created(b) \in queue["wallet"] => Created(b) \in queue'["wallet"],
           job[b].state = "none" \/ job'[b].state # "none"
    PROVE  StartedOf(b)'
<1>1. WithinLimits' => WithinLimits
  BY LimitsShrink DEF TypeOK
<1>2. Outcomes(b) # {} => Outcomes(b)' # {}
  BY OutcomesStay
<1>. QED
  BY <1>1, <1>2 DEF StartedOf, Created

\* The parts of the types that the booking service has in its hands.
BookingTyped ==
    /\ booking \in [Bookings -> BookingService!BookingStates]
    /\ held \in [Events -> Nat]
    /\ leaving \in [Bookings -> BookingService!PaymentStates \cup {"none"}]
    /\ asked \cup dropped \subseteq Bookings

\* The wallet service and the bus stand still.
Still == UNCHANGED <<job, act, events, moved, spent, queue, lost, notices>>

LEMMA StillStays ==
    ASSUME Coherent, Still, TypeOK', UNCHANGED held,
           \A b \in Bookings : ColumnsOf(b)' /\ (b \in asked' => b \in asked),
           \A b \in Bookings : BookingService!Pending(b)' => BookingService!Pending(b)
    PROVE  Carried'
<1>1. Later /\ TypeOK /\ events \subseteq Events
  BY DEF Still, Later, Coherent, SagaTypeOK, TypeOK, SpentTypeOK, ReportTypeOK
<1>2. \A b \in Bookings : StartedOf(b)'
  BY <1>1, StartedStays DEF Still, Coherent, Carried
<1>3. \A e \in events : CarriedTo(e)'
  BY <1>1, MessageKinds DEF Still, Coherent, Carried, CarriedTo
<1>4. Published'
  BY DEF Still, Coherent, Carried, Published
<1>. QED
  BY <1>2, <1>3, <1>4 DEF Carried, Still

\* The operations that end no payment by an event.
LEMMA OperationsStay ==
    ASSUME Coherent, Still, TypeOK', NEW b \in Bookings,
           \/ BookingService!ReadForCancel(b) \/ BookingService!Cancel(b)
           \/ BookingService!MarkProcessing(b) \/ BookingService!MarkFailed(b)
    PROVE  Carried' /\ BookingTyped'
<1>. USE DEF BookingService!Pending, BookingService!StatusIs
<1>1. /\ booking \in [Bookings -> BookingService!BookingStates] /\ held \in [Events -> Nat]
      /\ leaving \in [Bookings -> BookingService!PaymentStates \cup {"none"}]
      /\ asked \cup dropped \subseteq Bookings
      /\ \A c \in Bookings : ColumnsOf(c)
  BY DEF Coherent, SagaTypeOK, Carried
<1>2. events' = events /\ \A c : Success(c)' = Success(c)
  BY DEF Still, Success
<1>3. /\ booking[b] \in BookingService!BookingStates
      /\ booking[b].payment \in BookingService!PaymentStates
  BY <1>1 DEF BookingService!BookingStates
<1>4. ASSUME BookingService!ReadForCancel(b)
      PROVE  /\ UNCHANGED <<held, booking, asked, dropped>> /\ BookingTyped'
             /\ \A c \in Bookings : ColumnsOf(c)'
  <2>1. /\ leaving' = [leaving EXCEPT ![b] = booking[b].payment]
        /\ UNCHANGED <<held, booking, asked, dropped>>
    BY <1>4 DEF BookingService!ReadForCancel
  <2>2. \A c \in Bookings : leaving'[c] = IF c = b THEN booking[b].payment ELSE leaving[c]
    BY <1>1, <2>1
  <2>3. BookingTyped'
    BY <1>1, <1>3, <2>1 DEF BookingTyped
  <2>4. \A c \in Bookings : ColumnsOf(c)'
    BY <1>1, <1>2, <2>1, <2>2 DEF ColumnsOf
  <2>. QED
    BY <2>1, <2>3, <2>4
<1>5. ASSUME BookingService!MarkProcessing(b)
      PROVE  /\ UNCHANGED <<held, asked, dropped>> /\ BookingTyped'
             /\ \A c \in Bookings : booking'[c].status = booking[c].status
             /\ \A c \in Bookings : ColumnsOf(c)'
  <2>1. /\ booking' = [booking EXCEPT ![b].payment = "PROCESSING"]
        /\ UNCHANGED <<held, leaving, asked, dropped>>
    BY <1>5 DEF BookingService!MarkProcessing
  <2>2. \A c \in Bookings : /\ booking'[c].status = booking[c].status
                            /\ booking'[c].payment = IF c = b THEN "PROCESSING" ELSE booking[c].payment
    BY <1>1, <2>1 DEF BookingService!BookingStates
  <2>3. BookingTyped'
    BY <1>1, <1>3, <2>1 DEF BookingTyped, BookingService!BookingStates, BookingService!PaymentStates
  <2>4. \A c \in Bookings : ColumnsOf(c)'
    BY <1>1, <1>2, <2>1, <2>2 DEF ColumnsOf
  <2>. QED
    BY <2>1, <2>2, <2>3, <2>4
<1>6. ASSUME BookingService!Cancel(b) \/ BookingService!MarkFailed(b)
      PROVE  /\ UNCHANGED <<held, asked>> /\ BookingTyped'
             /\ \A c \in Bookings : c # b => booking'[c].status = booking[c].status
             /\ booking'[b].status # "PENDING_PAYMENT"
             /\ \A c \in Bookings : ColumnsOf(c)'
  <2>1. PICK st \in {"CANCELLED", "FAILED"}, pay \in BookingService!PaymentStates :
           /\ booking' = [booking EXCEPT ![b] = [status |-> st, payment |-> pay]]
           /\ pay = "SUCCESS" => leaving[b] = "SUCCESS"
           /\ dropped' = (IF b \in asked THEN dropped \cup {b} ELSE dropped)
                 \/ (dropped' = dropped /\ st = "CANCELLED" /\ leaving[b] = "SUCCESS")
    <3>1. CASE BookingService!MarkFailed(b)
      BY <3>1 DEF BookingService!MarkFailed, BookingService!Update, BookingService!EndUnpaid,
         BookingService!PaymentStates
    <3>2. CASE BookingService!Cancel(b) /\ leaving[b] = "SUCCESS"
      BY <3>2 DEF BookingService!Cancel, BookingService!Update, BookingService!PaymentStates
    <3>3. CASE BookingService!Cancel(b) /\ leaving[b] # "SUCCESS"
      <4>1. leaving[b] \in BookingService!PaymentStates
        BY <1>1, <3>3 DEF BookingService!Cancel
      <4>. QED
        BY <3>3, <4>1 DEF BookingService!Cancel, BookingService!Update, BookingService!EndUnpaid
    <3>. QED
      BY <1>6, <3>1, <3>2, <3>3
  <2>2. /\ UNCHANGED <<held, asked>>
        /\ leaving' = leaving \/ leaving' = [leaving EXCEPT ![b] = "none"]
    BY <1>6 DEF BookingService!Cancel, BookingService!MarkFailed
  <2>3. /\ booking'[b].status = st /\ booking'[b].payment = pay
        /\ \A c \in Bookings : c # b => booking'[c] = booking[c]
    BY <1>1, <2>1
  <2>4. \A c \in Bookings : leaving'[c] = leaving[c] \/ (c = b /\ leaving'[c] = "none")
    BY <1>1, <2>2
  <2>5. BookingTyped'
    BY <1>1, <2>1, <2>2 DEF BookingTyped, BookingService!BookingStates
  <2>6. ASSUME NEW c \in Bookings, c # b PROVE ColumnsOf(c)'
    BY <1>1, <1>2, <2>1, <2>2, <2>3, <2>4, <2>6, ColumnsStay
  <2>7. ColumnsOf(b)'
    <3>1. b \in (asked \ dropped)' => st = "CANCELLED" /\ leaving[b] = "SUCCESS"
      BY <2>1, <2>2
    <3>2. leaving[b] = "SUCCESS" => Success(b) \in events
      BY <1>1 DEF ColumnsOf
    <3>. QED
      BY <1>2, <2>1, <2>3, <2>4, <3>1, <3>2 DEF ColumnsOf
  <2>. QED
    BY <2>1, <2>2, <2>3, <2>5, <2>6, <2>7
<1>7. /\ UNCHANGED <<held, asked>> /\ BookingTyped' /\ \A c \in Bookings : ColumnsOf(c)'
      /\ \A c \in Bookings : booking'[c].status = "PENDING_PAYMENT" => booking[c].status = "PENDING_PAYMENT"
  BY <1>4, <1>5, <1>6
<1>. QED
  BY <1>7, StillStays

QueueTyped ==
    /\ queue \in [Queues -> SUBSET Messages]
    /\ queue["wallet"] \cap Events = {}
    /\ queue["booking"] \cup queue["notification"] \subseteq Events

\* A publish reaches the queues that are bound to it.
LEMMA PublishEffect ==
    ASSUME QueueTyped, NEW e \in Messages, PublishEvent(e)
    PROVE  /\ QueueTyped'
           /\ e \in Events => /\ queue'["wallet"] = queue["wallet"]
                              /\ queue'["booking"] = queue["booking"] \cup {e}
                              /\ queue'["notification"] = queue["notification"] \cup {e}
           /\ e \notin Events => /\ queue'["wallet"] = queue["wallet"] \cup {e}
                                 /\ queue'["booking"] = queue["booking"]
                                 /\ queue'["notification"] = queue["notification"]
<1>1. \A q \in Queues : queue'[q] = IF e.type \in Bindings[q] THEN queue[q] \cup {e} ELSE queue[q]
  BY DEF PublishEvent
<1>2. /\ queue'["wallet"] = IF e.type = "BOOKING_CREATED" THEN queue["wallet"] \cup {e} ELSE queue["wallet"]
      /\ queue'["booking"] = IF e.type \in {"PAYMENT_SUCCESS", "PAYMENT_FAILED"}
                             THEN queue["booking"] \cup {e} ELSE queue["booking"]
      /\ queue'["notification"] = IF e.type \in {"PAYMENT_SUCCESS", "PAYMENT_FAILED"}
                                  THEN queue["notification"] \cup {e} ELSE queue["notification"]
  BY <1>1 DEF Bindings, Queues
<1>3. e \in Events => e.type \in {"PAYMENT_SUCCESS", "PAYMENT_FAILED"}
  BY MessageKinds
<1>4. e \notin Events => e.type = "BOOKING_CREATED"
  BY MessageKinds
<1>5. queue' \in [Queues -> SUBSET Messages]
  BY DEF PublishEvent, QueueTyped
<1>. QED
  BY <1>2, <1>3, <1>4, <1>5 DEF QueueTyped

LEMMA TakeTyped ==
    ASSUME QueueTyped, NEW q \in Queues, NEW e, Take(q, e)
    PROVE  /\ QueueTyped' /\ e \in Messages /\ e \in queue[q] /\ (e \in Events <=> q # "wallet")
           /\ \A p \in Queues : queue'[p] = IF p = q THEN queue[p] \ {e} ELSE queue[p]
<1>1. e \in queue[q] /\ queue \in [Queues -> SUBSET Messages] /\ queue' = [queue EXCEPT ![q] = @ \ {e}]
  BY DEF QueueTyped, Take
<1>2. \A p \in Queues : queue'[p] = IF p = q THEN queue[p] \ {e} ELSE queue[p]
  BY <1>1
<1>3. q \in {"wallet", "booking", "notification"} /\ e \in Messages
  BY <1>1 DEF Queues
<1>4. e \in Events <=> q # "wallet"
  BY <1>1, <1>3 DEF QueueTyped
<1>5. /\ queue'["wallet"] \subseteq queue["wallet"] /\ queue'["booking"] \subseteq queue["booking"]
      /\ queue'["notification"] \subseteq queue["notification"]
  BY <1>2 DEF Queues
<1>6. queue' \in [Queues -> SUBSET Messages]
  BY <1>1
<1>. QED
  BY <1>1, <1>2, <1>3, <1>4, <1>5, <1>6 DEF QueueTyped

\* A request for a payment.
LEMMA AskStays ==
    ASSUME Coherent, TypeOK', UNCHANGED <<vars, lost, notices>>, NEW b \in Bookings,
           PublishEvent(Created(b)), BookingService!AskForPayment(b)
    PROVE  Carried' /\ BookingTyped' /\ QueueTyped'
<1>1. TypeOK /\ QueueTyped /\ BookingTyped
  BY DEF Coherent, SagaTypeOK, QueueTyped, BookingTyped
<1>2. /\ UNCHANGED <<booking, held, leaving, job, events, spent, lost, notices>>
      /\ asked' = asked \cup {b}
      /\ dropped' = IF BookingService!StatusIs(b, "CANCELLED") \/ BookingService!StatusIs(b, "FAILED")
                    THEN dropped \cup {b} ELSE dropped
  BY DEF BookingService!AskForPayment, vars, processorVars
<1>3. /\ QueueTyped' /\ queue'["wallet"] = queue["wallet"] \cup {Created(b)}
      /\ queue'["booking"] = queue["booking"] /\ queue'["notification"] = queue["notification"]
  BY <1>1, MessageKinds, PublishEffect
<1>4. BookingTyped'
  BY <1>1, <1>2 DEF BookingTyped
<1>5. Later
  BY <1>1, <1>2 DEF Later, TypeOK, SpentTypeOK
<1>6. ASSUME NEW c \in Bookings PROVE ColumnsOf(c)'
  <2>1. CASE c \in (asked \ dropped)' => c \in asked \ dropped
    BY <1>2, <2>1, ColumnsStay DEF Coherent, Carried
  <2>2. CASE ~(c \in (asked \ dropped)' => c \in asked \ dropped)
    <3>1. c = b /\ ~BookingService!StatusIs(b, "CANCELLED") /\ ~BookingService!StatusIs(b, "FAILED")
      BY <1>2, <2>2
    <3>2. booking[b].status \notin {"CANCELLED", "FAILED"}
      BY <3>1 DEF BookingService!StatusIs
    <3>3. ColumnsOf(b)
      BY DEF Coherent, Carried
    <3>. QED
      BY <1>2, <3>1, <3>2, <3>3 DEF ColumnsOf, BookingService!StatusIs, Success
  <2>. QED
    BY <2>1, <2>2
<1>7. ASSUME NEW c \in Bookings PROVE StartedOf(c)'
  <2>1. CASE c = b
    BY <1>3, <2>1 DEF StartedOf, Created
  <2>2. CASE c # b
    BY <1>1, <1>2, <1>3, <1>5, <2>2, StartedStays DEF Coherent, Carried
  <2>. QED
    BY <2>1, <2>2
<1>8. ASSUME NEW e \in events PROVE CarriedTo(e)'
  BY <1>2, <1>3 DEF Coherent, Carried, CarriedTo, BookingService!Pending, BookingService!StatusIs
<1>9. Published'
  BY <1>2, <1>3 DEF Coherent, Carried, Published
<1>. QED
  BY <1>2, <1>3, <1>4, <1>6, <1>7, <1>8, <1>9 DEF Carried

\* The steps of the bus and of the booking service's consumer.
LEMMA MessagesStay ==
    ASSUME Coherent, TypeOK', Later, UNCHANGED <<events, asked, dropped, leaving>>,
           notices \subseteq notices', lost \subseteq lost',
           \A b \in Bookings : job[b].state = "none" \/ job'[b].state # "none",
           \A b \in Bookings : Created(b) \in queue["wallet"] =>
              Created(b) \in queue'["wallet"] \/ job'[b].state # "none" \/ b \in lost',
           \A b \in Bookings : ColumnsOf(b)',
           \A b \in Bookings : BookingService!Pending(b)' => BookingService!Pending(b),
           \A e \in events :
              /\ e \in queue["booking"] \/ held[e] > 0 =>
                    ~BookingService!Pending(e.booking)' \/ e \in queue'["booking"] \/ held'[e] > 0
                       \/ e.booking \in lost'
              /\ e \in queue["notification"] => e \in queue'["notification"] \cup notices' \/ e.booking \in lost',
           Published'
    PROVE  Carried'
<1>1. TypeOK /\ events \subseteq Events
  BY DEF Coherent, SagaTypeOK, TypeOK, ReportTypeOK
<1>2. WithinLimits' => WithinLimits
  BY <1>1, LimitsShrink DEF TypeOK
<1>3. ASSUME NEW b \in Bookings PROVE StartedOf(b)'
  <2>1. StartedOf(b) /\ Outcomes(b)' = Outcomes(b)
    BY DEF Coherent, Carried, Outcomes
  <2>. QED
    BY <1>2, <2>1 DEF StartedOf, Created
<1>4. ASSUME NEW e \in events PROVE CarriedTo(e)'
  <2>1. CarriedTo(e) /\ e.booking \in Bookings
    BY <1>1, MessageKinds DEF Coherent, Carried
  <2>2. BookingService!Pending(e.booking)' => BookingService!Pending(e.booking)
    BY <2>1
  <2>. QED
    BY <2>1, <2>2 DEF CarriedTo
<1>. QED
  BY <1>3, <1>4 DEF Carried

LEMMA ConsumeEffect ==
    ASSUME TypeOK, NEW e \in Messages, Consume(e)
    PROVE  /\ UNCHANGED <<act, events, moved, spent>>
           /\ \A b \in Bookings : job[b].state = "none" \/ job'[b].state # "none"
           /\ e \notin Events => UNCHANGED notices /\ job'[e.booking].state # "none"
           /\ e \in Events => notices' = notices \cup {e}
<1>1. CASE e \in Events
  BY <1>1, MessageKinds DEF Consume, vars, processorVars
<1>2. CASE e \notin Events
  <2>1. PICK b \in Bookings : b = e.booking /\ e = Created(b)
    BY <1>2, MessageKinds
  <2>2. Enqueue(b) /\ UNCHANGED notices
    BY <2>1, MessageKinds DEF Consume
  <2>3. CASE job[b].state = "none"
    <3>1. QueueStep(b) /\ EnqueuePaymentJob(b)
      BY <2>2, <2>3 DEF Enqueue, QueueStep
    <3>. QED
      BY <1>2, <2>1, <2>2, <2>3, <3>1, QueueEffect DEF EnqueuePaymentJob
  <2>4. CASE job[b].state # "none"
    BY <1>2, <2>1, <2>2, <2>4 DEF Enqueue, vars, processorVars
  <2>. QED
    BY <2>3, <2>4
<1>. QED
  BY <1>1, <1>2

\* What is known of the booking columns when only messages move.
LEMMA SameColumns ==
    ASSUME Coherent, UNCHANGED bookingVars, events \subseteq events'
    PROVE  /\ BookingTyped' /\ \A b \in Bookings : ColumnsOf(b)'
           /\ \A b : BookingService!Pending(b)' <=> BookingService!Pending(b)
<1>1. UNCHANGED <<booking, held, leaving, asked, dropped>> /\ BookingTyped
  BY DEF bookingVars, Coherent, SagaTypeOK, BookingTyped
<1>. QED
  BY <1>1, ColumnsStay DEF Coherent, Carried, BookingTyped, BookingService!Pending, BookingService!StatusIs

LEMMA BusStays ==
    ASSUME Coherent, TypeOK', NEW q \in Queues, NEW e \in Messages,
           Deliver(q, e) \/ Redeliver(q, e) \/ HandlerThrows(q, e)
    PROVE  Carried' /\ BookingTyped' /\ QueueTyped' /\ notices' \subseteq Events /\ lost' \subseteq Bookings
<1>1. TypeOK /\ QueueTyped /\ notices \subseteq Events /\ lost \subseteq Bookings /\ e.booking \in Bookings
  BY MessageKinds DEF Coherent, SagaTypeOK, QueueTyped
<1>2. UNCHANGED <<booking, held, leaving, asked, dropped>>
  BY DEF Deliver, Redeliver, HandlerThrows, bookingVars
<1>3. CASE HandlerThrows(q, e)
  <2>1. /\ UNCHANGED <<job, act, events, moved, spent, notices>> /\ Take(q, e)
        /\ lost' = lost \cup {e.booking}
    BY <1>3 DEF HandlerThrows, Nack, vars, processorVars
  <2>2. /\ QueueTyped' /\ \A p \in Queues : queue'[p] = IF p = q THEN queue[p] \ {e} ELSE queue[p]
    BY <1>1, <2>1, TakeTyped
  <2>3. \A p \in Queues : queue'[p] \subseteq queue[p] /\ queue[p] \subseteq queue'[p] \cup {e}
    BY <2>2
  <2>4. Later /\ Published'
    BY <1>1, <1>2, <2>1, <2>3 DEF Later, TypeOK, SpentTypeOK, Coherent, Carried, Published, Queues
  <2>5. \A b \in Bookings : Created(b) \in queue["wallet"] =>
           Created(b) \in queue'["wallet"] \/ b \in lost'
    BY <2>1, <2>3, MessageKinds DEF Queues
  <2>6. \A d \in events :
           /\ d \in queue["booking"] => d \in queue'["booking"] \/ d.booking \in lost'
           /\ d \in queue["notification"] => d \in queue'["notification"] \/ d.booking \in lost'
    BY <2>1, <2>3 DEF Queues
  <2>. QED
    BY <1>1, <1>2, <2>1, <2>2, <2>4, <2>5, <2>6, SameColumns, MessagesStay DEF bookingVars
<1>4. ASSUME Deliver(q, e) \/ Redeliver(q, e)
      PROVE  /\ Carried' /\ BookingTyped' /\ QueueTyped' /\ notices' \subseteq Events
             /\ lost' \subseteq Bookings
  <2>1. Consume(e) /\ UNCHANGED lost /\ q # "booking"
    BY <1>4 DEF Deliver, Redeliver, busVars
  <2>2. /\ UNCHANGED <<act, events, moved, spent>>
        /\ \A b \in Bookings : job[b].state = "none" \/ job'[b].state # "none"
        /\ e \notin Events => UNCHANGED notices /\ job'[e.booking].state # "none"
        /\ e \in Events => notices' = notices \cup {e}
    BY <1>1, <2>1, ConsumeEffect
  <2>3. /\ QueueTyped' /\ e \in queue[q] /\ (e \in Events <=> q # "wallet")
        /\ \A p \in Queues : queue'[p] \subseteq queue[p] /\ queue[p] \subseteq queue'[p] \cup {e}
        /\ \A p \in Queues : p # q => queue'[p] = queue[p]
    <3>1. CASE Take(q, e)
      BY <1>1, <3>1, TakeTyped
    <3>2. CASE e \in queue[q] /\ UNCHANGED queue
      BY <1>1, <3>2 DEF QueueTyped, Queues
    <3>. QED
      BY <1>4, <3>1, <3>2 DEF Deliver, Redeliver, busVars
  <2>4. queue'["booking"] = queue["booking"]
    BY <2>1, <2>3 DEF Queues
  <2>5. notices \subseteq notices' /\ notices' \subseteq notices \cup {e} /\ notices' \subseteq Events
    BY <1>1, <2>2
  <2>6. \A d \in queue["notification"] : d \in queue'["notification"] \cup notices'
    <3>1. \A d \in queue["notification"] : d \in queue'["notification"] \/ d = e
      BY <2>3 DEF Queues
    <3>2. e \in queue["notification"] => e \in Events
      BY <1>1 DEF QueueTyped
    <3>. QED
      BY <2>2, <3>1, <3>2
  <2>7. \A b \in Bookings : Created(b) \in queue["wallet"] =>
           Created(b) \in queue'["wallet"] \/ job'[b].state # "none"
    <3>1. \A b \in Bookings : Created(b) \in queue["wallet"] => Created(b) \in queue'["wallet"] \/ Created(b) = e
      BY <2>3 DEF Queues
    <3>. QED
      BY <2>2, <3>1, MessageKinds
  <2>8. Later
    BY <1>1, <2>2 DEF Later, TypeOK, SpentTypeOK
  <2>9. Published'
    <3>1. e \in Events => q = "notification" /\ e \in events
      BY <2>1, <2>3 DEF Queues, Coherent, Carried, Published
    <3>2. /\ queue'["booking"] \subseteq events /\ queue'["notification"] \subseteq events
          /\ notices \subseteq events
      BY <2>3 DEF Coherent, Carried, Published, Queues
    <3>. QED
      BY <1>2, <2>2, <3>1, <3>2 DEF Coherent, Carried, Published
  <2>. QED
    BY <1>1, <1>2, <2>1, <2>2, <2>3, <2>4, <2>5, <2>6, <2>7, <2>8, <2>9, SameColumns, MessagesStay
    DEF bookingVars
<1>. QED
  BY <1>3, <1>4

\* The booking service's handler of a report.
LEMMA HandlersStay ==
    ASSUME Coherent, TypeOK', NEW e \in Events,
           ReadForOutcome(e) \/ WriteOutcome(e) \/ OutcomeRedelivered(e) \/ OutcomeThrows(e)
    PROVE  Carried' /\ BookingTyped' /\ QueueTyped' /\ notices' \subseteq Events /\ lost' \subseteq Bookings
<1>. USE DEF BookingService!Pending, BookingService!StatusIs
<1>1. /\ TypeOK /\ QueueTyped /\ BookingTyped /\ notices \subseteq Events /\ lost \subseteq Bookings
      /\ Published /\ e.booking \in Bookings
  BY MessageKinds DEF Coherent, SagaTypeOK, QueueTyped, BookingTyped, Carried
<1>2. UNCHANGED <<job, act, events, moved, spent, notices>>
  BY DEF ReadForOutcome, WriteOutcome, OutcomeRedelivered, OutcomeThrows, vars, processorVars, restVars
<1>3. Later
  BY <1>1, <1>2 DEF Later, TypeOK, SpentTypeOK
<1>4. /\ booking \in [Bookings -> BookingService!BookingStates] /\ held \in [Events -> Nat]
  BY <1>1 DEF BookingTyped
<1>5. CASE ReadForOutcome(e)
  <2>1. /\ Take("booking", e) /\ UNCHANGED <<booking, leaving, asked, dropped, lost>>
        /\ held' = IF booking[e.booking].status = "PENDING_PAYMENT" THEN [held EXCEPT ![e] = @ + 1] ELSE held
    BY <1>5 DEF ReadForOutcome, BookingService!ReadForOutcome
  <2>2. /\ QueueTyped' /\ e \in queue["booking"]
        /\ queue'["booking"] = queue["booking"] \ {e}
        /\ queue'["wallet"] = queue["wallet"] /\ queue'["notification"] = queue["notification"]
    BY <1>1, <2>1, TakeTyped DEF Queues
  <2>3. \A d \in Events : held'[d] \in Nat /\ held'[d] >= held[d]
    BY <1>4, <2>1
  <2>4. held' \in [Events -> Nat]
    BY <1>4, <2>1
  <2>5. booking[e.booking].status = "PENDING_PAYMENT" => held'[e] > 0
    BY <1>4, <2>1
  <2>6. \A d \in events :
           d \in queue["booking"] \/ held[d] > 0 =>
              booking'[d.booking].status # "PENDING_PAYMENT" \/ d \in queue'["booking"] \/ held'[d] > 0
    <3>1. events \subseteq Events
      BY <1>1 DEF TypeOK, ReportTypeOK
    <3>2. \A d \in events : held[d] > 0 => held'[d] > 0
      BY <1>4, <2>3, <3>1
    <3>. QED
      BY <2>1, <2>2, <2>5, <3>2
  <2>7. BookingTyped'
    BY <1>1, <2>1, <2>4 DEF BookingTyped
  <2>8. \A b \in Bookings : ColumnsOf(b)'
    BY <1>2, <2>1, ColumnsStay DEF Coherent, Carried
  <2>9. Published'
    <3>1. \A d \in Events : d # e => held'[d] = held[d]
      BY <1>4, <2>1
    <3>. QED
      BY <1>1, <1>2, <2>2, <3>1 DEF Published
  <2>. QED
    BY <1>1, <1>2, <1>3, <2>1, <2>2, <2>6, <2>7, <2>8, <2>9, MessagesStay
<1>6. ASSUME BookingService!WriteOutcome(e) \/ BookingService!GiveUpOutcome(e)
      PROVE  /\ e \in events /\ BookingTyped' /\ UNCHANGED <<leaving, asked, dropped>>
             /\ \A d \in Events : d # e => held'[d] = held[d]
             /\ \A b \in Bookings : ColumnsOf(b)'
             /\ \A b \in Bookings : booking'[b].status = "PENDING_PAYMENT" => booking[b].status = "PENDING_PAYMENT"
             /\ BookingService!WriteOutcome(e) => booking'[e.booking].status # "PENDING_PAYMENT"
  <2>1. /\ held[e] > 0 /\ held' = [held EXCEPT ![e] = @ - 1] /\ UNCHANGED <<leaving, asked, dropped>>
    BY <1>6 DEF BookingService!WriteOutcome, BookingService!GiveUpOutcome, BookingService!LetGo
  <2>2. e \in events
    BY <1>1, <2>1 DEF Published
  <2>3. held' \in [Events -> Nat] /\ \A d \in Events : d # e => held'[d] = held[d]
    <3>1. held[e] \in Nat /\ held[e] - 1 \in Nat
      BY <1>4, <2>1
    <3>. QED
      BY <1>4, <2>1, <3>1
  <2>4. CASE UNCHANGED booking /\ ~BookingService!WriteOutcome(e)
    BY <1>1, <1>2, <2>1, <2>2, <2>3, <2>4, ColumnsStay DEF Coherent, Carried, BookingTyped
  <2>5. CASE BookingService!WriteOutcome(e)
    <3>1. PICK st \in {"CONFIRMED", "FAILED"}, pay \in {"SUCCESS", "FAILED"} :
             /\ booking' = [booking EXCEPT ![e.booking] = [status |-> st, payment |-> pay]]
             /\ \/ st = "CONFIRMED" /\ pay = "SUCCESS" /\ e.type = "PAYMENT_SUCCESS"
                \/ st = "FAILED" /\ pay = "FAILED" /\ e.type # "PAYMENT_SUCCESS"
      BY <2>5 DEF BookingService!WriteOutcome, BookingService!Update
    <3>2. \/ st = "CONFIRMED" /\ pay = "SUCCESS" /\ e = Success(e.booking)
          \/ st = "FAILED" /\ pay = "FAILED" /\ e.type = "PAYMENT_FAILED"
      BY <3>1, MessageKinds
    <3>3. /\ booking'[e.booking].status = st /\ booking'[e.booking].payment = pay
          /\ \A b \in Bookings : b # e.booking => booking'[b] = booking[b]
      BY <1>1, <1>4, <3>1
    <3>4. BookingTyped'
      BY <1>1, <2>1, <2>3, <3>1 DEF BookingTyped, BookingService!BookingStates, BookingService!PaymentStates
    <3>5. ASSUME NEW b \in Bookings PROVE ColumnsOf(b)'
      <4>1. ColumnsOf(b)
        BY DEF Coherent, Carried
      <4>2. CASE b # e.booking
        BY <1>2, <2>1, <3>3, <4>1, <4>2, ColumnsStay
      <4>3. CASE b = e.booking
        BY <1>2, <2>1, <2>2, <3>2, <3>3, <4>1, <4>3 DEF ColumnsOf, Success
      <4>. QED
        BY <4>2, <4>3
    <3>. QED
      BY <2>1, <2>2, <2>3, <3>3, <3>4, <3>5
  <2>. QED
    BY <1>6, <2>4, <2>5 DEF BookingService!GiveUpOutcome
<1>7. ASSUME WriteOutcome(e) \/ OutcomeRedelivered(e) \/ OutcomeThrows(e)
      PROVE  /\ Carried' /\ BookingTyped' /\ QueueTyped' /\ notices' \subseteq Events
             /\ lost' \subseteq Bookings
  <2>1. BookingService!WriteOutcome(e) \/ BookingService!GiveUpOutcome(e)
    BY <1>7 DEF WriteOutcome, OutcomeRedelivered, OutcomeThrows
  <2>2. /\ queue' = queue \/ queue' = [queue EXCEPT !["booking"] = @ \cup {e}]
        /\ lost' = lost \/ lost' = lost \cup {e.booking}
        /\ \/ BookingService!WriteOutcome(e)
           \/ queue' = [queue EXCEPT !["booking"] = @ \cup {e}]
           \/ lost' = lost \cup {e.booking}
    BY <1>7 DEF WriteOutcome, OutcomeRedelivered, OutcomeThrows, busVars, Requeue, Nack
  <2>3. queue \in [Queues -> SUBSET Messages] /\ e \in Messages
    BY <1>1, MessageKinds DEF QueueTyped
  <2>4. /\ queue'["wallet"] = queue["wallet"] /\ queue'["notification"] = queue["notification"]
        /\ queue["booking"] \subseteq queue'["booking"] /\ queue'["booking"] \subseteq queue["booking"] \cup {e}
        /\ queue' = [queue EXCEPT !["booking"] = @ \cup {e}] => e \in queue'["booking"]
    BY <2>2, <2>3 DEF Queues
  <2>5. queue' \in [Queues -> SUBSET Messages]
    BY <2>2, <2>3
  <2>6. QueueTyped'
    BY <1>1, <2>4, <2>5 DEF QueueTyped
  <2>7. Published'
    <3>1. \A d \in Events : held'[d] > 0 => d \in events
      BY <1>1, <1>6, <2>1 DEF Published
    <3>. QED
      BY <1>1, <1>2, <1>6, <2>1, <2>4, <3>1 DEF Published
  <2>8. \A d \in events :
           d \in queue["booking"] \/ held[d] > 0 =>
              \/ booking'[d.booking].status # "PENDING_PAYMENT"
              \/ d \in queue'["booking"] \/ held'[d] > 0 \/ d.booking \in lost'
    <3>1. events \subseteq Events
      BY <1>1 DEF TypeOK, ReportTypeOK
    <3>2. \A d \in events : d # e => held'[d] = held[d]
      BY <1>6, <2>1, <3>1
    <3>3. booking'[e.booking].status # "PENDING_PAYMENT" \/ e \in queue'["booking"] \/ e.booking \in lost'
      BY <1>6, <2>1, <2>2, <2>4
    <3>. QED
      BY <2>4, <3>2, <3>3
  <2>. QED
    BY <1>1, <1>2, <1>3, <1>6, <2>1, <2>2, <2>4, <2>6, <2>7, <2>8, MessagesStay
<1>. QED
  BY <1>5, <1>7

\* What an activation reports, it publishes.
LEMMA ReportsArePublished ==
    ASSUME TypeOK, NEW w \in Workers, Works(w) \/ Breaks(w)
    PROVE  /\ \/ UNCHANGED <<events, queue>>
              \/ \E e \in Events : events' = events \cup {e} /\ PublishEvent(e)
           /\ UNCHANGED <<lost, bookingVars, restVars>>
<1>1. UNCHANGED <<lost, bookingVars, restVars>>
  BY DEF Works, Breaks, busVars
<1>2. CASE Works(w) /\ act[w].pc \in Reporting
  <2>1. HandlerStep(w) /\ ~Return(w) /\ PublishEvent(Report(w))
    BY <1>2 DEF Works, Handle, Return, At, Reporting
  <2>2. events' = events \cup {Report(w)}
    BY <1>2, <2>1, HandlerGoesOn DEF GoesOn
  <2>3. act[w].booking \in Bookings
    BY <1>2 DEF TypeOK, RunTypeOK, Running, Reporting
  <2>4. Report(w) \in Events
    BY <2>3 DEF Report, Events
  <2>. QED
    BY <1>1, <2>1, <2>2, <2>4
<1>3. CASE Works(w) /\ act[w].pc \notin Reporting
  BY <1>1, <1>3, HandlerGoesOn, EndEffect DEF Works, Handle, GoesOn
<1>4. CASE Breaks(w) /\ (CreditFails(w) \/ CreditUnacknowledged(w))
  <2>1. act[w].pc \notin Reporting
    BY <1>4 DEF CreditFails, CreditUnacknowledged, At, Reporting, CreditStage
  <2>. QED
    BY <1>1, <1>4, <2>1, HandlerGoesOn DEF Breaks, GoesOn, busVars
<1>5. CASE Breaks(w) /\ (AttemptFails(w) \/ Crash(w))
  BY <1>1, <1>5, EndEffect DEF Breaks, busVars
<1>. QED
  BY <1>2, <1>3, <1>4, <1>5 DEF Breaks, Disturb, Disturbance

\* The worker and its queue.
LEMMA WorkStays ==
    ASSUME Coherent, WorkerCoherent',
           \/ \E w \in Workers : Works(w) \/ Breaks(w)
           \/ \E b \in Bookings : JobStalls(b) \/ JobExpires(b) \/ \E w \in Workers : TakesJob(w, b)
    PROVE  /\ Carried' /\ BookingTyped' /\ QueueTyped' /\ UNCHANGED <<lost, call, notices, hitches>>
           /\ forgotten' \subseteq Bookings
<1>1. /\ TypeOK /\ TypeOK' /\ QueueTyped /\ BookingTyped /\ Published /\ forgotten \subseteq Bookings
      /\ events \subseteq Events
  BY DEF Coherent, SagaTypeOK, QueueTyped, BookingTyped, Carried, WorkerCoherent, Sound, TypeOK, ReportTypeOK
<1>2. /\ UNCHANGED <<booking, held, leaving, asked, dropped, lost, call, notices, hitches>>
      /\ forgotten' \subseteq Bookings
  BY <1>1, ReportsArePublished DEF bookingVars, busVars, restVars, JobStalls, JobExpires, TakesJob
<1>3. \/ UNCHANGED <<events, queue>>
      \/ \E e \in Events : events' = events \cup {e} /\ PublishEvent(e)
  BY <1>1, ReportsArePublished
  DEF JobStalls, LockExpires, JobExpires, ExpireJob, TakesJob, TakeJob, PickJob, busVars
<1>4. /\ QueueTyped' /\ queue'["wallet"] = queue["wallet"]
      /\ \E new \in SUBSET Events :
            /\ events' = events \cup new
            /\ queue'["booking"] = queue["booking"] \cup new
            /\ queue'["notification"] = queue["notification"] \cup new
  <2>1. CASE UNCHANGED <<events, queue>>
    <3>1. /\ events' = events \cup {} /\ queue'["booking"] = queue["booking"] \cup {}
          /\ queue'["notification"] = queue["notification"] \cup {}
      BY <2>1
    <3>. QED
      BY <1>1, <2>1, <3>1 DEF QueueTyped
  <2>2. ASSUME NEW e \in Events, events' = events \cup {e}, PublishEvent(e)
        PROVE  /\ QueueTyped' /\ queue'["wallet"] = queue["wallet"]
               /\ queue'["booking"] = queue["booking"] \cup {e}
               /\ queue'["notification"] = queue["notification"] \cup {e}
    BY <1>1, <2>2, PublishEffect, MessageKinds
  <2>. QED
    BY <1>3, <2>1, <2>2
<1>5. PICK new \in SUBSET Events :
         /\ events' = events \cup new
         /\ queue'["booking"] = queue["booking"] \cup new
         /\ queue'["notification"] = queue["notification"] \cup new
  BY <1>4
<1>6. Published'
  BY <1>1, <1>2, <1>5 DEF Published
<1>7. \A b \in Bookings : ColumnsOf(b)'
  BY <1>2, <1>5, ColumnsStay DEF Coherent, Carried
<1>8. ASSUME NEW e \in events' PROVE CarriedTo(e)'
  <2>1. CASE e \in new
    BY <1>5, <2>1 DEF CarriedTo
  <2>2. CASE e \in events
    BY <1>2, <1>5, <2>2 DEF Coherent, Carried, CarriedTo, BookingService!Pending, BookingService!StatusIs
  <2>. QED
    BY <1>5, <2>1, <2>2
<1>9. ASSUME NEW c \in Bookings PROVE StartedOf(c)'
  <2>1. StartedOf(c) /\ Outcomes(c) \subseteq Outcomes(c)'
    BY <1>5 DEF Coherent, Carried, Outcomes
  <2>2. CASE job[c].state = "none" \/ job'[c].state # "none"
    <3>1. WithinLimits' => WithinLimits
      <4>1. [Next]_vars
        BY DEF Works, Breaks, JobStalls, JobExpires, TakesJob, Next, Queue, QueueStep
      <4>. QED
        BY <1>1, <4>1, NextLater, LimitsShrink DEF TypeOK
    <3>. QED
      BY <1>2, <1>4, <2>1, <2>2, <3>1 DEF StartedOf, Created
  <2>3. CASE job[c].state # "none" /\ job'[c].state = "none"
    <3>1. PICK b \in Bookings : QueueStep(b)
      <4>1. ASSUME NEW w \in Workers, Works(w) \/ Breaks(w) PROVE FALSE
        BY <1>1, <2>3, <4>1, NotFreed DEF Works, Handle, Breaks, Disturb
      <4>2. ASSUME NEW w \in Workers, NEW b \in Bookings, TakesJob(w, b) PROVE FALSE
        BY <1>1, <2>3, <4>2, TakeEffect DEF TakesJob, TakeJob
      <4>. QED
        BY <4>1, <4>2 DEF JobStalls, JobExpires, QueueStep
    <3>2. c = b /\ job[c].state \in {"completed", "failed"} /\ UNCHANGED spent
      BY <1>1, <2>3, <3>1, QueueEffect
    <3>3. job[c].state = "completed" => Outcomes(c) # {}
      BY DEF Coherent, WorkerCoherent, Followed, Tended
    <3>4. job[c].state = "failed" => ~WithinLimits
      BY DEF Coherent, WorkerCoherent, Limited, LimitedTo
    <3>5. WithinLimits' <=> WithinLimits
      BY <3>2 DEF WithinLimits
    <3>. QED
      BY <2>1, <3>2, <3>3, <3>4, <3>5 DEF StartedOf
  <2>. QED
    BY <2>2, <2>3
<1>10. BookingTyped'
  BY <1>1, <1>2 DEF BookingTyped
<1>. QED
  BY <1>2, <1>4, <1>6, <1>7, <1>8, <1>9, <1>10 DEF Carried

CallTyped == call \in [Calls -> {NewCall} \cup [pc : CallPoints, booking : Bookings]]

LEMMA CallGoesOn ==
    ASSUME CallTyped, NEW c \in Calls, ~CallAt(c, "new"), NEW p \in CallPoints, GoOn(c, p)
    PROVE  CallTyped' /\ OnBooking(c) \in Bookings
<1>1. call[c] \in [pc : CallPoints, booking : Bookings]
  BY DEF CallTyped, CallAt, NewCall
<1>2. [call[c] EXCEPT !.pc = p] \in [pc : CallPoints, booking : Bookings]
  BY <1>1
<1>. QED
  BY <1>1, <1>2 DEF CallTyped, GoOn, OnBooking

\* Neither the columns nor the messages are touched.
LEMMA NothingStirs ==
    ASSUME Coherent, Still, TypeOK', UNCHANGED bookingVars
    PROVE  Carried' /\ BookingTyped'
<1>1. UNCHANGED <<asked, held>>
  BY DEF bookingVars
<1>. QED
  BY <1>1, SameColumns, StillStays DEF Still

\* The guest's requests.
LEMMA GuestStays ==
    ASSUME Coherent, WorkerCoherent', TheGuest
    PROVE  /\ Carried' /\ BookingTyped' /\ CallTyped' /\ UNCHANGED <<queue, lost, notices, forgotten, hitches>>
<1>1. TypeOK' /\ CallTyped
  BY DEF Coherent, SagaTypeOK, CallTyped, WorkerCoherent, Sound
<1>2. PICK b \in Bookings : Elsewhere(b) \/ GuestCancels(b) \/ \E c \in Calls : GuestProceeds(c, b)
  BY DEF TheGuest
<1>3. CASE Elsewhere(b)
  BY <1>1, <1>3, NothingStirs DEF Elsewhere, Still, processorVars, busVars, restVars, CallTyped
<1>4. CASE GuestCancels(b)
  <2>1. Still /\ UNCHANGED <<queue, call, lost, notices, forgotten, hitches>>
    BY <1>4 DEF GuestCancels, Still, vars, processorVars, busVars, restVars
  <2>. QED
    BY <1>1, <1>4, <2>1, OperationsStay DEF GuestCancels, CallTyped
<1>5. ASSUME NEW c \in Calls, GuestProceeds(c, b)
      PROVE  /\ Carried' /\ BookingTyped' /\ CallTyped'
             /\ UNCHANGED <<queue, lost, notices, forgotten, hitches>>
  <2>1. Still /\ UNCHANGED bookingVars /\ UNCHANGED <<queue, lost, notices, forgotten, hitches>>
    BY <1>5 DEF GuestProceeds, Still, vars, processorVars, busVars
  <2>2. CallTyped'
    BY <1>1, <1>5 DEF GuestProceeds, CallTyped, CallPoints
  <2>. QED
    BY <1>1, <2>1, <2>2, NothingStirs
<1>. QED
  BY <1>2, <1>3, <1>4, <1>5

\* The steps of a proceed call.
LEMMA CallsStay ==
    ASSUME Coherent, WorkerCoherent', TheCall
    PROVE  /\ Carried' /\ BookingTyped' /\ QueueTyped' /\ CallTyped' /\ UNCHANGED <<lost, notices, forgotten>>
           /\ hitches' \in Nat
<1>1. TypeOK' /\ CallTyped /\ QueueTyped /\ hitches \in Nat
  BY DEF Coherent, SagaTypeOK, CallTyped, QueueTyped, WorkerCoherent, Sound
<1>2. PICK c \in Calls :
        \/ ReadBalance(c) \/ ReadPending(c) \/ MarkProcessing(c) \/ MarkFailed(c) \/ EmitBookingCreated(c)
        \/ AskRepeated(c) \/ MarkProcessingRepeated(c) \/ AskUnanswered(c) \/ CallDies(c)
  BY DEF TheCall
<1>3. ~CallAt(c, "new")
  BY <1>2 DEF ReadBalance, ReadPending, MarkProcessing, MarkFailed, EmitBookingCreated, AskRepeated,
     MarkProcessingRepeated, AskUnanswered, CallDies, Ask, CallAt
<1>4. OnBooking(c) \in Bookings
  BY <1>1, <1>3 DEF CallTyped, CallAt, NewCall, OnBooking
<1>5. UNCHANGED call \/ \E p \in CallPoints : GoOn(c, p)
  BY <1>2 DEF ReadBalance, ReadPending, MarkProcessing, MarkFailed, EmitBookingCreated, AskRepeated,
     MarkProcessingRepeated, AskUnanswered, CallDies, CallPoints
<1>6. CallTyped'
  BY <1>1, <1>3, <1>5, CallGoesOn DEF CallTyped
<1>7. /\ UNCHANGED <<vars, lost, notices, forgotten>> /\ hitches' \in Nat
  BY <1>1, <1>2 DEF ReadBalance, ReadPending, MarkProcessing, MarkFailed, EmitBookingCreated, AskRepeated,
     MarkProcessingRepeated, AskUnanswered, CallDies, Ask, Hitch, busVars
<1>8. CASE Ask(c)
  <2>1. PublishEvent(Created(OnBooking(c))) /\ BookingService!AskForPayment(OnBooking(c))
    BY <1>8 DEF Ask
  <2>. QED
    BY <1>1, <1>4, <1>6, <1>7, <2>1, AskStays
<1>9. CASE ~Ask(c)
  <2>1. UNCHANGED queue
    BY <1>2, <1>9 DEF ReadBalance, ReadPending, MarkProcessing, MarkFailed, EmitBookingCreated, AskRepeated,
       MarkProcessingRepeated, AskUnanswered, CallDies, busVars
  <2>2. Still /\ QueueTyped'
    BY <1>1, <1>7, <2>1 DEF Still, vars, processorVars, QueueTyped
  <2>3. \/ UNCHANGED bookingVars
        \/ BookingService!MarkProcessing(OnBooking(c)) \/ BookingService!MarkFailed(OnBooking(c))
    BY <1>2, <1>9 DEF ReadBalance, ReadPending, MarkProcessing, MarkFailed, EmitBookingCreated, AskRepeated,
       MarkProcessingRepeated, AskUnanswered, CallDies
  <2>. QED
    BY <1>1, <1>4, <1>6, <1>7, <2>2, <2>3, NothingStirs, OperationsStay
<1>. QED
  BY <1>8, <1>9

LEMMA NextCoherent == Coherent /\ [SagaNext]_sagaVars => Coherent'
<1>. SUFFICES ASSUME Coherent, [SagaNext]_sagaVars PROVE Coherent'
  OBVIOUS
<1>1. WorkerCoherent' /\ TypeOK'
  BY SagaWorker DEF Coherent, WorkerCoherent, Sound
<1>2. /\ BookingTyped /\ QueueTyped /\ CallTyped /\ notices \subseteq Events
      /\ lost \subseteq Bookings /\ forgotten \subseteq Bookings /\ hitches \in Nat
  BY DEF Coherent, SagaTypeOK, BookingTyped, QueueTyped, CallTyped
<1>3. ASSUME Carried', BookingTyped', QueueTyped', CallTyped', notices' \subseteq Events,
             lost' \subseteq Bookings, forgotten' \subseteq Bookings, hitches' \in Nat
      PROVE  Coherent'
  BY <1>1, <1>3 DEF Coherent, SagaTypeOK, BookingTyped, QueueTyped, CallTyped
<1>4. CASE UNCHANGED sagaVars
  <2>1. Still /\ UNCHANGED bookingVars /\ UNCHANGED <<queue, lost, call, notices, forgotten, hitches>>
    BY <1>4 DEF Still, sagaVars, vars, processorVars, busVars, bookingVars, restVars
  <2>2. Carried' /\ BookingTyped'
    BY <1>1, <2>1, NothingStirs
  <2>. QED
    BY <1>2, <1>3, <2>1, <2>2 DEF QueueTyped, CallTyped
<1>5. CASE TheGuest
  <2>1. /\ Carried' /\ BookingTyped' /\ CallTyped' /\ UNCHANGED <<queue, lost, notices, forgotten, hitches>>
    BY <1>1, <1>5, GuestStays
  <2>. QED
    BY <1>2, <1>3, <2>1 DEF QueueTyped
<1>6. CASE TheCall
  <2>1. /\ Carried' /\ BookingTyped' /\ QueueTyped' /\ CallTyped' /\ UNCHANGED <<lost, notices, forgotten>>
        /\ hitches' \in Nat
    BY <1>1, <1>6, CallsStay
  <2>. QED
    BY <1>2, <1>3, <2>1
<1>7. ASSUME NEW q \in Queues, NEW e \in Messages, Deliver(q, e) \/ Redeliver(q, e) \/ HandlerThrows(q, e)
      PROVE  Coherent'
  <2>1. Carried' /\ BookingTyped' /\ QueueTyped' /\ notices' \subseteq Events /\ lost' \subseteq Bookings
    BY <1>1, <1>7, BusStays
  <2>2. UNCHANGED <<call, forgotten>> /\ hitches' \in Nat
    BY <1>2, <1>7 DEF Deliver, Redeliver, HandlerThrows, Hitch
  <2>. QED
    BY <1>2, <1>3, <2>1, <2>2 DEF CallTyped
<1>8. ASSUME NEW e \in Events, ReadForOutcome(e) \/ WriteOutcome(e) \/ OutcomeRedelivered(e) \/ OutcomeThrows(e)
      PROVE  Coherent'
  <2>1. Carried' /\ BookingTyped' /\ QueueTyped' /\ notices' \subseteq Events /\ lost' \subseteq Bookings
    BY <1>1, <1>8, HandlersStay
  <2>2. UNCHANGED <<call, forgotten>> /\ hitches' \in Nat
    BY <1>2, <1>8 DEF ReadForOutcome, WriteOutcome, OutcomeRedelivered, OutcomeThrows, Hitch, restVars
  <2>. QED
    BY <1>2, <1>3, <2>1, <2>2 DEF CallTyped
<1>9. ASSUME \/ \E w \in Workers : Works(w) \/ Breaks(w)
             \/ \E b \in Bookings : JobStalls(b) \/ JobExpires(b) \/ \E w \in Workers : TakesJob(w, b)
      PROVE  Coherent'
  <2>1. /\ Carried' /\ BookingTyped' /\ QueueTyped' /\ UNCHANGED <<lost, call, notices, hitches>>
        /\ forgotten' \subseteq Bookings
    BY <1>1, <1>9, WorkStays
  <2>. QED
    BY <1>2, <1>3, <2>1 DEF CallTyped
<1>. QED
  BY <1>4, <1>5, <1>6, <1>7, <1>8, <1>9 DEF SagaNext, TheQueues, TheOutcomes, TheQueue, Queues

LEMMA InitCoherent == SagaInit => Coherent
<1>. SUFFICES ASSUME SagaInit PROVE Coherent
  OBVIOUS
<1>1. Init /\ BusInit /\ BookingService!BookingInit
  BY DEF SagaInit
<1>2. /\ TypeOK /\ Sound /\ Followed
  BY <1>1, InitTypeOK, InitSound, InitFollowed
<1>3. /\ events = {} /\ transactions = {} /\ \A b \in Bookings : job[b] = NoJob
      /\ \A w \in Workers : act[w] = Idle
      /\ spent = [faults |-> 0, crashes |-> 0, stalls |-> 0]
  BY <1>1 DEF Init, StoreInit, ProcessorInit
<1>4. \A b \in Bookings : /\ job[b].state = "none" /\ job[b].holder = NoWorker
  BY <1>3 DEF NoJob
<1>5. \A w \in Workers : ~Running(w)
  BY <1>3 DEF Idle, Running
<1>6. \A s, b : ~Recorded(s, b)
  BY <1>3 DEF Recorded
<1>7. Limited /\ Refused /\ Faithful /\ Answered
  BY <1>3, <1>4, <1>5, <1>6 DEF Limited, LimitedTo, Refused, RefusedOf, Faithful, Answered, AnsweredOf
<1>8. SagaTypeOK
  <2>1. /\ booking \in [Bookings -> BookingService!BookingStates] /\ held \in [Events -> Nat]
        /\ leaving \in [Bookings -> BookingService!PaymentStates \cup {"none"}]
        /\ asked = {} /\ dropped = {}
    BY <1>1 DEF BookingService!BookingInit, BookingService!BookingStates, BookingService!PaymentStates
  <2>2. queue \in [Queues -> SUBSET Messages] /\ \A q \in Queues : queue[q] = {}
    BY <1>1 DEF BusInit
  <2>3. lost = {} /\ call \in [Calls -> {NewCall}] /\ notices = {} /\ forgotten = {} /\ hitches = 0
    BY <1>1 DEF BusInit, SagaInit
  <2>. QED
    BY <1>2, <2>1, <2>2, <2>3 DEF SagaTypeOK, Queues
<1>9. Carried
  <2>1. /\ \A q \in Queues : queue[q] = {}
        /\ notices = {} /\ \A e \in Events : held[e] = 0
        /\ asked = {}
        /\ \A b \in Bookings : /\ booking[b].status = "PENDING_PAYMENT" /\ booking[b].payment = "PENDING"
                               /\ leaving[b] = "none"
    BY <1>1 DEF BusInit, SagaInit, BookingService!BookingInit
  <2>. QED
    BY <1>3, <2>1 DEF Carried, Published, ColumnsOf, StartedOf, BookingService!StatusIs, Queues
<1>. QED
  BY <1>2, <1>7, <1>8, <1>9 DEF Coherent, WorkerCoherent

-----------------------------------------------------------------------------
(***************************************************************************)
(* Theorems.                                                               *)
(***************************************************************************)
\* What the worker, the messages and the booking columns say of a payment fits together,
\* whatever is lost, repeated, overtaken, fails, dies or runs twice.
THEOREM AlwaysCoherent == SagaSpec => []Coherent
<1>. QED
  BY InitCoherent, NextCoherent, PTL DEF SagaSpec

\* No consumer is handed a message it does not know, and every variable has its type.
THEOREM SagaTypeCorrect == SagaSpec => []SagaTypeOK
<1>1. Coherent => SagaTypeOK
  BY DEF Coherent
<1>. QED
  BY <1>1, AlwaysCoherent, PTL

\* What a report says of the ledger.
LEMMA ReportsSay ==
    ASSUME Coherent, NEW b \in Bookings
    PROVE  /\ Success(b) \in events => PaidFor(b)
           /\ Success(b) \in events /\ spent.stalls = 0 => ~Recorded("REFUND", b)
           /\ Failed(b, "CREDIT_FAILED_REFUNDED") \in events => Recorded("REFUND", b)
           /\ Refusal(b) \in events /\ ~MayRerun(b) => ~Recorded("DEBIT", b)
<1>1. EventsBacked /\ (spent.stalls = 0 => Faithful) /\ Refused
  BY DEF Coherent, WorkerCoherent, Sound
<1>. QED
  BY <1>1 DEF EventsBacked, PaidFor, Faithful, Settled, Refused, RefusedOf, Over

\* A CONFIRMED booking is paid for, whatever happens, and not refunded unless a lock expired
\* under a live activation.
THEOREM ConfirmedBookingsArePaid == SagaSpec => []ConfirmedIsPaid
<1>1. Coherent => ConfirmedIsPaid
  <2>. SUFFICES ASSUME Coherent, NEW b \in Bookings, BookingService!StatusIs(b, "CONFIRMED")
                PROVE  PaidFor(b) /\ (spent.stalls = 0 => ~Recorded("REFUND", b))
    BY DEF ConfirmedIsPaid
  <2>1. Success(b) \in events
    BY DEF Coherent, Carried, ColumnsOf
  <2>. QED
    BY <2>1, ReportsSay
<1>. QED
  BY <1>1, AlwaysCoherent, PTL

\* A booking whose payment failed is not paid for, with the two exceptions that
\* FailedIsUnpaid names.
THEOREM FailedBookingsAreUnpaid == SagaSpec => []FailedIsUnpaid
<1>1. Coherent => FailedIsUnpaid
  <2>. SUFFICES ASSUME Coherent, NEW b \in asked \ dropped,
                       BookingService!StatusIs(b, "FAILED"), Recorded("DEBIT", b)
                PROVE  \/ Recorded("REFUND", b)
                       \/ Failed(b, "INSUFFICIENT_BALANCE") \in events /\ MayRerun(b)
    BY DEF FailedIsUnpaid
  <2>1. b \in Bookings /\ events \subseteq Events
    BY DEF Coherent, SagaTypeOK, TypeOK, ReportTypeOK
  <2>2. PICK e \in events : e.booking = b /\ e.type = "PAYMENT_FAILED"
    BY <2>1 DEF Coherent, Carried, ColumnsOf
  <2>3. e = Failed(b, "CREDIT_FAILED_REFUNDED") \/ e = Refusal(b)
    BY <2>1, <2>2, MessageKinds DEF Refusal
  <2>. QED
    BY <2>1, <2>3, ReportsSay DEF Refusal
<1>. QED
  BY <1>1, AlwaysCoherent, PTL

\* Nobody is told of a success that is not paid for, nor of both outcomes, with the
\* exceptions that NoticesAreTrue names.
THEOREM GuestsAreToldTheTruth == SagaSpec => []NoticesAreTrue
<1>1. Coherent => NoticesAreTrue
  <2>. SUFFICES ASSUME Coherent, NEW b \in Bookings, Success(b) \in notices
                PROVE  /\ PaidFor(b)
                       /\ Failed(b, "CREDIT_FAILED_REFUNDED") \in notices => spent.stalls > 0
                       /\ Failed(b, "INSUFFICIENT_BALANCE") \in notices => MayRerun(b)
    BY DEF NoticesAreTrue
  <2>1. notices \subseteq events
    BY DEF Coherent, Carried, Published
  <2>2. PaidFor(b) /\ Recorded("DEBIT", b)
    BY <2>1, ReportsSay DEF PaidFor
  <2>3. ASSUME Failed(b, "CREDIT_FAILED_REFUNDED") \in notices PROVE spent.stalls > 0
    <3>1. spent.stalls # 0
      BY <2>1, <2>3, ReportsSay
    <3>2. spent.stalls \in Nat
      BY DEF Coherent, SagaTypeOK, TypeOK, SpentTypeOK
    <3>. QED
      BY <3>1, <3>2
  <2>4. Failed(b, "INSUFFICIENT_BALANCE") \in notices => MayRerun(b)
    BY <2>1, <2>2, ReportsSay DEF Refusal
  <2>. QED
    BY <2>2, <2>3, <2>4
<1>. QED
  BY <1>1, AlwaysCoherent, PTL

\* Within the limits of its job, a payment that was asked for is reported, or has a message
\* or a job that is neither completed nor failed.
LEMMA StillToCome ==
    ASSUME Coherent, WithinLimits, NEW b \in Bookings, b \in asked \ lost
    PROVE  \/ Created(b) \in queue["wallet"]
           \/ job[b].state \in {"waiting", "active"}
           \/ job[b].state \in {"none", "completed"} /\ \E e \in events : e.booking = b
<1>1. StartedOf(b) /\ Tended(b) /\ LimitedTo(b)
  BY DEF Coherent, Carried, WorkerCoherent, Followed, Limited
<1>2. job[b].state \in JobStates
  BY DEF Coherent, SagaTypeOK, TypeOK, JobTypeOK, Job
<1>. QED
  BY <1>1, <1>2 DEF StartedOf, Tended, LimitedTo, Outcomes, JobStates

\* Until a message is lost or the limits of the job are used up, a payment that was asked for
\* and whose booking is pending has something ahead of it.
THEOREM NobodyWaitsForNothing == SagaSpec => []NoPaymentIsStranded
<1>1. Coherent => NoPaymentIsStranded
  <2>. SUFFICES ASSUME Coherent, WithinLimits, NEW b \in asked \ lost, BookingService!Pending(b)
                PROVE  \/ Created(b) \in queue["wallet"]
                       \/ job[b].state \in {"waiting", "active"}
                       \/ \E e \in Events : e.booking = b /\ (e \in queue["booking"] \/ held[e] > 0)
    BY DEF NoPaymentIsStranded
  <2>1. b \in Bookings /\ events \subseteq Events
    BY DEF Coherent, SagaTypeOK, TypeOK, ReportTypeOK
  <2>2. ASSUME NEW e \in events, e.booking = b PROVE e \in queue["booking"] \/ held[e] > 0
    BY <2>2 DEF Coherent, Carried, CarriedTo
  <2>. QED
    BY <2>1, <2>2, StillToCome
<1>. QED
  BY <1>1, AlwaysCoherent, PTL

\* A report has reached the booking and the guest once nothing about it is under way.
LEMMA ReportsArrive ==
    ASSUME Coherent, NEW b \in Bookings, b \notin lost, Quiet(b), NEW e \in events, e.booking = b
    PROVE  ~BookingService!Pending(b) /\ e \in notices
<1>1. e \in Events /\ e \in Messages /\ held[e] \in Nat
  BY MessageKinds DEF Coherent, SagaTypeOK, TypeOK, ReportTypeOK
<1>2. e \notin queue["booking"] /\ e \notin queue["notification"] /\ held[e] = 0
  BY <1>1 DEF Quiet, Queues
<1>. QED
  BY <1>1, <1>2 DEF Coherent, Carried, CarriedTo

\* When nothing about a booking is under way, the services agree about it and the guest knows,
\* unless the job ran again after a refusal, under the conditions that SettledTogether names.
THEOREM ServicesAgreeAtRest == SagaSpec => []SettledTogether
<1>1. Coherent => SettledTogether
  <2>. SUFFICES ASSUME Coherent, WithinLimits, spent.stalls = 0,
                       NEW b \in asked \ (lost \cup dropped), Quiet(b)
                PROVE  \/ /\ booking[b].status \in {"CONFIRMED", "CANCELLED"}
                          /\ PaidFor(b) /\ ~Recorded("REFUND", b)
                          /\ Success(b) \in notices
                       \/ /\ BookingService!StatusIs(b, "FAILED")
                          /\ Recorded("DEBIT", b) => Recorded("REFUND", b)
                          /\ \E e \in notices : e.booking = b /\ e.type = "PAYMENT_FAILED"
                       \/ Contradicted(b)
    BY DEF SettledTogether
  <2>1. /\ b \in Bookings /\ events \subseteq Events /\ ColumnsOf(b)
        /\ booking[b].status \in {"PENDING_PAYMENT", "CONFIRMED", "FAILED", "CANCELLED"}
    BY DEF Coherent, SagaTypeOK, TypeOK, ReportTypeOK, Carried, BookingService!BookingStates
  <2>2. /\ Created(b) \notin queue["wallet"]
        /\ job[b].state \in {"none", "completed", "failed"}
    BY <2>1, MessageKinds DEF Quiet, Queues
  <2>3. \E e \in events : e.booking = b
    BY <2>1, <2>2, StillToCome
  <2>4. \A e \in events : e.booking = b => ~BookingService!Pending(b) /\ e \in notices
    BY <2>1, ReportsArrive
  <2>5. booking[b].status \in {"CONFIRMED", "FAILED", "CANCELLED"}
    BY <2>1, <2>3, <2>4 DEF BookingService!Pending, BookingService!StatusIs
  <2>6. CASE booking[b].status \in {"CONFIRMED", "CANCELLED"}
    <3>1. Success(b) \in events
      BY <2>1, <2>6 DEF ColumnsOf, BookingService!StatusIs
    <3>. QED
      BY <2>1, <2>4, <2>6, <3>1, ReportsSay, MessageKinds
  <2>7. CASE BookingService!StatusIs(b, "FAILED")
    <3>1. PICK e \in events : e.booking = b /\ e.type = "PAYMENT_FAILED"
      BY <2>1, <2>7 DEF ColumnsOf
    <3>2. e \in notices
      BY <2>4, <3>1
    <3>3. CASE Recorded("DEBIT", b) => Recorded("REFUND", b)
      BY <2>7, <3>1, <3>2, <3>3
    <3>4. CASE Recorded("DEBIT", b) /\ ~Recorded("REFUND", b)
      <4>1. Told(b)
        BY <2>1, <2>2, <3>4 DEF Coherent, WorkerCoherent, Answered, AnsweredOf
      <4>2. Failed(b, "CREDIT_FAILED_REFUNDED") \notin events
        BY <2>1, <3>4, ReportsSay
      <4>3. Success(b) \in events /\ Success(b) \in notices /\ PaidFor(b)
        BY <2>1, <2>4, <4>1, <4>2, ReportsSay, MessageKinds DEF Told
      <4>4. e = Refusal(b)
        BY <2>1, <3>1, <4>2, MessageKinds DEF Refusal
      <4>5. MayRerun(b)
        BY <2>1, <3>1, <3>4, <4>4, ReportsSay
      <4>. QED
        BY <2>7, <3>2, <4>3, <4>4, <4>5 DEF Contradicted, Refusal
    <3>. QED
      BY <3>3, <3>4
  <2>. QED
    BY <2>5, <2>6, <2>7 DEF BookingService!StatusIs
<1>. QED
  BY <1>1, AlwaysCoherent, PTL
=============================================================================
