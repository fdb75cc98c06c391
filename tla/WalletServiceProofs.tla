------------------------ MODULE WalletServiceProofs ------------------------
(***************************************************************************)
(* Theorems about the wallet service, for every set of users, bookings,    *)
(* workers and requests and every bound on failures: type correctness      *)
(* (no overdraft) and the soundness of what is published and recorded.     *)
(***************************************************************************)
EXTENDS WalletService, TLAPS

-----------------------------------------------------------------------------
\* An insertion adds at most the one document and removes none, so a key that
\* is found stays found.
LEMMA CreateTransactionRecords ==
    ASSUME NEW type, NEW ref, NEW user, NEW amount,
           CreateTransaction(type, ref, user, amount)
    PROVE  /\ Recorded(type, ref)'
           /\ \A s, r : Recorded(s, r) => Recorded(s, r)'
           /\ \A s, r : Recorded(s, r)' => Recorded(s, r) \/ (s = type /\ r = ref)
<1>1. CASE Recorded(type, ref)
  <2>1. transactions' = transactions
    BY <1>1 DEF CreateTransaction
  <2>. QED
    BY <1>1, <2>1 DEF Recorded
<1>2. CASE ~Recorded(type, ref)
  <2>. DEFINE t == Transaction(type, ref, user, amount)
  <2>1. transactions' = transactions \cup {t}
    BY <1>2 DEF CreateTransaction
  <2>2. t.type = type /\ t.ref = ref
    BY DEF Transaction
  <2>. HIDE DEF t
  <2>. QED
    BY <2>1, <2>2 DEF Recorded
<1>. QED
  BY <1>1, <1>2

-----------------------------------------------------------------------------
(***************************************************************************)
(* Type correctness.                                                       *)
(***************************************************************************)
LEMMA InitTypeOK == Init => TypeOK
<1>. SUFFICES ASSUME Init PROVE TypeOK
  OBVIOUS
<1>. USE OpeningAssumption, PaymentAssumption DEF Init
<1>1. BalanceTypeOK /\ LedgerTypeOK
  BY DEF StoreInit, BalanceTypeOK, LedgerTypeOK
<1>2. JobTypeOK
  BY DEF ProcessorInit, JobTypeOK, NoJob, Job, JobStates
<1>3. RunTypeOK
  BY DEF ProcessorInit, RunTypeOK, Running, Idle, Activation, Points
<1>4. ReportTypeOK /\ MovedTypeOK /\ SpentTypeOK
  BY DEF ProcessorInit, ReportTypeOK, MovedTypeOK, SpentTypeOK
<1>5. RequestTypeOK
  BY DEF TopUpInit, RequestTypeOK, RequestPoints
<1>. QED
  BY <1>1, <1>2, <1>3, <1>4, <1>5 DEF TypeOK

\* What a step does not touch keeps its type.
LEMMA Untouched ==
    ASSUME TypeOK
    PROVE  /\ UNCHANGED balance => BalanceTypeOK'
           /\ UNCHANGED transactions => LedgerTypeOK'
           /\ UNCHANGED job => JobTypeOK'
           /\ UNCHANGED act => RunTypeOK'
           /\ UNCHANGED events => ReportTypeOK'
           /\ UNCHANGED moved => MovedTypeOK'
           /\ UNCHANGED spent => SpentTypeOK'
           /\ UNCHANGED <<request, credited>> => RequestTypeOK'
BY DEF TypeOK, BalanceTypeOK, LedgerTypeOK, JobTypeOK, RunTypeOK, Running, ReportTypeOK,
       MovedTypeOK, SpentTypeOK, RequestTypeOK

\* A running activation has a booking, and the booking its two wallets.
LEMMA RunningTypes ==
    ASSUME TypeOK, NEW w \in Workers, Running(w)
    PROVE  /\ act[w] \in Activation
           /\ act[w].booking \in Bookings
           /\ Guest[act[w].booking] \in Users
           /\ Owner[act[w].booking] \in Users
           /\ Amount[act[w].booking] \in Nat
           /\ balance[Guest[act[w].booking]] \in Nat
           /\ balance[Owner[act[w].booking]] \in Nat
BY PaymentAssumption DEF TypeOK, RunTypeOK, BalanceTypeOK

LEMMA RunUpdateTyped ==
    ASSUME RunTypeOK, NEW w \in Workers, NEW a \in Activation,
           a.pc # "idle" => a.booking \in Bookings,
           act' = [act EXCEPT ![w] = a]
    PROVE  RunTypeOK'
BY DEF RunTypeOK, Running

LEMMA GotoTyped ==
    ASSUME RunTypeOK, NEW w \in Workers, Running(w), NEW p \in Points, NEW c \in Nat,
           \/ act' = [act EXCEPT ![w].pc = p]
           \/ act' = [act EXCEPT ![w].pc = p, ![w].copy = c]
    PROVE  RunTypeOK'
<1>. DEFINE a == IF act' = [act EXCEPT ![w].pc = p]
                 THEN [act[w] EXCEPT !.pc = p]
                 ELSE [act[w] EXCEPT !.pc = p, !.copy = c]
<1>1. act[w] \in Activation /\ act[w].booking \in Bookings
  BY DEF RunTypeOK
<1>2. a \in Activation /\ a.booking \in Bookings
  BY <1>1 DEF Activation
<1>3. act' = [act EXCEPT ![w] = a]
  OBVIOUS
<1>. HIDE DEF a
<1>. QED
  BY <1>2, <1>3, RunUpdateTyped

LEMMA CreateTransactionTyped ==
    ASSUME LedgerTypeOK,
           NEW type \in Stages \cup {"TOP_UP"}, NEW ref \in Bookings \cup Keys,
           NEW user \in Users, NEW amount \in Nat,
           CreateTransaction(type, ref, user, amount)
    PROVE  LedgerTypeOK'
<1>1. Transaction(type, ref, user, amount) \in Transactions
  BY DEF Transaction, Transactions
<1>. QED
  BY <1>1 DEF CreateTransaction, LedgerTypeOK

LEMMA JobUpdateTyped ==
    ASSUME NEW j \in Job, NEW st \in JobStates, NEW h \in Workers \cup {NoWorker},
           NEW n \in Nat
    PROVE  /\ [j EXCEPT !.state = st, !.holder = h] \in Job
           /\ [j EXCEPT !.state = st, !.holder = h, !.attempts = n] \in Job
           /\ [j EXCEPT !.state = st, !.holder = h, !.stalls = n] \in Job
           /\ [j EXCEPT !.holder = h] \in Job
           /\ j.attempts \in Nat /\ j.stalls \in Nat
BY DEF Job

LEMMA ProceedTyped ==
    ASSUME RequestTypeOK, NEW r \in TopUps, NEW p \in RequestPoints, Proceed(r, p)
    PROVE  request' \in [TopUps -> [pc : RequestPoints, copy : Nat]]
<1>1. request' = [request EXCEPT ![r] = [request[r] EXCEPT !.pc = p, !.copy = 0]]
  BY DEF Proceed
<1>2. [request[r] EXCEPT !.pc = p, !.copy = 0] \in [pc : RequestPoints, copy : Nat]
  BY DEF RequestTypeOK
<1>. QED
  BY <1>1, <1>2 DEF RequestTypeOK

LEMMA SettleTyped ==
    ASSUME TypeOK, NEW w \in Workers, Running(w), NEW outcome, Settle(w, outcome)
    PROVE  RunTypeOK' /\ JobTypeOK'
<1>1. PICK b \in Bookings : b = act[w].booking
  BY RunningTypes
<1>2. job \in [Bookings -> Job] /\ job[b] \in Job
  BY <1>1 DEF TypeOK, JobTypeOK
<1>3. PICK after \in JobStates :
         job' = job \/ job' = [job EXCEPT ![b] = [job[b] EXCEPT
                                    !.state = after, !.holder = NoWorker,
                                    !.attempts = job[b].attempts + 1]]
  BY <1>1 DEF Settle, JobStates
<1>4. job[b].attempts + 1 \in Nat
  <2>1. job[b].attempts \in Nat
    BY <1>2, JobUpdateTyped
  <2>. QED
    BY <2>1
<1>5. [job[b] EXCEPT !.state = after, !.holder = NoWorker,
                     !.attempts = job[b].attempts + 1] \in Job
  BY <1>2, <1>4, JobUpdateTyped
<1>6. JobTypeOK'
  BY <1>2, <1>3, <1>5 DEF JobTypeOK
<1>7. Idle \in Activation /\ Idle.pc = "idle"
  BY DEF Idle, Activation, Points
<1>8. act' = [act EXCEPT ![w] = Idle]
  BY DEF Settle
<1>. QED
  BY <1>6, <1>7, <1>8, RunUpdateTyped DEF TypeOK

LEMMA NextTypeOK == TypeOK /\ [Next]_vars => TypeOK'
<1>. SUFFICES ASSUME TypeOK, [Next]_vars PROVE TypeOK'
  OBVIOUS
<1>. USE PaymentAssumption, TopUpAssumption
<1>1. CASE UNCHANGED vars
  BY <1>1, Untouched DEF vars, storeVars, processorVars, topUpVars, TypeOK
<1>2. ASSUME NEW b \in Bookings, Queue(b) PROVE TypeOK'
  <2>. USE <1>2 DEF Queue
  <2>0. job \in [Bookings -> Job] /\ job[b] \in Job
    BY DEF TypeOK, JobTypeOK
  <2>1. CASE EnqueuePaymentJob(b)
    <3>1. [NoJob EXCEPT !.state = "waiting"] \in Job
      BY DEF NoJob, Job, JobStates
    <3>2. JobTypeOK'
      BY <2>0, <2>1, <3>1 DEF EnqueuePaymentJob, JobTypeOK
    <3>. QED
      BY <2>1, <3>2, Untouched DEF EnqueuePaymentJob, topUpVars, storeVars, TypeOK
  <2>2. CASE ExpireJob(b)
    <3>1. NoJob \in Job
      BY DEF NoJob, Job, JobStates
    <3>2. JobTypeOK'
      BY <2>0, <2>2, <3>1 DEF ExpireJob, JobTypeOK
    <3>. QED
      BY <2>2, <3>2, Untouched DEF ExpireJob, topUpVars, storeVars, TypeOK
  <2>3. CASE LockExpires(b)
    <3>1. PICK after \in JobStates :
             job' = [job EXCEPT ![b] = [job[b] EXCEPT
                        !.state = after, !.holder = NoWorker, !.stalls = job[b].stalls + 1]]
      BY <2>3 DEF LockExpires, JobStates
    <3>2. job[b].stalls \in Nat
      BY <2>0, JobUpdateTyped
    <3>3. job[b].stalls + 1 \in Nat
      BY <3>2
    <3>4. JobTypeOK'
      BY <2>0, <3>1, <3>3, JobUpdateTyped DEF JobTypeOK
    <3>5. SpentTypeOK'
      BY <2>3 DEF LockExpires, TypeOK, SpentTypeOK
    <3>. QED
      BY <2>3, <3>4, <3>5, Untouched DEF LockExpires, topUpVars, storeVars, TypeOK
  <2>. QED
    BY <2>1, <2>2, <2>3 DEF QueueStep
<1>3. ASSUME NEW w \in Workers, Handle(w) PROVE TypeOK'
  <2>. USE <1>3 DEF Handle
  <2>1. ASSUME NEW s \in Stages, ReadPrior(w, s) PROVE TypeOK'
    <3>. DEFINE prior == act[w].prior \cup
                         (IF Recorded(s, act[w].booking) THEN {s} ELSE {})
                left == act[w].unread \ {s}
                pc == IF left = {} THEN AfterRead(prior) ELSE "reading"
                a == [act[w] EXCEPT !.unread = left, !.prior = prior, !.pc = pc]
    <3>1. Running(w)
      BY <2>1 DEF ReadPrior, At, Running
    <3>2. pc \in Points
      BY DEF AfterRead, AfterDebit, Points
    <3>3. prior \in SUBSET Stages /\ left \in SUBSET Stages
      BY <2>1, <3>1, RunningTypes DEF Activation
    <3>4. act' = [act EXCEPT ![w] = a]
      BY <2>1 DEF ReadPrior
    <3>. HIDE DEF pc, left, prior
    <3>5. a \in Activation /\ a.booking \in Bookings
      BY <3>1, <3>2, <3>3, RunningTypes DEF Activation
    <3>. HIDE DEF a
    <3>6. RunTypeOK'
      BY <3>4, <3>5, RunUpdateTyped DEF TypeOK
    <3>. QED
      BY <2>1, <3>6, Untouched DEF ReadPrior, topUpVars, storeVars, TypeOK
  <2>2. CASE GuestDebit(w)
    <3>1. Running(w)
      BY <2>2 DEF GuestDebit, At, Running
    <3>2. RunTypeOK'
      BY <2>2, <3>1, GotoTyped DEF GuestDebit, Goto, Points, TypeOK
    <3>3. BalanceTypeOK' /\ MovedTypeOK'
      <4>1. CASE Enough(Guest[act[w].booking], Amount[act[w].booking])
        <5>1. BalanceTypeOK'
          BY <2>2, <3>1, <4>1, RunningTypes
          DEF GuestDebit, Enough, DebitWallet, TypeOK, BalanceTypeOK
        <5>2. MovedTypeOK'
          BY <2>2, <3>1, <4>1, RunningTypes DEF GuestDebit, TypeOK, MovedTypeOK, Stages
        <5>. QED
          BY <5>1, <5>2
      <4>2. CASE ~Enough(Guest[act[w].booking], Amount[act[w].booking])
        BY <2>2, <4>2, Untouched DEF GuestDebit
      <4>. QED
        BY <4>1, <4>2
    <3>. QED
      BY <2>2, <3>2, <3>3, Untouched DEF GuestDebit, topUpVars, TypeOK
  <2>3. CASE RecordDebit(w)
    <3>1. Running(w)
      BY <2>3 DEF RecordDebit, At, Running
    <3>2. RunTypeOK'
      BY <2>3, <3>1, GotoTyped DEF RecordDebit, Goto, AfterDebit, Points, TypeOK
    <3>3. LedgerTypeOK'
      BY <2>3, <3>1, RunningTypes, CreateTransactionTyped DEF RecordDebit, TypeOK, Stages
    <3>. QED
      BY <2>3, <3>2, <3>3, Untouched DEF RecordDebit, topUpVars, TypeOK
  <2>4. CASE ReadOwner(w)
    <3>1. Running(w)
      BY <2>4 DEF ReadOwner, At, Running
    <3>2. RunTypeOK'
      BY <2>4, <3>1, RunningTypes, GotoTyped DEF ReadOwner, Points, TypeOK
    <3>. QED
      BY <2>4, <3>2, Untouched DEF ReadOwner, topUpVars, storeVars, TypeOK
  <2>5. CASE CreditOwner(w)
    <3>1. Running(w) /\ act[w].copy \in Nat
      BY <2>5, RunningTypes DEF CreditOwner, At, Running, Activation
    <3>2. RunTypeOK'
      BY <2>5, <3>1, GotoTyped DEF CreditOwner, Points, TypeOK
    <3>3. BalanceTypeOK' /\ MovedTypeOK'
      BY <2>5, <3>1, RunningTypes
      DEF CreditOwner, SaveWallet, TypeOK, BalanceTypeOK, MovedTypeOK, Stages
    <3>. QED
      BY <2>5, <3>2, <3>3, Untouched DEF CreditOwner, topUpVars, TypeOK
  <2>6. CASE RecordCredit(w)
    <3>1. Running(w)
      BY <2>6 DEF RecordCredit, At, Running
    <3>2. RunTypeOK'
      BY <2>6, <3>1, GotoTyped DEF RecordCredit, Goto, Points, TypeOK
    <3>3. LedgerTypeOK'
      BY <2>6, <3>1, RunningTypes, CreateTransactionTyped DEF RecordCredit, TypeOK, Stages
    <3>. QED
      BY <2>6, <3>2, <3>3, Untouched DEF RecordCredit, topUpVars, TypeOK
  <2>7. CASE FindRefund(w)
    <3>1. RunTypeOK'
      BY <2>7, GotoTyped DEF FindRefund, At, Running, Goto, Points, TypeOK
    <3>. QED
      BY <2>7, <3>1, Untouched DEF FindRefund, topUpVars, storeVars, TypeOK
  <2>8. CASE ReadGuest(w)
    <3>1. Running(w)
      BY <2>8 DEF ReadGuest, At, Running
    <3>2. RunTypeOK'
      BY <2>8, <3>1, RunningTypes, GotoTyped DEF ReadGuest, Points, TypeOK
    <3>. QED
      BY <2>8, <3>2, Untouched DEF ReadGuest, topUpVars, storeVars, TypeOK
  <2>9. CASE RefundGuest(w)
    <3>1. Running(w) /\ act[w].copy \in Nat
      BY <2>9, RunningTypes DEF RefundGuest, At, Running, Activation
    <3>2. RunTypeOK'
      BY <2>9, <3>1, GotoTyped DEF RefundGuest, Points, TypeOK
    <3>3. BalanceTypeOK' /\ MovedTypeOK'
      BY <2>9, <3>1, RunningTypes
      DEF RefundGuest, SaveWallet, TypeOK, BalanceTypeOK, MovedTypeOK, Stages
    <3>. QED
      BY <2>9, <3>2, <3>3, Untouched DEF RefundGuest, topUpVars, TypeOK
  <2>10. CASE RecordRefund(w)
    <3>1. Running(w)
      BY <2>10 DEF RecordRefund, At, Running
    <3>2. RunTypeOK'
      BY <2>10, <3>1, GotoTyped DEF RecordRefund, Goto, Points, TypeOK
    <3>3. LedgerTypeOK'
      BY <2>10, <3>1, RunningTypes, CreateTransactionTyped DEF RecordRefund, TypeOK, Stages
    <3>. QED
      BY <2>10, <3>2, <3>3, Untouched DEF RecordRefund, topUpVars, TypeOK
  <2>11. CASE Emit(w)
    <3>1. Running(w)
      BY <2>11 DEF Emit, At, Running
    <3>2. RunTypeOK'
      BY <2>11, <3>1, GotoTyped DEF Emit, Goto, Points, TypeOK
    <3>3. ReportTypeOK'
      BY <2>11, <3>1, RunningTypes DEF Emit, ReportTypeOK, TypeOK, Events
    <3>. QED
      BY <2>11, <3>2, <3>3, Untouched DEF Emit, topUpVars, storeVars, TypeOK
  <2>12. CASE Return(w)
    <3>1. RunTypeOK' /\ JobTypeOK'
      BY <2>12, SettleTyped DEF Return, At, Running
    <3>. QED
      BY <2>12, <3>1, Untouched DEF Return, topUpVars, storeVars, TypeOK
  <2>. QED
    BY <2>1, <2>2, <2>3, <2>4, <2>5, <2>6, <2>7, <2>8, <2>9, <2>10, <2>11, <2>12
    DEF HandlerStep
<1>4. ASSUME NEW w \in Workers, Disturb(w) PROVE TypeOK'
  <2>. USE <1>4 DEF Disturb
  <2>1. CASE CreditFails(w)
    <3>1. RunTypeOK'
      BY <2>1, GotoTyped DEF CreditFails, CreditStage, Running, Points, TypeOK
    <3>2. SpentTypeOK'
      BY <2>1 DEF CreditFails, Spend, SpentTypeOK, TypeOK
    <3>. QED
      BY <2>1, <3>1, <3>2, Untouched DEF CreditFails, topUpVars, storeVars, TypeOK
  <2>2. CASE CreditUnacknowledged(w)
    <3>1. Running(w)
      BY <2>2 DEF CreditUnacknowledged, At, Running
    <3>2. RunTypeOK'
      BY <2>2, <3>1, GotoTyped DEF CreditUnacknowledged, Goto, Points, TypeOK
    <3>3. LedgerTypeOK'
      BY <2>2, <3>1, RunningTypes, CreateTransactionTyped
      DEF CreditUnacknowledged, TypeOK, Stages
    <3>4. SpentTypeOK'
      BY <2>2 DEF CreditUnacknowledged, Spend, SpentTypeOK, TypeOK
    <3>. QED
      BY <2>2, <3>2, <3>3, <3>4, Untouched DEF CreditUnacknowledged, topUpVars, TypeOK
  <2>3. CASE AttemptFails(w)
    <3>1. RunTypeOK' /\ JobTypeOK'
      BY <2>3, SettleTyped DEF AttemptFails, Running
    <3>2. SpentTypeOK'
      BY <2>3 DEF AttemptFails, Spend, SpentTypeOK, TypeOK
    <3>. QED
      BY <2>3, <3>1, <3>2, Untouched DEF AttemptFails, topUpVars, storeVars, TypeOK
  <2>4. CASE Crash(w)
    <3>1. Idle \in Activation /\ Idle.pc = "idle"
      BY DEF Idle, Activation, Points
    <3>2. RunTypeOK'
      BY <2>4, <3>1, RunUpdateTyped DEF Crash, TypeOK
    <3>3. JobTypeOK'
      <4>1. ASSUME NEW b \in Bookings PROVE job'[b] \in Job
        <5>1. job[b] \in Job
          BY DEF TypeOK, JobTypeOK
        <5>2. job'[b] = job[b] \/ job'[b] = [job[b] EXCEPT !.holder = NoWorker]
          BY <2>4 DEF Crash
        <5>3. [job[b] EXCEPT !.holder = NoWorker] \in Job
          BY <5>1 DEF Job
        <5>. QED
          BY <5>1, <5>2, <5>3
      <4>. QED
        BY <2>4, <4>1 DEF Crash, JobTypeOK
    <3>4. SpentTypeOK'
      BY <2>4 DEF Crash, SpentTypeOK, TypeOK
    <3>. QED
      BY <2>4, <3>2, <3>3, <3>4, Untouched DEF Crash, topUpVars, storeVars, TypeOK
  <2>. QED
    BY <2>1, <2>2, <2>3, <2>4 DEF Disturbance
<1>5. ASSUME NEW w \in Workers, NEW b \in Bookings, TakeJob(w, b) PROVE TypeOK'
  <2>. USE <1>5 DEF TakeJob, PickJob
  <2>. DEFINE a == [Idle EXCEPT !.pc = "reading", !.booking = b, !.unread = Stages]
  <2>1. a \in Activation /\ a.booking \in Bookings
    BY DEF Idle, Activation, Points
  <2>2. act' = [act EXCEPT ![w] = a]
    OBVIOUS
  <2>. HIDE DEF a
  <2>3. RunTypeOK'
    BY <2>1, <2>2, RunUpdateTyped DEF TypeOK
  <2>4. JobTypeOK'
    <3>1. "active" \in JobStates
      BY DEF JobStates
    <3>. QED
      BY <3>1, JobUpdateTyped DEF TypeOK, JobTypeOK
  <2>. QED
    BY <2>3, <2>4, Untouched DEF topUpVars, storeVars, TypeOK
<1>6. ASSUME NEW r \in TopUps, Accept(r) PROVE TypeOK'
  <2>1. RequestTypeOK'
    BY <1>6 DEF Accept, Arrive, Proceed, TypeOK, RequestTypeOK, RequestPoints
  <2>. QED
    BY <1>6, <2>1, Untouched DEF Accept, Arrive, processorVars, storeVars, TypeOK
<1>7. ASSUME NEW r \in TopUps, Serve(r) PROVE TypeOK'
  <2>. USE <1>7 DEF Serve
  <2>1. CASE FindExisting(r)
    <3>1. RequestTypeOK'
      BY <2>1, ProceedTyped DEF FindExisting, TypeOK, RequestTypeOK, RequestPoints
    <3>. QED
      BY <2>1, <3>1, Untouched DEF FindExisting, processorVars, storeVars, TypeOK
  <2>2. CASE ReadWallet(r)
    <3>1. RequestTypeOK'
      BY <2>2 DEF ReadWallet, TypeOK, RequestTypeOK, RequestPoints, BalanceTypeOK
    <3>. QED
      BY <2>2, <3>1, Untouched DEF ReadWallet, processorVars, storeVars, TypeOK
  <2>3. CASE SaveTopUp(r)
    <3>0. request' \in [TopUps -> [pc : RequestPoints, copy : Nat]]
      BY <2>3, ProceedTyped DEF SaveTopUp, TypeOK, RequestPoints
    <3>1. RequestTypeOK'
      BY <2>3, <3>0 DEF SaveTopUp, TypeOK, RequestTypeOK
    <3>2. BalanceTypeOK'
      BY <2>3 DEF SaveTopUp, SaveWallet, TypeOK, RequestTypeOK, BalanceTypeOK
    <3>. QED
      BY <2>3, <3>1, <3>2, Untouched DEF SaveTopUp, processorVars, TypeOK
  <2>4. CASE RecordTopUp(r)
    <3>1. RequestTypeOK'
      BY <2>4, ProceedTyped DEF RecordTopUp, TypeOK, RequestTypeOK, RequestPoints
    <3>2. LedgerTypeOK'
      BY <2>4, CreateTransactionTyped DEF RecordTopUp, TypeOK
    <3>. QED
      BY <2>4, <3>1, <3>2, Untouched DEF RecordTopUp, processorVars, TypeOK
  <2>. QED
    BY <2>1, <2>2, <2>3, <2>4 DEF TopUpStep
<1>8. ASSUME NEW r \in TopUps, DropRequest(r) PROVE TypeOK'
  <2>1. RequestTypeOK'
    BY <1>8 DEF DropRequest, TopUpFails, Proceed, TypeOK, RequestTypeOK, RequestPoints
  <2>2. SpentTypeOK'
    BY <1>8 DEF DropRequest, Spend, SpentTypeOK, TypeOK
  <2>. QED
    BY <1>8, <2>1, <2>2, Untouched DEF DropRequest, TopUpFails, storeVars, TypeOK
<1>. QED
  BY <1>1, <1>2, <1>3, <1>4, <1>5, <1>6, <1>7, <1>8 DEF Next

\* Every variable has its type in every reachable state; in particular no
\* interleaving, failure or retry makes a balance negative.
THEOREM TypeCorrect == Spec => []TypeOK
<1>1. Init => TypeOK
  BY InitTypeOK
<1>2. TypeOK /\ [Next]_vars => TypeOK'
  BY NextTypeOK
<1>. QED
  BY <1>1, <1>2, PTL DEF Spec
-----------------------------------------------------------------------------
(***************************************************************************)
(* Soundness of the reports and of the ledger.  The invariant Sound adds   *)
(* to the two properties what each activation may rely on where it stands; *)
(* it is inductive because transactions and movements only grow.           *)
(***************************************************************************)
Grows ==
    \A b \in Bookings, s \in Stages :
        /\ Recorded(s, b) => Recorded(s, b)'
        /\ moved'[b][s] >= moved[b][s]

\* Nothing that an activation relies on is taken from it by a step of another.
LEMMA KnowsKept ==
    ASSUME TypeOK, NEW v \in Workers, Knows(v), Grows, TypeOK', UNCHANGED act[v]
    PROVE  Knows(v)'
<1>. SUFFICES ASSUME Running(v)' PROVE Knows(v)'
  BY DEF Knows
<1>1. Running(v)
  BY DEF Running
<1>2. PICK b \in Bookings : b = act[v].booking
  BY <1>1, RunningTypes
<1>3. act[v].prior \subseteq Stages
  BY <1>1, RunningTypes DEF Activation
<1>4. \A s \in Stages : moved[b][s] \in Nat /\ moved'[b][s] \in Nat
  BY <1>2 DEF TypeOK, MovedTypeOK
<1>5. \A s \in Stages : /\ Recorded(s, b) => Recorded(s, b)'
                        /\ moved[b][s] > 0 => moved'[b][s] > 0
  BY <1>2, <1>4 DEF Grows
<1>. QED
  BY <1>1, <1>2, <1>3, <1>5 DEF Knows, Stages

LEMMA GrowsWhenUntouched ==
    ASSUME TypeOK, UNCHANGED <<transactions, moved>>
    PROVE  Grows
BY DEF Grows, Recorded, TypeOK, MovedTypeOK

\* A step that moves no money, records nothing and publishes nothing.
LEMMA SilentStep ==
    ASSUME Sound, TypeOK', UNCHANGED <<transactions, moved, events>>,
           \A v \in Workers : UNCHANGED act[v] \/ Knows(v)'
    PROVE  Sound'
<1>1. Grows
  BY GrowsWhenUntouched DEF Sound
<1>2. \A v \in Workers : Knows(v)'
  BY <1>1, KnowsKept DEF Sound
<1>3. EventsBacked' /\ LedgerBehindMoney'
  BY DEF Sound, EventsBacked, LedgerBehindMoney, Recorded
<1>. QED
  BY <1>2, <1>3 DEF Sound

\* A step that raises one counter and nothing else that Sound speaks of.
LEMMA MovingStep ==
    ASSUME Sound, TypeOK', UNCHANGED <<transactions, events>>,
           NEW b \in Bookings, NEW s \in Stages,
           moved' = [moved EXCEPT ![b][s] = @ + 1],
           s = "DEBIT" \/ Recorded("DEBIT", b),
           \A v \in Workers : UNCHANGED act[v] \/ Knows(v)'
    PROVE  Sound'
<1>1. \A c \in Bookings, r \in Stages :
         /\ moved[c][r] \in Nat
         /\ moved'[c][r] = IF c = b /\ r = s THEN moved[c][r] + 1 ELSE moved[c][r]
  BY DEF Sound, TypeOK, MovedTypeOK
<1>2. Grows
  BY <1>1 DEF Grows, Recorded
<1>3. \A v \in Workers : Knows(v)'
  BY <1>2, KnowsKept DEF Sound
<1>4. EventsBacked'
  BY DEF Sound, EventsBacked, Recorded
<1>5. \A c \in Bookings, r \in Stages : Recorded(r, c)' <=> Recorded(r, c)
  BY DEF Recorded
<1>6. LedgerBehindMoney'
  BY <1>1, <1>5 DEF Sound, LedgerBehindMoney, Stages
<1>. QED
  BY <1>3, <1>4, <1>6 DEF Sound

\* A step that inserts a transaction for a movement that has happened.
LEMMA RecordingStep ==
    ASSUME Sound, TypeOK', UNCHANGED <<moved, events>>,
           NEW type, NEW ref, NEW user, NEW amount,
           CreateTransaction(type, ref, user, amount),
           type \in Stages => ref \in Bookings /\ moved[ref][type] > 0,
           \A v \in Workers : UNCHANGED act[v] \/ Knows(v)'
    PROVE  Sound'
<1>1. /\ \A s, r : Recorded(s, r) => Recorded(s, r)'
      /\ \A s, r : Recorded(s, r)' => Recorded(s, r) \/ (s = type /\ r = ref)
  BY CreateTransactionRecords
<1>2. Grows
  BY <1>1 DEF Grows, Sound, TypeOK, MovedTypeOK
<1>3. \A v \in Workers : Knows(v)'
  BY <1>2, KnowsKept DEF Sound
<1>4. EventsBacked'
  BY <1>1 DEF Sound, EventsBacked
<1>5. LedgerBehindMoney'
  BY <1>1 DEF Sound, LedgerBehindMoney
<1>. QED
  BY <1>3, <1>4, <1>5 DEF Sound

\* The effect of a jump on the activation that makes it and on the others.
LEMMA GotoEffect ==
    ASSUME TypeOK, NEW w \in Workers, NEW p, NEW c,
           \/ act' = [act EXCEPT ![w].pc = p]
           \/ act' = [act EXCEPT ![w].pc = p, ![w].copy = c]
    PROVE  /\ act'[w].pc = p
           /\ act'[w].booking = act[w].booking
           /\ act'[w].prior = act[w].prior
           /\ \A v \in Workers : v # w => UNCHANGED act[v]
BY DEF TypeOK, RunTypeOK, Activation

\* An activation that has ended relies on nothing.
LEMMA EndKnows ==
    ASSUME TypeOK, NEW w \in Workers, act' = [act EXCEPT ![w] = Idle]
    PROVE  Knows(w)' /\ \A v \in Workers : v # w => UNCHANGED act[v]
BY DEF TypeOK, RunTypeOK, Idle, Knows, Running

LEMMA NextSound == Sound /\ [Next]_vars => Sound'
<1>. SUFFICES ASSUME Sound, [Next]_vars PROVE Sound'
  OBVIOUS
<1>0. TypeOK /\ TypeOK'
  BY NextTypeOK DEF Sound
<1>. USE <1>0
<1>1. CASE UNCHANGED vars
  BY <1>1, SilentStep DEF vars, storeVars, processorVars, topUpVars
<1>2. ASSUME NEW b \in Bookings, Queue(b) PROVE Sound'
  BY <1>2, SilentStep
  DEF Queue, QueueStep, EnqueuePaymentJob, ExpireJob, LockExpires, storeVars
<1>3. ASSUME NEW w \in Workers, Handle(w) PROVE Sound'
  <2>0. Running(w)
    BY <1>3 DEF Handle, HandlerStep, ReadPrior, GuestDebit, RecordDebit, ReadOwner,
        CreditOwner, RecordCredit, FindRefund, ReadGuest, RefundGuest, RecordRefund,
        Emit, Return, At, Running
  <2>a. PICK b \in Bookings : b = act[w].booking
    BY <2>0, RunningTypes
  <2>b. Knows(w) /\ act[w].prior \in SUBSET Stages
    BY <2>0, RunningTypes DEF Sound, Activation
  <2>1. ASSUME NEW s \in Stages, ReadPrior(w, s) PROVE Sound'
    <3>1. UNCHANGED <<transactions, moved, events>>
      BY <2>1 DEF ReadPrior, storeVars
    <3>. DEFINE prior == act[w].prior \cup (IF Recorded(s, b) THEN {s} ELSE {})
                left == act[w].unread \ {s}
                pc == IF left = {} THEN AfterRead(prior) ELSE "reading"
    <3>2. act' = [act EXCEPT ![w] = [act[w] EXCEPT !.unread = left, !.prior = prior, !.pc = pc]]
      BY <2>1, <2>a DEF ReadPrior
    <3>3. \A r \in prior : r \in Stages /\ Recorded(r, b)
      BY <2>0, <2>a, <2>b DEF Knows
    <3>4. pc \in {AfterRead(prior), "reading"}
      OBVIOUS
    <3>. HIDE DEF prior, left, pc
    <3>5. /\ act'[w].booking = b /\ act'[w].prior = prior /\ act'[w].pc = pc
          /\ \A v \in Workers : v # w => UNCHANGED act[v]
      BY <2>a, <3>2 DEF TypeOK, RunTypeOK, Activation
    <3>6. Recorded("REFUND", b) => Recorded("DEBIT", b)
      BY DEF Sound, LedgerBehindMoney, Stages
    <3>7. \A r : Recorded(r, b)' <=> Recorded(r, b)
      BY <3>1 DEF Recorded
    <3>8. Knows(w)'
      BY <3>3, <3>4, <3>5, <3>6, <3>7 DEF Knows, AfterRead, AfterDebit, DebitDone
    <3>. QED
      BY <3>1, <3>5, <3>8, SilentStep
  <2>2. CASE GuestDebit(w)
    <3>1. CASE Enough(Guest[b], Amount[b])
      <4>1. /\ act'[w].pc = "recordDebit" /\ act'[w].booking = b
            /\ act'[w].prior = act[w].prior
            /\ \A v \in Workers : v # w => UNCHANGED act[v]
        BY <2>2, <2>a, <3>1, GotoEffect DEF GuestDebit, Goto
      <4>2. /\ moved' = [moved EXCEPT ![b]["DEBIT"] = @ + 1]
            /\ UNCHANGED <<transactions, events>>
        BY <2>2, <2>a, <3>1 DEF GuestDebit
      <4>3. moved'[b]["DEBIT"] > 0
        BY <4>2 DEF TypeOK, MovedTypeOK, Stages
      <4>4. Knows(w)'
        BY <2>a, <2>b, <2>0, <4>1, <4>2, <4>3 DEF Knows, DebitDone, Recorded
      <4>. QED
        BY <4>1, <4>2, <4>4, MovingStep DEF Stages
    <3>2. CASE ~Enough(Guest[b], Amount[b])
      <4>1. /\ act'[w].pc = "emitInsufficient" /\ act'[w].booking = b
            /\ act'[w].prior = act[w].prior
            /\ \A v \in Workers : v # w => UNCHANGED act[v]
        BY <2>2, <2>a, <3>2, GotoEffect DEF GuestDebit, Goto
      <4>2. UNCHANGED <<transactions, moved, events>>
        BY <2>2, <2>a, <3>2 DEF GuestDebit
      <4>3. Knows(w)'
        BY <2>a, <2>b, <2>0, <4>1, <4>2 DEF Knows, DebitDone, Recorded
      <4>. QED
        BY <4>1, <4>2, <4>3, SilentStep
    <3>. QED
      BY <3>1, <3>2
  <2>3. CASE RecordDebit(w)
    <3>1. /\ act'[w].pc = AfterDebit(act[w].prior) /\ act'[w].booking = b
          /\ act'[w].prior = act[w].prior
          /\ \A v \in Workers : v # w => UNCHANGED act[v]
      BY <2>3, <2>a, GotoEffect DEF RecordDebit, Goto
    <3>2. /\ CreateTransaction("DEBIT", b, Guest[b], Amount[b])
          /\ UNCHANGED <<moved, events>>
      BY <2>3, <2>a DEF RecordDebit
    <3>3. Recorded("DEBIT", b)' /\ \A s : Recorded(s, b) => Recorded(s, b)'
      BY <3>2, CreateTransactionRecords
    <3>4. act[w].pc = "recordDebit"
      BY <2>3 DEF RecordDebit, At
    <3>5. moved[b]["DEBIT"] > 0
      BY <2>0, <2>a, <2>b, <3>4 DEF Knows
    <3>6. Knows(w)'
      BY <2>0, <2>a, <2>b, <3>1, <3>3, <3>4 DEF Knows, AfterDebit, DebitDone
    <3>. QED
      BY <3>1, <3>2, <3>5, <3>6, RecordingStep
  <2>4. CASE ReadOwner(w)
    <3>1. /\ act'[w].pc = "creditOwner" /\ act'[w].booking = b
          /\ act'[w].prior = act[w].prior
          /\ \A v \in Workers : v # w => UNCHANGED act[v]
      BY <2>4, <2>a, GotoEffect DEF ReadOwner, Goto
    <3>2. act[w].pc = "readOwner" /\ UNCHANGED <<transactions, moved, events>>
      BY <2>4 DEF ReadOwner, At, storeVars
    <3>3. Knows(w)'
      BY <2>0, <2>a, <2>b, <3>1, <3>2 DEF Knows, DebitDone, Recorded
    <3>. QED
      BY <3>1, <3>2, <3>3, SilentStep
  <2>5. CASE CreditOwner(w)
    <3>1. /\ act'[w].pc = "recordCredit" /\ act'[w].booking = b
          /\ act'[w].prior = act[w].prior
          /\ \A v \in Workers : v # w => UNCHANGED act[v]
      BY <2>5, <2>a, GotoEffect DEF CreditOwner
    <3>2. /\ act[w].pc = "creditOwner"
          /\ moved' = [moved EXCEPT ![b]["CREDIT"] = @ + 1]
          /\ UNCHANGED <<transactions, events>>
      BY <2>5, <2>a DEF CreditOwner, At
    <3>3. Recorded("DEBIT", b)
      BY <2>0, <2>a, <2>b, <3>2 DEF Knows, DebitDone
    <3>4. moved'[b]["CREDIT"] > 0
      BY <3>2 DEF TypeOK, MovedTypeOK, Stages
    <3>5. Knows(w)'
      BY <2>0, <2>a, <2>b, <3>1, <3>2, <3>3, <3>4 DEF Knows, DebitDone, Recorded
    <3>. QED
      BY <3>1, <3>2, <3>3, <3>5, MovingStep DEF Stages
  <2>6. CASE RecordCredit(w)
    <3>1. /\ act'[w].pc = "emitSuccess" /\ act'[w].booking = b
          /\ act'[w].prior = act[w].prior
          /\ \A v \in Workers : v # w => UNCHANGED act[v]
      BY <2>6, <2>a, GotoEffect DEF RecordCredit, Goto
    <3>2. /\ CreateTransaction("CREDIT", b, Owner[b], Amount[b])
          /\ UNCHANGED <<moved, events>>
      BY <2>6, <2>a DEF RecordCredit
    <3>3. Recorded("CREDIT", b)' /\ \A s : Recorded(s, b) => Recorded(s, b)'
      BY <3>2, CreateTransactionRecords
    <3>4. act[w].pc = "recordCredit"
      BY <2>6 DEF RecordCredit, At
    <3>5. moved[b]["CREDIT"] > 0
      BY <2>0, <2>a, <2>b, <3>4 DEF Knows
    <3>6. Knows(w)'
      BY <2>0, <2>a, <2>b, <3>1, <3>3, <3>4 DEF Knows, AfterDebit, DebitDone
    <3>. QED
      BY <3>1, <3>2, <3>5, <3>6, RecordingStep
  <2>7. CASE FindRefund(w)
    <3>1. PICK p \in {"emitRefunded", "readGuest"} :
             /\ p = "emitRefunded" => Recorded("REFUND", b)
             /\ act' = [act EXCEPT ![w].pc = p]
      BY <2>7, <2>a DEF FindRefund, Goto
    <3>2. /\ act'[w].pc = p /\ act'[w].booking = b
          /\ act'[w].prior = act[w].prior
          /\ \A v \in Workers : v # w => UNCHANGED act[v]
      BY <2>a, <3>1, GotoEffect
    <3>3. act[w].pc = "findRefund" /\ UNCHANGED <<transactions, moved, events>>
      BY <2>7 DEF FindRefund, At, storeVars
    <3>4. Knows(w)'
      BY <2>0, <2>a, <2>b, <3>1, <3>2, <3>3 DEF Knows, DebitDone, Recorded
    <3>. QED
      BY <3>2, <3>3, <3>4, SilentStep
  <2>8. CASE ReadGuest(w)
    <3>1. /\ act'[w].pc = "refundGuest" /\ act'[w].booking = b
          /\ act'[w].prior = act[w].prior
          /\ \A v \in Workers : v # w => UNCHANGED act[v]
      BY <2>8, <2>a, GotoEffect DEF ReadGuest, Goto
    <3>2. act[w].pc = "readGuest" /\ UNCHANGED <<transactions, moved, events>>
      BY <2>8 DEF ReadGuest, At, storeVars
    <3>3. Knows(w)'
      BY <2>0, <2>a, <2>b, <3>1, <3>2 DEF Knows, DebitDone, Recorded
    <3>. QED
      BY <3>1, <3>2, <3>3, SilentStep
  <2>9. CASE RefundGuest(w)
    <3>1. /\ act'[w].pc = "recordRefund" /\ act'[w].booking = b
          /\ act'[w].prior = act[w].prior
          /\ \A v \in Workers : v # w => UNCHANGED act[v]
      BY <2>9, <2>a, GotoEffect DEF RefundGuest
    <3>2. /\ act[w].pc = "refundGuest"
          /\ moved' = [moved EXCEPT ![b]["REFUND"] = @ + 1]
          /\ UNCHANGED <<transactions, events>>
      BY <2>9, <2>a DEF RefundGuest, At
    <3>3. Recorded("DEBIT", b)
      BY <2>0, <2>a, <2>b, <3>2 DEF Knows, DebitDone
    <3>4. moved'[b]["REFUND"] > 0
      BY <3>2 DEF TypeOK, MovedTypeOK, Stages
    <3>5. Knows(w)'
      BY <2>0, <2>a, <2>b, <3>1, <3>2, <3>3, <3>4 DEF Knows, DebitDone, Recorded
    <3>. QED
      BY <3>1, <3>2, <3>3, <3>5, MovingStep DEF Stages
  <2>10. CASE RecordRefund(w)
    <3>1. /\ act'[w].pc = "emitRefunded" /\ act'[w].booking = b
          /\ act'[w].prior = act[w].prior
          /\ \A v \in Workers : v # w => UNCHANGED act[v]
      BY <2>10, <2>a, GotoEffect DEF RecordRefund, Goto
    <3>2. /\ CreateTransaction("REFUND", b, Guest[b], Amount[b])
          /\ UNCHANGED <<moved, events>>
      BY <2>10, <2>a DEF RecordRefund
    <3>3. Recorded("REFUND", b)' /\ \A s : Recorded(s, b) => Recorded(s, b)'
      BY <3>2, CreateTransactionRecords
    <3>4. act[w].pc = "recordRefund"
      BY <2>10 DEF RecordRefund, At
    <3>5. moved[b]["REFUND"] > 0
      BY <2>0, <2>a, <2>b, <3>4 DEF Knows
    <3>6. Knows(w)'
      BY <2>0, <2>a, <2>b, <3>1, <3>3, <3>4 DEF Knows, AfterDebit, DebitDone
    <3>. QED
      BY <3>1, <3>2, <3>5, <3>6, RecordingStep
  <2>11. CASE Emit(w)
    <3>1. /\ act'[w].pc = "return" /\ act'[w].booking = b
          /\ act'[w].prior = act[w].prior
          /\ \A v \in Workers : v # w => UNCHANGED act[v]
      BY <2>11, <2>a, GotoEffect DEF Emit, Goto
    <3>2. UNCHANGED <<transactions, moved>>
      BY <2>11 DEF Emit, storeVars
    <3>3. Grows
      BY <3>2, GrowsWhenUntouched
    <3>4. Knows(w)'
      BY <2>0, <2>a, <2>b, <3>1, <3>2 DEF Knows, DebitDone, Recorded
    <3>5. \A v \in Workers : Knows(v)'
      BY <3>1, <3>3, <3>4, KnowsKept DEF Sound
    <3>6. LedgerBehindMoney'
      BY <3>2 DEF Sound, LedgerBehindMoney, Recorded
    <3>7. \A c \in Bookings :
            /\ Success(c) \in events' =>
                 Success(c) \in events \/ (c = b /\ act[w].pc = "emitSuccess")
            /\ Failed(c, "CREDIT_FAILED_REFUNDED") \in events' =>
                 \/ Failed(c, "CREDIT_FAILED_REFUNDED") \in events
                 \/ c = b /\ act[w].pc = "emitRefunded"
      BY <2>11, <2>a DEF Emit, At, Success, Failed
    <3>8. \A s, c : Recorded(s, c)' <=> Recorded(s, c)
      BY <3>2 DEF Recorded
    <3>9. EventsBacked'
      BY <2>0, <2>a, <2>b, <3>7, <3>8 DEF Sound, EventsBacked, Knows, DebitDone
    <3>. QED
      BY <3>5, <3>6, <3>9 DEF Sound
  <2>12. CASE Return(w)
    BY <2>12, EndKnows, SilentStep DEF Return, Settle, storeVars
  <2>. QED
    BY <1>3, <2>1, <2>2, <2>3, <2>4, <2>5, <2>6, <2>7, <2>8, <2>9, <2>10, <2>11, <2>12
    DEF Handle, HandlerStep
<1>4. ASSUME NEW w \in Workers, Disturb(w) PROVE Sound'
  <2>0. Running(w)
    BY <1>4 DEF Disturb, Disturbance, CreditFails, CreditUnacknowledged, AttemptFails,
        Crash, CreditStage, At, Running
  <2>a. PICK b \in Bookings : b = act[w].booking
    BY <2>0, RunningTypes
  <2>b. Knows(w)
    BY DEF Sound
  <2>1. CASE CreditFails(w)
    <3>1. /\ act'[w].pc = "findRefund" /\ act'[w].booking = b
          /\ act'[w].prior = act[w].prior
          /\ \A v \in Workers : v # w => UNCHANGED act[v]
      BY <2>1, <2>a, GotoEffect DEF CreditFails
    <3>2. act[w].pc \in CreditStage /\ UNCHANGED <<transactions, moved, events>>
      BY <2>1 DEF CreditFails, storeVars
    <3>3. Knows(w)'
      BY <2>0, <2>a, <2>b, <3>1, <3>2 DEF Knows, DebitDone, CreditStage, Recorded
    <3>. QED
      BY <3>1, <3>2, <3>3, SilentStep
  <2>2. CASE CreditUnacknowledged(w)
    <3>1. /\ act'[w].pc = "findRefund" /\ act'[w].booking = b
          /\ act'[w].prior = act[w].prior
          /\ \A v \in Workers : v # w => UNCHANGED act[v]
      BY <2>2, <2>a, GotoEffect DEF CreditUnacknowledged, Goto
    <3>2. /\ CreateTransaction("CREDIT", b, Owner[b], Amount[b])
          /\ UNCHANGED <<moved, events>>
      BY <2>2, <2>a DEF CreditUnacknowledged
    <3>3. Recorded("CREDIT", b)' /\ \A s : Recorded(s, b) => Recorded(s, b)'
      BY <3>2, CreateTransactionRecords
    <3>4. act[w].pc = "recordCredit"
      BY <2>2 DEF CreditUnacknowledged, At
    <3>5. moved[b]["CREDIT"] > 0
      BY <2>0, <2>a, <2>b, <3>4 DEF Knows
    <3>6. Knows(w)'
      BY <2>0, <2>a, <2>b, <3>1, <3>3, <3>4 DEF Knows, AfterDebit, DebitDone
    <3>. QED
      BY <3>1, <3>2, <3>5, <3>6, RecordingStep
  <2>3. CASE AttemptFails(w)
    BY <2>3, EndKnows, SilentStep DEF AttemptFails, Settle, storeVars
  <2>4. CASE Crash(w)
    BY <2>4, EndKnows, SilentStep DEF Crash, storeVars
  <2>. QED
    BY <1>4, <2>1, <2>2, <2>3, <2>4 DEF Disturb, Disturbance
<1>5. ASSUME NEW w \in Workers, NEW b \in Bookings, TakeJob(w, b) PROVE Sound'
  <2>. DEFINE a == [Idle EXCEPT !.pc = "reading", !.booking = b, !.unread = Stages]
  <2>1. /\ act' = [act EXCEPT ![w] = a]
        /\ UNCHANGED <<transactions, moved, events>>
    BY <1>5 DEF TakeJob, PickJob, storeVars
  <2>2. a.pc = "reading" /\ a.prior = {}
    BY DEF Idle
  <2>. HIDE DEF a
  <2>3. act'[w] = a /\ \A v \in Workers : v # w => UNCHANGED act[v]
    BY <2>1 DEF TypeOK, RunTypeOK
  <2>4. Knows(w)'
    BY <2>2, <2>3 DEF Knows, DebitDone
  <2>. QED
    BY <2>1, <2>3, <2>4, SilentStep
<1>6. ASSUME NEW r \in TopUps, Accept(r) PROVE Sound'
  BY <1>6, SilentStep DEF Accept, Arrive, processorVars, storeVars
<1>7. ASSUME NEW r \in TopUps, Serve(r) PROVE Sound'
  <2>1. CASE RecordTopUp(r)
    <3>1. "TOP_UP" \notin Stages
      BY DEF Stages
    <3>. QED
      BY <1>7, <2>1, <3>1, RecordingStep DEF Serve, RecordTopUp, processorVars
  <2>2. CASE ~RecordTopUp(r)
    BY <1>7, <2>2, SilentStep
    DEF Serve, TopUpStep, FindExisting, ReadWallet, SaveTopUp, processorVars, storeVars
  <2>. QED
    BY <2>1, <2>2
<1>8. ASSUME NEW r \in TopUps, DropRequest(r) PROVE Sound'
  BY <1>8, SilentStep DEF DropRequest, TopUpFails, storeVars
<1>. QED
  BY <1>1, <1>2, <1>3, <1>4, <1>5, <1>6, <1>7, <1>8 DEF Next

LEMMA InitSound == Init => Sound
<1>. SUFFICES ASSUME Init PROVE Sound
  OBVIOUS
<1>1. TypeOK
  BY InitTypeOK
<1>2. events = {} /\ transactions = {} /\ \A w \in Workers : act[w].pc = "idle"
  BY DEF Init, StoreInit, ProcessorInit, Idle
<1>3. \A b \in Bookings, s \in Stages : moved[b][s] = 0
  BY DEF Init, ProcessorInit
<1>4. EventsBacked /\ LedgerBehindMoney
  BY <1>2, <1>3 DEF EventsBacked, LedgerBehindMoney, Recorded, Stages
<1>5. \A w \in Workers : Knows(w)
  BY <1>2 DEF Knows, Running
<1>. QED
  BY <1>1, <1>4, <1>5 DEF Sound

\* The invariant holds in every reachable state.
THEOREM SoundInvariant == Spec => []Sound
<1>. QED
  BY InitSound, NextSound, PTL DEF Spec

\* Whatever fails, runs twice or overlaps, PAYMENT_SUCCESS is only published for
\* a booking with a recorded debit and credit, and CREDIT_FAILED_REFUNDED only
\* for one with a recorded debit and refund.
THEOREM ReportsAreBacked == Spec => []EventsBacked
<1>1. Sound => EventsBacked
  BY DEF Sound
<1>. QED
  BY <1>1, SoundInvariant, PTL

\* Whatever fails, runs twice or overlaps, nothing is on the ledger that did not
\* happen to a balance, and nobody is credited or refunded before the guest's
\* debit is recorded.
THEOREM LedgerIsBehindMoney == Spec => []LedgerBehindMoney
<1>1. Sound => LedgerBehindMoney
  BY DEF Sound
<1>. QED
  BY <1>1, SoundInvariant, PTL

-----------------------------------------------------------------------------
(***************************************************************************)
(* Nobody who was charged is forgotten.  A job ends by its handler's       *)
(* return, behind a publish, or by its limits; what a job has used of      *)
(* these is covered by the failures there were, and a job that never was,  *)
(* or has been forgotten, is run by nobody.                                *)
(***************************************************************************)
On(w, b) == Running(w) /\ act[w].booking = b

Abandoned(b) == job[b].state = "active" /\ job[b].holder = NoWorker

\* The stalls of a job, and the one it is about to have.
Stalled(b) == job[b].stalls + (IF Abandoned(b) THEN 1 ELSE 0)

Tended(b) ==
    /\ job[b].state = "completed" => Outcomes(b) # {}
    /\ Outcomes(b) = {} =>
          /\ job[b].attempts <= spent.faults
          /\ Stalled(b) <= spent.crashes + spent.stalls
          /\ job[b].state = "failed" => ~WithinLimits
          /\ job[b].state = "none" /\ WithinLimits =>
                moved[b]["DEBIT"] = 0 /\ \A w \in Workers : ~On(w, b)

Followed ==
    /\ \A b \in Bookings : Tended(b)
    /\ \A w \in Workers : act[w].pc = "return" => Outcomes(act[w].booking) # {}

\* Failures are only ever added, and reports too.
Later ==
    /\ events \subseteq events'
    /\ spent'.faults >= spent.faults
    /\ spent'.crashes >= spent.crashes
    /\ spent'.stalls >= spent.stalls

LEMMA LimitsShrink ==
    ASSUME SpentTypeOK, SpentTypeOK', Later, WithinLimits'
    PROVE  WithinLimits
BY PaymentAssumption DEF SpentTypeOK, Later, WithinLimits

\* A report stays out.
LEMMA OutcomesStay ==
    ASSUME Later, NEW b
    PROVE  Outcomes(b) # {} => Outcomes(b)' # {}
BY DEF Later, Outcomes

\* A step that leaves the job of a booking alone.
LEMMA JobStays ==
    ASSUME TypeOK, TypeOK', Later, NEW b \in Bookings, Tended(b),
           UNCHANGED job[b],
           \A w \in Workers : On(w, b)' => On(w, b),
           UNCHANGED moved[b] \/ \E w \in Workers : On(w, b)
    PROVE  Tended(b)'
<1>1. Outcomes(b)' = {} => Outcomes(b) = {}
  BY OutcomesStay
<1>2. WithinLimits' => WithinLimits
  BY LimitsShrink DEF TypeOK
<1>3. spent \in [faults : Nat, crashes : Nat, stalls : Nat]
      /\ spent' \in [faults : Nat, crashes : Nat, stalls : Nat]
  BY DEF TypeOK, SpentTypeOK
<1>4. job[b].attempts \in Nat /\ job[b].stalls \in Nat /\ Stalled(b) \in Nat
  BY DEF TypeOK, JobTypeOK, Job, Stalled
<1>5. Stalled(b)' = Stalled(b)
  BY DEF Stalled, Abandoned
<1>6. CASE Outcomes(b)' # {}
  BY <1>6 DEF Tended
<1>7. CASE Outcomes(b)' = {}
  <2>1. /\ job'[b].attempts <= spent'.faults
        /\ Stalled(b)' <= spent'.crashes + spent'.stalls
    BY <1>1, <1>3, <1>4, <1>5, <1>7 DEF Tended, Later
  <2>2. job'[b].state # "completed" /\ (job'[b].state = "failed" => ~WithinLimits')
    BY <1>1, <1>2, <1>7 DEF Tended
  <2>3. ASSUME job'[b].state = "none", WithinLimits'
        PROVE  moved'[b]["DEBIT"] = 0 /\ \A w \in Workers : ~On(w, b)'
    BY <1>1, <1>2, <1>7, <2>3 DEF Tended
  <2>. QED
    BY <2>1, <2>2, <2>3 DEF Tended
<1>. QED
  BY <1>6, <1>7

\* A step of a running activation to another point of the handler.
LEMMA HandlerFollows ==
    ASSUME TypeOK, TypeOK', Later, Followed, NEW w \in Workers, Running(w),
           NEW b \in Bookings, b = act[w].booking,
           UNCHANGED job,
           \A v \in Workers : v # w => UNCHANGED act[v],
           act'[w].booking = b,
           \A c \in Bookings : c # b => UNCHANGED moved[c],
           act'[w].pc = "return" => Outcomes(b)' # {}
    PROVE  Followed'
<1>1. ASSUME NEW c \in Bookings PROVE Tended(c)'
  <2>1. \A v \in Workers : On(v, c)' => On(v, c)
    BY DEF On, Running
  <2>2. UNCHANGED moved[c] \/ \E v \in Workers : On(v, c)
    BY DEF On
  <2>. QED
    BY <2>1, <2>2, JobStays DEF Followed
<1>2. ASSUME NEW v \in Workers, act'[v].pc = "return"
      PROVE  \E c : act'[v].booking = c /\ Outcomes(c)' # {}
  <2>1. CASE v = w
    BY <1>2, <2>1
  <2>2. CASE v # w
    <3>1. PICK c : c = act[v].booking
      OBVIOUS
    <3>2. Outcomes(c) # {}
      BY <1>2, <2>2, <3>1 DEF Followed
    <3>. QED
      BY <2>2, <3>1, <3>2, OutcomesStay
  <2>. QED
    BY <2>1, <2>2
<1>. QED
  BY <1>1, <1>2 DEF Followed, Outcomes

\* An activation starts, ends or does nothing, with what this does to jobs.
LEMMA OthersFollow ==
    ASSUME TypeOK, TypeOK', Later, Followed, UNCHANGED moved,
           \A v \in Workers : UNCHANGED act[v] \/ act'[v].pc \in {"idle", "reading"},
           \A c \in Bookings :
              \/ Tended(c)'
              \/ UNCHANGED job[c] /\ \A v \in Workers : On(v, c)' => On(v, c)
    PROVE  Followed'
<1>1. ASSUME NEW c \in Bookings PROVE Tended(c)'
  BY JobStays DEF Followed
<1>2. ASSUME NEW v \in Workers, act'[v].pc = "return"
      PROVE  \E c : act'[v].booking = c /\ Outcomes(c)' # {}
  <2>1. PICK c : c = act[v].booking
    OBVIOUS
  <2>2. UNCHANGED act[v] /\ Outcomes(c) # {}
    BY <1>2, <2>1 DEF Followed
  <2>. QED
    BY <2>1, <2>2, OutcomesStay
<1>. QED
  BY <1>1, <1>2 DEF Followed, Outcomes

\* The steps of a handler that does not return or give up, failing credits included.
LEMMA HandlesFollow ==
    ASSUME TypeOK, TypeOK', Followed, NEW w \in Workers,
           \/ HandlerStep(w) /\ ~Return(w)
           \/ CreditFails(w) \/ CreditUnacknowledged(w)
    PROVE  Followed'
<1>1. Running(w)
  BY DEF HandlerStep, ReadPrior, GuestDebit, RecordDebit, ReadOwner, CreditOwner, RecordCredit,
         FindRefund, ReadGuest, RefundGuest, RecordRefund, Emit, CreditFails, CreditUnacknowledged,
         At, Running, CreditStage
<1>2. PICK b \in Bookings : b = act[w].booking
  BY <1>1, RunningTypes
<1>3. spent \in [faults : Nat, crashes : Nat, stalls : Nat]
  BY DEF TypeOK, SpentTypeOK
<1>4. moved \in [Bookings -> [Stages -> Nat]]
  BY DEF TypeOK, MovedTypeOK
<1>5. ASSUME NEW s \in Stages, ReadPrior(w, s) PROVE Followed'
  <2>. DEFINE prior == act[w].prior \cup (IF Recorded(s, b) THEN {s} ELSE {})
              left == act[w].unread \ {s}
  <2>0. PICK p : p = IF left = {} THEN AfterRead(prior) ELSE "reading"
    OBVIOUS
  <2>1. /\ act' = [act EXCEPT ![w] = [act[w] EXCEPT !.unread = left, !.prior = prior, !.pc = p]]
        /\ p # "return"
    BY <1>2, <1>5, <2>0 DEF ReadPrior, AfterRead, AfterDebit
  <2>. HIDE DEF prior, left
  <2>2. /\ act'[w].booking = b /\ act'[w].pc = p
        /\ \A v \in Workers : v # w => UNCHANGED act[v]
    BY <1>1, <1>2, <2>1, RunningTypes DEF TypeOK, RunTypeOK, Activation
  <2>3. UNCHANGED <<job, moved>> /\ Later
    BY <1>3, <1>5 DEF ReadPrior, Later
  <2>. QED
    BY <1>1, <1>2, <2>1, <2>2, <2>3, HandlerFollows
<1>6. ASSUME NEW p, p # "return", NEW c,
             \/ act' = [act EXCEPT ![w].pc = p]
             \/ act' = [act EXCEPT ![w].pc = p, ![w].copy = c],
             moved' = moved \/ \E s, n : moved' = [moved EXCEPT ![b][s] = n],
             UNCHANGED <<job, events>>, UNCHANGED spent \/ Spend
      PROVE  Followed'
  <2>1. /\ act'[w].booking = b /\ act'[w].pc = p
        /\ \A v \in Workers : v # w => UNCHANGED act[v]
    BY <1>2, <1>6, GotoEffect
  <2>2. Later
    BY <1>3, <1>6 DEF Spend, Later
  <2>3. \A d \in Bookings : d # b => UNCHANGED moved[d]
    BY <1>4, <1>6
  <2>. QED
    BY <1>1, <1>2, <1>6, <2>1, <2>2, <2>3, HandlerFollows
<1>7. CASE GuestDebit(w) \/ RecordDebit(w) \/ RecordCredit(w) \/ FindRefund(w) \/ RecordRefund(w)
           \/ CreditUnacknowledged(w)
  <2>1. \E p : p # "return" /\ act' = [act EXCEPT ![w].pc = p]
    BY <1>7 DEF GuestDebit, RecordDebit, RecordCredit, FindRefund, RecordRefund, CreditUnacknowledged,
                Goto, AfterDebit
  <2>2. moved' = moved \/ \E s, n : moved' = [moved EXCEPT ![b][s] = n]
    BY <1>2, <1>7 DEF GuestDebit, RecordDebit, RecordCredit, FindRefund, RecordRefund, CreditUnacknowledged
  <2>3. UNCHANGED <<job, events>> /\ (UNCHANGED spent \/ Spend)
    BY <1>7 DEF GuestDebit, RecordDebit, RecordCredit, FindRefund, RecordRefund, CreditUnacknowledged
  <2>. QED
    BY <1>6, <2>1, <2>2, <2>3
<1>8. CASE ReadOwner(w) \/ CreditOwner(w) \/ ReadGuest(w) \/ RefundGuest(w) \/ CreditFails(w)
  <2>1. \E p, c : p # "return" /\ act' = [act EXCEPT ![w].pc = p, ![w].copy = c]
    BY <1>8 DEF ReadOwner, CreditOwner, ReadGuest, RefundGuest, CreditFails
  <2>2. moved' = moved \/ \E s, n : moved' = [moved EXCEPT ![b][s] = n]
    BY <1>2, <1>8 DEF ReadOwner, CreditOwner, ReadGuest, RefundGuest, CreditFails
  <2>3. UNCHANGED <<job, events>> /\ (UNCHANGED spent \/ Spend)
    BY <1>8 DEF ReadOwner, CreditOwner, ReadGuest, RefundGuest, CreditFails
  <2>. QED
    BY <1>6, <2>1, <2>2, <2>3
<1>9. CASE Emit(w)
  <2>1. act' = [act EXCEPT ![w].pc = "return"] /\ UNCHANGED <<job, moved, spent>>
    BY <1>9 DEF Emit, Goto
  <2>2. /\ act'[w].booking = b /\ act'[w].pc = "return"
        /\ \A v \in Workers : v # w => UNCHANGED act[v]
    BY <1>2, <2>1, GotoEffect
  <2>3. \E e : e.booking = b /\ events' = events \cup {e}
    <3>1. PICK e : /\ events' = events \cup {e}
                   /\ e = Success(b) \/ \E reason : e = Failed(b, reason)
      BY <1>2, <1>9 DEF Emit
    <3>2. e.booking = b
      BY <3>1 DEF Success, Failed
    <3>. QED
      BY <3>1, <3>2
  <2>4. Later /\ Outcomes(b)' # {}
    BY <1>3, <2>1, <2>3 DEF Later, Outcomes
  <2>. QED
    BY <1>1, <1>2, <2>1, <2>2, <2>4, HandlerFollows
<1>. QED
  BY <1>5, <1>7, <1>8, <1>9 DEF HandlerStep

\* The promise settles, or the process dies.
LEMMA EndsFollow ==
    ASSUME TypeOK, TypeOK', Followed, NEW w \in Workers, Return(w) \/ AttemptFails(w) \/ Crash(w)
    PROVE  Followed'
<1>1. Running(w)
  BY DEF Return, AttemptFails, Crash, At, Running
<1>2. PICK b \in Bookings : b = act[w].booking
  BY <1>1, RunningTypes
<1>3. spent \in [faults : Nat, crashes : Nat, stalls : Nat] /\ job \in [Bookings -> Job]
  BY DEF TypeOK, SpentTypeOK, JobTypeOK
<1>4. /\ act' = [act EXCEPT ![w] = Idle] /\ UNCHANGED <<events, moved>>
      /\ spent' = spent \/ Spend \/ spent' = [spent EXCEPT !.crashes = @ + 1]
  BY DEF Return, AttemptFails, Crash, Settle
<1>5. Later
  BY <1>3, <1>4 DEF Later, Spend
<1>6. /\ act'[w].pc = "idle" /\ \A v \in Workers : v # w => UNCHANGED act[v]
  BY <1>4 DEF TypeOK, RunTypeOK, Idle
<1>7. \A v \in Workers, c \in Bookings : On(v, c)' => On(v, c)
  BY <1>6 DEF On, Running
<1>8. \A c \in Bookings : Outcomes(c)' = Outcomes(c)
  BY <1>4 DEF Outcomes
<1>9. \A c \in Bookings : job[c] \in Job /\ job[c].attempts \in Nat /\ job[c].stalls \in Nat
  BY <1>3 DEF Job
<1>10. ASSUME Return(w), NEW c \in Bookings
       PROVE  Tended(c)' \/ UNCHANGED job[c]
  <2>1. CASE c = b
    <3>1. Outcomes(c) # {}
      BY <1>2, <1>10, <2>1 DEF Return, At, Followed
    <3>. QED
      BY <1>8, <3>1 DEF Tended
  <2>2. CASE c # b
    BY <1>2, <1>3, <1>10, <2>2 DEF Return, Settle
  <2>. QED
    BY <2>1, <2>2
<1>11. ASSUME AttemptFails(w), NEW c \in Bookings
       PROVE  Tended(c)' \/ UNCHANGED job[c]
  <2>1. CASE c # b \/ UNCHANGED job
    BY <1>2, <1>3, <1>11, <2>1 DEF AttemptFails, Settle
  <2>2. CASE c = b /\ ~UNCHANGED job
    <3>. DEFINE after == IF job[b].attempts + 1 < MaxAttempts THEN "waiting" ELSE "failed"
    <3>1. job' = [job EXCEPT ![b] = [job[b] EXCEPT !.state = after, !.holder = NoWorker,
                                                   !.attempts = job[b].attempts + 1]]
      BY <1>2, <1>11, <2>2 DEF AttemptFails, Settle
    <3>2. /\ job'[b].state = after /\ job'[b].attempts = job[b].attempts + 1
          /\ job'[b].stalls = job[b].stalls
      BY <1>3, <1>9, <3>1 DEF Job
    <3>3. after \in {"waiting", "failed"}
      OBVIOUS
    <3>4. Stalled(b)' = job[b].stalls /\ job[b].stalls <= Stalled(b)
      BY <1>9, <3>2, <3>3 DEF Stalled, Abandoned
    <3>5. /\ spent'.faults = spent.faults + 1
          /\ spent'.crashes = spent.crashes /\ spent'.stalls = spent.stalls
      BY <1>3, <1>11 DEF AttemptFails, Spend
    <3>6. Tended(b) /\ Stalled(b) \in Nat
      BY <1>9 DEF Followed, Stalled
    <3>7. ASSUME Outcomes(b) = {}
          PROVE  /\ job'[b].attempts <= spent'.faults
                 /\ Stalled(b)' <= spent'.crashes + spent'.stalls
                 /\ after = "failed" => ~WithinLimits'
      <4>1. job[b].attempts <= spent.faults /\ Stalled(b) <= spent.crashes + spent.stalls
        BY <3>6, <3>7 DEF Tended
      <4>. QED
        BY <1>3, <1>9, <3>2, <3>4, <3>5, <3>6, <4>1, PaymentAssumption DEF WithinLimits
    <3>. HIDE DEF after
    <3>. QED
      BY <1>8, <2>2, <3>2, <3>3, <3>7 DEF Tended
  <2>. QED
    BY <2>1, <2>2
<1>12. ASSUME Crash(w), NEW c \in Bookings
       PROVE  Tended(c)'
  <2>1. job'[c] = job[c] \/ job'[c] = [job[c] EXCEPT !.holder = NoWorker]
    BY <1>3, <1>12 DEF Crash
  <2>2. /\ job'[c].state = job[c].state /\ job'[c].attempts = job[c].attempts
        /\ job'[c].stalls = job[c].stalls
    BY <1>9, <2>1 DEF Job
  <2>3. /\ spent'.faults = spent.faults
        /\ spent'.crashes = spent.crashes + 1 /\ spent'.stalls = spent.stalls
    BY <1>3, <1>12 DEF Crash
  <2>4. Stalled(c) \in Nat /\ Stalled(c)' \in Nat /\ Stalled(c)' <= Stalled(c) + 1
    BY <1>9, <2>2 DEF Stalled, Abandoned
  <2>5. Tended(c)
    BY DEF Followed
  <2>6. WithinLimits' => WithinLimits
    BY <1>5, LimitsShrink DEF TypeOK
  <2>7. Outcomes(c) = {} => Stalled(c)' <= spent'.crashes + spent'.stalls
    BY <1>3, <2>3, <2>4, <2>5 DEF Tended
  <2>. QED
    BY <1>4, <1>7, <1>8, <2>2, <2>3, <2>5, <2>6, <2>7 DEF Tended
<1>. QED
  BY <1>4, <1>5, <1>6, <1>7, <1>10, <1>11, <1>12, OthersFollow

\* A waiting job is taken, with nothing of its limits used.
LEMMA TakesFollow ==
    ASSUME TypeOK, TypeOK', Followed, NEW w \in Workers, NEW b \in Bookings, PickJob(w, b)
    PROVE  Followed'
<1>1. spent \in [faults : Nat, crashes : Nat, stalls : Nat] /\ job \in [Bookings -> Job]
  BY DEF TypeOK, SpentTypeOK, JobTypeOK
<1>2. UNCHANGED <<events, moved, spent>> /\ Later
  BY <1>1 DEF PickJob, Later
<1>3. act'[w].pc = "reading" /\ act'[w].booking = b /\ \A v \in Workers : v # w => UNCHANGED act[v]
  BY DEF PickJob, TypeOK, RunTypeOK, Idle
<1>4. ASSUME NEW c \in Bookings, c # b
      PROVE  UNCHANGED job[c] /\ \A v \in Workers : On(v, c)' => On(v, c)
  BY <1>1, <1>3, <1>4 DEF PickJob, On, Running
<1>5. /\ job'[b].state = "active" /\ job'[b].holder = w
      /\ job'[b].attempts = job[b].attempts /\ job'[b].stalls = job[b].stalls
      /\ job[b].state = "waiting" /\ job[b].stalls \in Nat
  BY <1>1 DEF PickJob, Job
<1>6. Stalled(b)' = Stalled(b)
  BY <1>5, PaymentAssumption DEF Stalled, Abandoned
<1>7. Outcomes(b)' = Outcomes(b) /\ Tended(b)
  BY <1>2 DEF Outcomes, Followed
<1>8. Tended(b)'
  BY <1>2, <1>5, <1>6, <1>7 DEF Tended
<1>. QED
  BY <1>2, <1>3, <1>4, <1>8, OthersFollow

\* The queue adds a job, forgets one, or takes one back.
LEMMA QueuesFollow ==
    ASSUME TypeOK, TypeOK', Followed, NEW b \in Bookings, QueueStep(b)
    PROVE  Followed'
<1>1. spent \in [faults : Nat, crashes : Nat, stalls : Nat] /\ job \in [Bookings -> Job]
  BY DEF TypeOK, SpentTypeOK, JobTypeOK
<1>2. /\ UNCHANGED <<act, events, moved>>
      /\ spent' = spent \/ spent' = [spent EXCEPT !.stalls = @ + 1]
  BY DEF QueueStep, EnqueuePaymentJob, ExpireJob, LockExpires
<1>3. Later
  BY <1>1, <1>2 DEF Later
<1>4. \A c \in Bookings : c # b => UNCHANGED job[c]
  BY <1>1 DEF QueueStep, EnqueuePaymentJob, ExpireJob, LockExpires
<1>5. \A v \in Workers, c \in Bookings : On(v, c)' => On(v, c)
  BY <1>2 DEF On, Running
<1>6. Outcomes(b)' = Outcomes(b) /\ Tended(b)
  BY <1>2 DEF Outcomes, Followed
<1>7. job[b].attempts \in Nat /\ job[b].stalls \in Nat
  BY <1>1 DEF Job
<1>8. CASE EnqueuePaymentJob(b)
  <2>1. job'[b] = [NoJob EXCEPT !.state = "waiting"] /\ spent' = spent
    BY <1>1, <1>8 DEF EnqueuePaymentJob
  <2>2. job'[b].state = "waiting" /\ job'[b].attempts = 0 /\ job'[b].stalls = 0
    BY <2>1 DEF NoJob
  <2>3. Stalled(b)' = 0
    BY <2>2 DEF Stalled, Abandoned
  <2>4. Tended(b)'
    BY <1>1, <2>1, <2>2, <2>3 DEF Tended
  <2>. QED
    BY <1>2, <1>3, <1>4, <1>5, <2>4, OthersFollow
<1>9. CASE ExpireJob(b)
  <2>1. job'[b] = NoJob /\ spent' = spent /\ job[b].state \in {"completed", "failed"}
    BY <1>1, <1>9 DEF ExpireJob
  <2>2. job'[b].state = "none" /\ job'[b].attempts = 0 /\ job'[b].stalls = 0
    BY <2>1 DEF NoJob
  <2>3. Stalled(b)' = 0
    BY <2>2 DEF Stalled, Abandoned
  <2>4. Outcomes(b) = {} => ~WithinLimits
    BY <1>6, <2>1 DEF Tended
  <2>5. WithinLimits' <=> WithinLimits
    BY <2>1 DEF WithinLimits
  <2>6. Tended(b)'
    BY <1>1, <1>6, <2>1, <2>2, <2>3, <2>4, <2>5 DEF Tended
  <2>. QED
    BY <1>2, <1>3, <1>4, <1>5, <2>6, OthersFollow
<1>10. CASE LockExpires(b)
  <2>. DEFINE after == IF job[b].stalls < MaxStalledCount THEN "waiting" ELSE "failed"
  <2>1. job' = [job EXCEPT ![b] = [job[b] EXCEPT !.state = after, !.holder = NoWorker,
                                                 !.stalls = job[b].stalls + 1]]
    BY <1>10 DEF LockExpires
  <2>2. /\ job'[b].state = after /\ job'[b].attempts = job[b].attempts
        /\ job'[b].stalls = job[b].stalls + 1
    BY <1>1, <1>7, <2>1 DEF Job
  <2>3. after \in {"waiting", "failed"}
    OBVIOUS
  <2>4. Stalled(b)' = job[b].stalls + 1
    BY <1>7, <2>2, <2>3 DEF Stalled, Abandoned
  <2>5. /\ spent'.faults = spent.faults /\ spent'.crashes = spent.crashes
        /\ spent'.stalls \in Nat
        /\ Stalled(b)' + spent.stalls <= Stalled(b) + spent'.stalls
    <3>1. CASE job[b].holder = NoWorker
      <4>1. Stalled(b) = job[b].stalls + 1 /\ spent' = spent
        BY <1>10, <3>1 DEF LockExpires, Stalled, Abandoned
      <4>. QED
        BY <1>1, <1>7, <2>4, <4>1
    <3>2. CASE job[b].holder # NoWorker
      <4>1. Stalled(b) = job[b].stalls + 0 /\ spent' = [spent EXCEPT !.stalls = @ + 1]
        BY <1>10, <3>2 DEF LockExpires, Stalled, Abandoned
      <4>. QED
        BY <1>1, <1>7, <2>4, <4>1
    <3>. QED
      BY <3>1, <3>2
  <2>6. Stalled(b) \in Nat
    BY <1>7 DEF Stalled
  <2>7. ASSUME Outcomes(b) = {}
        PROVE  /\ job'[b].attempts <= spent'.faults
               /\ Stalled(b)' <= spent'.crashes + spent'.stalls
               /\ after = "failed" => ~WithinLimits'
    <3>1. job[b].attempts <= spent.faults /\ Stalled(b) <= spent.crashes + spent.stalls
      BY <1>6, <2>7 DEF Tended
    <3>2. Stalled(b)' <= spent'.crashes + spent'.stalls
      BY <1>1, <1>7, <2>4, <2>5, <2>6, <3>1
    <3>3. after = "failed" => ~WithinLimits'
      BY <1>1, <1>7, <2>4, <2>5, <3>2, PaymentAssumption DEF WithinLimits
    <3>. QED
      BY <2>2, <2>5, <3>1, <3>2, <3>3
  <2>. HIDE DEF after
  <2>8. Tended(b)'
    BY <1>6, <2>2, <2>3, <2>7 DEF Tended
  <2>. QED
    BY <1>2, <1>3, <1>4, <1>5, <2>8, OthersFollow
<1>. QED
  BY <1>8, <1>9, <1>10 DEF QueueStep

\* Every step of the service.
LEMMA NextFollowed == TypeOK /\ Followed /\ [Next]_vars => Followed'
<1>. SUFFICES ASSUME TypeOK, Followed, [Next]_vars PROVE Followed'
  OBVIOUS
<1>1. TypeOK'
  BY NextTypeOK
<1>2. spent \in [faults : Nat, crashes : Nat, stalls : Nat]
  BY DEF TypeOK, SpentTypeOK
<1>3. ASSUME UNCHANGED <<job, act, events, moved>>, UNCHANGED spent \/ Spend PROVE Followed'
  <2>1. Later
    BY <1>2, <1>3 DEF Later, Spend
  <2>2. \A v \in Workers, c \in Bookings : On(v, c)' => On(v, c)
    BY <1>3 DEF On, Running
  <2>. QED
    BY <1>1, <1>3, <2>1, <2>2, OthersFollow
<1>4. CASE UNCHANGED vars
  BY <1>3, <1>4 DEF vars, processorVars
<1>5. ASSUME NEW b \in Bookings, Queue(b) PROVE Followed'
  BY <1>1, <1>5, QueuesFollow DEF Queue
<1>6. ASSUME NEW w \in Workers, Handle(w) \/ Disturb(w) PROVE Followed'
  BY <1>1, <1>6, HandlesFollow, EndsFollow DEF Handle, Disturb, Disturbance
<1>7. ASSUME NEW w \in Workers, NEW b \in Bookings, TakeJob(w, b) PROVE Followed'
  BY <1>1, <1>7, TakesFollow DEF TakeJob
<1>8. ASSUME NEW r \in TopUps, Accept(r) \/ Serve(r) \/ DropRequest(r) PROVE Followed'
  BY <1>3, <1>8 DEF Accept, Serve, DropRequest, processorVars
<1>. QED
  BY <1>4, <1>5, <1>6, <1>7, <1>8 DEF Next

\* Nothing is charged and no job is there.
LEMMA InitFollowed == Init => Followed
<1>. SUFFICES ASSUME Init PROVE Followed
  OBVIOUS
<1>1. \A b \in Bookings : job[b] = NoJob
  BY DEF Init, ProcessorInit
<1>2. \A b \in Bookings : job[b].state = "none" /\ job[b].attempts = 0 /\ job[b].stalls = 0
  BY <1>1 DEF NoJob
<1>3. spent.faults = 0 /\ spent.crashes = 0 /\ spent.stalls = 0
  BY DEF Init, ProcessorInit
<1>4. \A b \in Bookings : Stalled(b) = 0
  BY <1>2 DEF Stalled, Abandoned
<1>5. \A w \in Workers : act[w].pc = "idle"
  BY DEF Init, ProcessorInit, Idle
<1>6. \A b \in Bookings : moved[b]["DEBIT"] = 0
  BY DEF Init, ProcessorInit, Stages
<1>. QED
  BY <1>2, <1>3, <1>4, <1>5, <1>6 DEF Followed, Tended, On, Running

\* What the jobs have used of their limits is what failed, and no job ends without a report
\* before its limits are reached, whatever overlaps, fails and dies.
THEOREM JobsAreFollowed == Spec => []Followed
<1>. QED
  BY InitFollowed, NextFollowed, TypeCorrect, PTL DEF Spec

\* A charged guest who has heard nothing has a job that is waiting or active, until there
\* were as many failures as the limits of the queue allow.
THEOREM ChargesStayFollowed == Spec => []ChargesAreFollowedUp
<1>1. TypeOK /\ Followed => ChargesAreFollowedUp
  <2>. SUFFICES ASSUME TypeOK, Followed, WithinLimits, NEW b \in Bookings,
                       moved[b]["DEBIT"] > 0, Outcomes(b) = {}
                PROVE  job[b].state \in {"waiting", "active"}
    BY DEF ChargesAreFollowedUp
  <2>1. job[b].state \in JobStates
    BY DEF TypeOK, JobTypeOK, Job
  <2>2. Tended(b)
    BY DEF Followed
  <2>3. job[b].state \notin {"completed", "failed"}
    BY <2>2 DEF Tended
  <2>4. job[b].state # "none"
    BY <2>2 DEF Tended
  <2>. QED
    BY <2>1, <2>3, <2>4 DEF JobStates
<1>. QED
  BY <1>1, JobsAreFollowed, TypeCorrect, PTL
=============================================================================
