------------------------- MODULE ChargedOnceProofs -------------------------
(***************************************************************************)
(* Without failures every booking is charged once, for any users,          *)
(* bookings, workers and top-ups, all running concurrently and with every  *)
(* BOOKING_CREATED delivered any number of times.                          *)
(*                                                                         *)
(* ChargedOnce is not inductive: what keeps a second debit away is that    *)
(* the queue runs one activation per booking while locks hold, and that an *)
(* activation that starts late finds all transactions of the ones before.  *)
(* Stands says how far the activation of a booking has come; AtRest what a *)
(* booking without one looks like.                                         *)
(*                                                                         *)
(* With failures a booking may be charged twice, but one that was reported *)
(* paid or refunded stays so: OutcomesStand, by the invariant Faithful.    *)
(***************************************************************************)
EXTENDS WalletServiceProofs

-----------------------------------------------------------------------------
(***************************************************************************)
(* The invariant.                                                          *)
(***************************************************************************)
\* How often booking b has moved money, and which of its transactions are recorded.
Progress(b, debits, credits, types) ==
    /\ moved[b]["DEBIT"] = debits /\ moved[b]["CREDIT"] = credits /\ moved[b]["REFUND"] = 0
    /\ \A s \in Stages : Recorded(s, b) <=> s \in types

Unpaid(b) == Progress(b, 0, 0, {})

Paid(b) == Progress(b, 1, 1, {"DEBIT", "CREDIT"})

\* A job that is being run is its activation's, and the booking is as far as that one.
StandsAt(w, b, pc) ==
    /\ job[b].state = "active" /\ job[b].holder = w
    /\ \/ /\ pc = "reading" /\ (Unpaid(b) \/ Paid(b))
          /\ \A s \in Stages \ act[w].unread : s \in act[w].prior <=> Recorded(s, b)
       \/ pc = "debit" /\ Unpaid(b) /\ act[w].prior = {}
       \/ pc = "recordDebit" /\ Progress(b, 1, 0, {}) /\ act[w].prior = {}
       \/ pc \in {"readOwner", "creditOwner"} /\ Progress(b, 1, 0, {"DEBIT"})
       \/ pc = "recordCredit" /\ Progress(b, 1, 1, {"DEBIT"})
       \/ pc = "emitSuccess" /\ Paid(b)
       \/ pc = "emitInsufficient" /\ Unpaid(b)
       \/ pc = "return" /\ (Unpaid(b) \/ Paid(b))

Stands(w) == StandsAt(w, act[w].booking, act[w].pc)

AtRest(b) == job[b].state # "active" /\ (Unpaid(b) \/ Paid(b))

Orderly ==
    /\ \A w \in Workers : Running(w) => Stands(w)
    /\ \A b \in Bookings : (\A w \in Workers : ~On(w, b)) => AtRest(b)

Steady == Undisturbed => Orderly

-----------------------------------------------------------------------------
(***************************************************************************)
(* One activation moves.                                                   *)
(***************************************************************************)
\* No activation but w is on b.
Alone(w, b) == \A v \in Workers : v # w => ~On(v, b)

LEMMA HolderIsAlone ==
    ASSUME Orderly, NEW w \in Workers, Running(w)
    PROVE  Alone(w, act[w].booking) /\ Stands(w)
BY DEF Orderly, Stands, StandsAt, On, Alone

\* What is said of a booking and its activation depends on these alone.
LEMMA SameBooking ==
    ASSUME NEW b, UNCHANGED <<job[b], moved[b]>>, \A s \in Stages : Recorded(s, b)' <=> Recorded(s, b)
    PROVE  /\ AtRest(b) => AtRest(b)'
           /\ \A v \in Workers : act'[v] = act[v] /\ act[v].booking = b => (Stands(v) => Stands(v)')
BY DEF AtRest, Unpaid, Paid, Progress, Stands, StandsAt, Stages

\* A step of activation w on its booking b leaves every other booking as it is.
LEMMA OneMoves ==
    ASSUME Orderly, NEW w \in Workers, NEW b \in Bookings, Alone(w, b),
           Running(w) => act[w].booking = b,
           \A v \in Workers : v # w => UNCHANGED act[v],
           \A c \in Bookings : c # b =>
              /\ UNCHANGED <<job[c], moved[c]>>
              /\ \A s \in Stages : Recorded(s, c)' <=> Recorded(s, c),
           Running(w)' => act'[w].booking = b /\ Stands(w)',
           ~Running(w)' => AtRest(b)',
           \A v \in Workers : Running(v) => act[v].booking \in Bookings
    PROVE  Orderly'
<1>1. ASSUME NEW v \in Workers, Running(v)' PROVE Stands(v)'
  <2>1. CASE v = w
    BY <1>1, <2>1
  <2>2. CASE v # w
    <3>1. act'[v] = act[v] /\ Running(v)
      BY <1>1, <2>2 DEF Running
    <3>2. PICK c \in Bookings : c = act[v].booking
      BY <3>1
    <3>3. c # b
      BY <2>2, <3>1, <3>2 DEF Alone, On
    <3>4. Stands(v)
      BY <3>1 DEF Orderly
    <3>. QED
      BY <3>1, <3>2, <3>3, <3>4, SameBooking
  <2>. QED
    BY <2>1, <2>2
<1>2. ASSUME NEW c \in Bookings, \A v \in Workers : ~On(v, c)' PROVE AtRest(c)'
  <2>1. CASE c = b
    BY <1>2, <2>1 DEF On
  <2>2. CASE c # b
    <3>1. \A v \in Workers : ~On(v, c)
      BY <1>2, <2>2 DEF On, Running
    <3>2. AtRest(c)
      BY <3>1 DEF Orderly
    <3>. QED
      BY <2>2, <3>2, SameBooking
  <2>. QED
    BY <2>1, <2>2
<1>. QED
  BY <1>1, <1>2 DEF Orderly

\* Neither do top-ups touch one.
LEMMA NoneMoves ==
    ASSUME TypeOK, Orderly, UNCHANGED <<act, job, moved>>,
           \A b \in Bookings, s \in Stages : Recorded(s, b)' <=> Recorded(s, b)
    PROVE  Orderly'
<1>1. ASSUME NEW v \in Workers, Running(v)' PROVE Stands(v)'
  <2>1. Running(v) /\ Stands(v) /\ act[v].booking \in Bookings
    BY <1>1 DEF Orderly, Running, TypeOK, RunTypeOK
  <2>. QED
    BY <2>1, SameBooking
<1>2. ASSUME NEW c \in Bookings, \A v \in Workers : ~On(v, c)' PROVE AtRest(c)'
  <2>1. AtRest(c)
    BY <1>2 DEF Orderly, On, Running
  <2>. QED
    BY <2>1, SameBooking
<1>. QED
  BY <1>1, <1>2 DEF Orderly

\* A step of the handler of w from one point to the next.
LEMMA HandlerMoves ==
    ASSUME TypeOK, Orderly, NEW w \in Workers, Running(w),
           NEW b \in Bookings, b = act[w].booking,
           \A v \in Workers : v # w => UNCHANGED act[v],
           act'[w].booking = b,
           \A c \in Bookings : c # b =>
              /\ UNCHANGED <<job[c], moved[c]>>
              /\ \A s \in Stages : Recorded(s, c)' <=> Recorded(s, c),
           NEW p, p = act'[w].pc, p # "idle", StandsAt(w, b, p)'
    PROVE  Orderly'
<1>1. Alone(w, b)
  BY HolderIsAlone
<1>2. Running(w)' /\ Stands(w)'
  BY DEF Running, Stands, StandsAt
<1>3. \A v \in Workers : Running(v) => act[v].booking \in Bookings
  BY DEF TypeOK, RunTypeOK
<1>. QED
  BY <1>1, <1>2, <1>3, OneMoves

-----------------------------------------------------------------------------
(***************************************************************************)
(* The steps of an undisturbed handler.                                    *)
(***************************************************************************)
\* What the next step of a running activation starts from.
LEMMA RunningFacts ==
    ASSUME Sound, Orderly, NEW w \in Workers, Running(w)
    PROVE  /\ act[w].booking \in Bookings /\ act[w] \in Activation
           /\ StandsAt(w, act[w].booking, act[w].pc)
           /\ \A s \in act[w].prior : s \in Stages /\ Recorded(s, act[w].booking)
BY RunningTypes DEF Sound, Orderly, Stands, Knows, Activation

LEMMA ReadsOrderly ==
    ASSUME Sound, Orderly, NEW w \in Workers, NEW s \in Stages, ReadPrior(w, s)
    PROVE  Orderly'
<1>1. TypeOK /\ Running(w) /\ act[w].pc = "reading"
  BY DEF Sound, ReadPrior, At, Running
<1>2. PICK b \in Bookings : b = act[w].booking
  BY <1>1, RunningFacts
<1>. DEFINE prior == act[w].prior \cup (IF Recorded(s, b) THEN {s} ELSE {})
            left == act[w].unread \ {s}
<1>3. PICK p : p = IF left = {} THEN AfterRead(prior) ELSE "reading"
  OBVIOUS
<1>4. /\ act' = [act EXCEPT ![w] = [act[w] EXCEPT !.unread = left, !.prior = prior, !.pc = p]]
      /\ UNCHANGED <<job, moved, transactions>>
  BY <1>2, <1>3 DEF ReadPrior, storeVars
<1>5. /\ act'[w].pc = p /\ act'[w].booking = b
      /\ act'[w].prior = prior /\ act'[w].unread = left
      /\ \A v \in Workers : v # w => UNCHANGED act[v]
  BY <1>1, <1>2, <1>4, RunningFacts DEF Activation, TypeOK, RunTypeOK
<1>6. /\ job[b].state = "active" /\ job[b].holder = w
      /\ Unpaid(b) \/ Paid(b)
      /\ \A t \in Stages \ left : t \in prior <=> Recorded(t, b)
      /\ prior \subseteq Stages
  BY <1>1, <1>2, RunningFacts DEF StandsAt, Activation
<1>7. \A t, c : Recorded(t, c)' <=> Recorded(t, c)
  BY <1>4 DEF Recorded
<1>8. p # "idle" /\ StandsAt(w, b, p)'
  <2>1. CASE left # {}
    BY <1>3, <1>4, <1>5, <1>6, <1>7, <2>1 DEF StandsAt, Unpaid, Paid, Progress, Stages
  <2>2. CASE left = {} /\ Unpaid(b)
    <3>1. prior = {}
      BY <1>6, <2>2 DEF Unpaid, Progress
    <3>2. p = "debit"
      BY <1>3, <2>2, <3>1 DEF AfterRead
    <3>. QED
      BY <1>4, <1>5, <1>6, <1>7, <2>2, <3>1, <3>2 DEF StandsAt, Unpaid, Progress, Stages
  <2>3. CASE left = {} /\ Paid(b)
    <3>1. prior = {"DEBIT", "CREDIT"}
      BY <1>6, <2>3 DEF Paid, Progress, Stages
    <3>2. p = "emitSuccess"
      BY <1>3, <2>3, <3>1 DEF AfterRead, AfterDebit
    <3>. QED
      BY <1>4, <1>5, <1>6, <1>7, <2>3, <3>2 DEF StandsAt, Paid, Progress, Stages
  <2>. QED
    BY <1>6, <2>1, <2>2, <2>3
<1>. HIDE DEF prior, left
<1>. QED
  BY <1>1, <1>2, <1>4, <1>5, <1>7, <1>8, HandlerMoves

\* A movement of money, from one point to the next.
LEMMA MovesOrderly ==
    ASSUME Sound, Orderly, NEW w \in Workers, GuestDebit(w) \/ CreditOwner(w)
    PROVE  Orderly'
<1>1. TypeOK /\ Running(w) /\ act[w].pc \in {"debit", "creditOwner"}
  BY DEF Sound, GuestDebit, CreditOwner, At, Running
<1>2. PICK b \in Bookings : b = act[w].booking
  BY <1>1, RunningFacts
<1>3. StandsAt(w, b, act[w].pc)
  BY <1>1, <1>2, RunningFacts
<1>4. UNCHANGED <<job, transactions>> /\ \A t, c : Recorded(t, c)' <=> Recorded(t, c)
  BY DEF GuestDebit, CreditOwner, Recorded
<1>5. moved \in [Bookings -> [Stages -> Nat]]
  BY <1>1 DEF TypeOK, MovedTypeOK
<1>6. CASE GuestDebit(w)
  <2>1. act[w].pc = "debit" /\ Unpaid(b) /\ act[w].prior = {}
        /\ job[b].state = "active" /\ job[b].holder = w
    BY <1>3, <1>6 DEF GuestDebit, At, StandsAt
  <2>2. CASE Enough(Guest[b], Amount[b])
    <3>1. /\ moved' = [moved EXCEPT ![b]["DEBIT"] = @ + 1]
          /\ act' = [act EXCEPT ![w].pc = "recordDebit"]
      BY <1>2, <1>6, <2>2 DEF GuestDebit, Goto
    <3>2. /\ act'[w].pc = "recordDebit" /\ act'[w].booking = b /\ act'[w].prior = {}
          /\ \A v \in Workers : v # w => UNCHANGED act[v]
      BY <1>1, <1>2, <2>1, <3>1, GotoEffect
    <3>3. Progress(b, 1, 0, {})'
      BY <1>4, <1>5, <2>1, <3>1 DEF Progress, Unpaid, Stages
    <3>4. StandsAt(w, b, "recordDebit")'
      BY <1>4, <2>1, <3>2, <3>3 DEF StandsAt
    <3>5. \A c \in Bookings : c # b => UNCHANGED <<job[c], moved[c]>>
      BY <1>4, <1>5, <3>1
    <3>. QED
      BY <1>1, <1>2, <1>4, <3>2, <3>4, <3>5, HandlerMoves
  <2>3. CASE ~Enough(Guest[b], Amount[b])
    <3>1. UNCHANGED moved /\ act' = [act EXCEPT ![w].pc = "emitInsufficient"]
      BY <1>2, <1>6, <2>3 DEF GuestDebit, Goto
    <3>2. /\ act'[w].pc = "emitInsufficient" /\ act'[w].booking = b
          /\ \A v \in Workers : v # w => UNCHANGED act[v]
      BY <1>1, <1>2, <3>1, GotoEffect
    <3>3. StandsAt(w, b, "emitInsufficient")'
      BY <1>4, <2>1, <3>1 DEF StandsAt, Unpaid, Progress
    <3>. QED
      BY <1>1, <1>2, <1>4, <3>1, <3>2, <3>3, HandlerMoves
  <2>. QED
    BY <2>2, <2>3
<1>7. CASE CreditOwner(w)
  <2>1. act[w].pc = "creditOwner" /\ Progress(b, 1, 0, {"DEBIT"})
        /\ job[b].state = "active" /\ job[b].holder = w
    BY <1>3, <1>7 DEF CreditOwner, At, StandsAt
  <2>2. /\ moved' = [moved EXCEPT ![b]["CREDIT"] = @ + 1]
        /\ act' = [act EXCEPT ![w].pc = "recordCredit", ![w].copy = 0]
    BY <1>2, <1>7 DEF CreditOwner
  <2>3. /\ act'[w].pc = "recordCredit" /\ act'[w].booking = b
        /\ \A v \in Workers : v # w => UNCHANGED act[v]
    BY <1>1, <1>2, <2>2, GotoEffect
  <2>4. Progress(b, 1, 1, {"DEBIT"})'
    BY <1>4, <1>5, <2>1, <2>2 DEF Progress, Stages
  <2>5. StandsAt(w, b, "recordCredit")'
    BY <1>4, <2>1, <2>4 DEF StandsAt
  <2>6. \A c \in Bookings : c # b => UNCHANGED <<job[c], moved[c]>>
    BY <1>4, <1>5, <2>2
  <2>. QED
    BY <1>1, <1>2, <1>4, <2>3, <2>5, <2>6, HandlerMoves
<1>. QED
  BY <1>6, <1>7

\* A transaction recorded, from one point to the next.
LEMMA RecordsOrderly ==
    ASSUME Sound, Orderly, NEW w \in Workers, RecordDebit(w) \/ RecordCredit(w)
    PROVE  Orderly'
<1>1. TypeOK /\ Running(w) /\ act[w].pc \in {"recordDebit", "recordCredit"}
  BY DEF Sound, RecordDebit, RecordCredit, At, Running
<1>2. PICK b \in Bookings : b = act[w].booking
  BY <1>1, RunningFacts
<1>3. StandsAt(w, b, act[w].pc) /\ UNCHANGED <<job, moved>>
  BY <1>1, <1>2, RunningFacts DEF RecordDebit, RecordCredit
<1>4. ASSUME NEW s \in Stages, NEW user, CreateTransaction(s, b, user, Amount[b])
      PROVE  \A t, c : Recorded(t, c)' <=> Recorded(t, c) \/ (t = s /\ c = b)
  BY <1>4, CreateTransactionRecords
<1>5. CASE RecordDebit(w)
  <2>1. act[w].pc = "recordDebit" /\ Progress(b, 1, 0, {}) /\ act[w].prior = {}
        /\ job[b].state = "active" /\ job[b].holder = w
    BY <1>3, <1>5 DEF RecordDebit, At, StandsAt
  <2>2. /\ CreateTransaction("DEBIT", b, Guest[b], Amount[b])
        /\ act' = [act EXCEPT ![w].pc = "readOwner"]
    BY <1>2, <1>5, <2>1 DEF RecordDebit, Goto, AfterDebit
  <2>3. \A t, c : Recorded(t, c)' <=> Recorded(t, c) \/ (t = "DEBIT" /\ c = b)
    BY <1>4, <2>2 DEF Stages
  <2>4. /\ act'[w].pc = "readOwner" /\ act'[w].booking = b
        /\ \A v \in Workers : v # w => UNCHANGED act[v]
    BY <1>1, <1>2, <2>2, GotoEffect
  <2>5. StandsAt(w, b, "readOwner")'
    BY <1>3, <2>1, <2>3 DEF StandsAt, Progress
  <2>. QED
    BY <1>1, <1>2, <1>3, <2>3, <2>4, <2>5, HandlerMoves
<1>6. CASE RecordCredit(w)
  <2>1. act[w].pc = "recordCredit" /\ Progress(b, 1, 1, {"DEBIT"})
        /\ job[b].state = "active" /\ job[b].holder = w
    BY <1>3, <1>6 DEF RecordCredit, At, StandsAt
  <2>2. /\ CreateTransaction("CREDIT", b, Owner[b], Amount[b])
        /\ act' = [act EXCEPT ![w].pc = "emitSuccess"]
    BY <1>2, <1>6 DEF RecordCredit, Goto
  <2>3. \A t, c : Recorded(t, c)' <=> Recorded(t, c) \/ (t = "CREDIT" /\ c = b)
    BY <1>4, <2>2 DEF Stages
  <2>4. /\ act'[w].pc = "emitSuccess" /\ act'[w].booking = b
        /\ \A v \in Workers : v # w => UNCHANGED act[v]
    BY <1>1, <1>2, <2>2, GotoEffect
  <2>5. StandsAt(w, b, "emitSuccess")'
    BY <1>3, <2>1, <2>3 DEF StandsAt, Paid, Progress
  <2>. QED
    BY <1>1, <1>2, <1>3, <2>3, <2>4, <2>5, HandlerMoves
<1>. QED
  BY <1>5, <1>6

\* The owner's wallet is read, an outcome published: nothing moves, nothing is recorded.
LEMMA GoesOnOrderly ==
    ASSUME Sound, Orderly, NEW w \in Workers, ReadOwner(w) \/ Emit(w)
    PROVE  Orderly'
<1>1. TypeOK /\ Running(w) /\ act[w].pc \in {"readOwner", "emitSuccess", "emitRefunded", "emitInsufficient"}
  BY DEF Sound, ReadOwner, Emit, At, Running
<1>2. PICK b \in Bookings : b = act[w].booking
  BY <1>1, RunningFacts
<1>3. StandsAt(w, b, act[w].pc) /\ UNCHANGED <<job, moved, transactions>>
  BY <1>1, <1>2, RunningFacts DEF ReadOwner, Emit, storeVars
<1>4. \A t, c : Recorded(t, c)' <=> Recorded(t, c)
  BY <1>3 DEF Recorded
<1>5. PICK p \in {"creditOwner", "return"} :
         /\ p = "creditOwner" <=> act[w].pc = "readOwner"
         /\ \/ act' = [act EXCEPT ![w].pc = p]
            \/ act' = [act EXCEPT ![w].pc = p, ![w].copy = balance[Owner[b]]]
  BY <1>2 DEF ReadOwner, Emit, Goto, At
<1>6. /\ act'[w].pc = p /\ act'[w].booking = b
      /\ \A v \in Workers : v # w => UNCHANGED act[v]
  BY <1>1, <1>2, <1>5, GotoEffect
<1>7. StandsAt(w, b, p)'
  BY <1>1, <1>3, <1>4, <1>5 DEF StandsAt, Unpaid, Paid, Progress, Stages
<1>. QED
  BY <1>1, <1>2, <1>3, <1>4, <1>5, <1>6, <1>7, HandlerMoves

LEMMA ReturnsOrderly ==
    ASSUME Sound, Orderly, NEW w \in Workers, Return(w)
    PROVE  Orderly'
<1>1. TypeOK /\ Running(w) /\ act[w].pc = "return"
  BY DEF Sound, Return, At, Running
<1>2. PICK b \in Bookings : b = act[w].booking
  BY <1>1, RunningFacts
<1>3. (Unpaid(b) \/ Paid(b)) /\ job[b].holder = w /\ UNCHANGED <<moved, transactions>>
  BY <1>1, <1>2, RunningFacts DEF StandsAt, Return, storeVars
<1>4. \A t, c : Recorded(t, c)' <=> Recorded(t, c)
  BY <1>3 DEF Recorded
<1>5. /\ act' = [act EXCEPT ![w] = Idle]
      /\ job' = [job EXCEPT ![b] = [job[b] EXCEPT !.state = "completed", !.holder = NoWorker,
                                                  !.attempts = job[b].attempts + 1]]
  BY <1>2, <1>3 DEF Return, Settle
<1>6. act'[w].pc = "idle" /\ \A v \in Workers : v # w => UNCHANGED act[v]
  BY <1>1, <1>5 DEF TypeOK, RunTypeOK, Idle
<1>7. job'[b].state = "completed" /\ \A c \in Bookings : c # b => UNCHANGED job[c]
  BY <1>1, <1>5 DEF TypeOK, JobTypeOK, Job
<1>8. AtRest(b)'
  BY <1>3, <1>4, <1>7 DEF AtRest, Unpaid, Paid, Progress
<1>9. ~Running(w)' /\ Alone(w, b)
  BY <1>1, <1>2, <1>6, HolderIsAlone DEF Running
<1>10. \A v \in Workers : Running(v) => act[v].booking \in Bookings
  BY <1>1 DEF TypeOK, RunTypeOK
<1>. QED
  BY <1>2, <1>3, <1>4, <1>6, <1>7, <1>8, <1>9, <1>10, OneMoves

-----------------------------------------------------------------------------
(***************************************************************************)
(* The queue, the other requests, and all steps together.                  *)
(***************************************************************************)
\* A job that waits or is done has no activation.
LEMMA NobodyOn ==
    ASSUME Orderly, NEW b \in Bookings, job[b].state # "active"
    PROVE  AtRest(b) /\ \A w \in Workers : ~On(w, b)
BY DEF Orderly, On, Stands, StandsAt

LEMMA TakesOrderly ==
    ASSUME Sound, Orderly, NEW w \in Workers, NEW b \in Bookings, PickJob(w, b)
    PROVE  Orderly'
<1>1. TypeOK /\ ~Running(w) /\ job[b].state = "waiting"
  BY DEF Sound, PickJob, Running
<1>2. AtRest(b) /\ Alone(w, b)
  BY <1>1, NobodyOn DEF Alone
<1>. DEFINE a == [Idle EXCEPT !.pc = "reading", !.booking = b, !.unread = Stages]
<1>3. /\ act' = [act EXCEPT ![w] = a]
      /\ job' = [job EXCEPT ![b] = [job[b] EXCEPT !.state = "active", !.holder = w]]
      /\ UNCHANGED <<moved, transactions>>
  BY DEF PickJob, storeVars
<1>4. a.pc = "reading" /\ a.booking = b /\ a.unread = Stages
  BY DEF Idle
<1>. HIDE DEF a
<1>5. act'[w] = a /\ \A v \in Workers : v # w => UNCHANGED act[v]
  BY <1>1, <1>3 DEF TypeOK, RunTypeOK
<1>6. /\ job'[b].state = "active" /\ job'[b].holder = w
      /\ \A c \in Bookings : c # b => UNCHANGED job[c]
  BY <1>1, <1>3 DEF TypeOK, JobTypeOK, Job
<1>7. \A t, c : Recorded(t, c)' <=> Recorded(t, c)
  BY <1>3 DEF Recorded
<1>8. Running(w)' /\ act'[w].booking = b /\ Stands(w)'
  BY <1>2, <1>3, <1>4, <1>5, <1>6, <1>7 DEF Running, Stands, StandsAt, AtRest, Unpaid, Paid, Progress
<1>9. \A v \in Workers : Running(v) => act[v].booking \in Bookings
  BY <1>1 DEF TypeOK, RunTypeOK
<1>. QED
  BY <1>1, <1>2, <1>3, <1>5, <1>6, <1>7, <1>8, <1>9, OneMoves

\* A message enqueued or a job forgotten; a lock does not expire under a live activation.
LEMMA QueuesOrderly ==
    ASSUME Sound, Orderly, NEW b \in Bookings, QueueStep(b), Undisturbed, Undisturbed'
    PROVE  Orderly'
<1>1. TypeOK /\ UNCHANGED <<act, moved, transactions>>
  BY DEF Sound, QueueStep, EnqueuePaymentJob, ExpireJob, LockExpires, storeVars
<1>2. \A t, c : Recorded(t, c)' <=> Recorded(t, c)
  BY <1>1 DEF Recorded
<1>3. CASE EnqueuePaymentJob(b) \/ ExpireJob(b)
  <2>1. job[b].state # "active" /\ job'[b].state # "active"
        /\ \A c \in Bookings : c # b => UNCHANGED job[c]
    BY <1>1, <1>3 DEF EnqueuePaymentJob, ExpireJob, NoJob, TypeOK, JobTypeOK, Job
  <2>2. AtRest(b) /\ \A w \in Workers : ~On(w, b)
    BY <2>1, NobodyOn
  <2>3. AtRest(b)'
    BY <1>1, <1>2, <2>1, <2>2 DEF AtRest, Unpaid, Paid, Progress
  <2>4. ASSUME NEW v \in Workers, Running(v)' PROVE Stands(v)'
    <3>1. Running(v) /\ act[v].booking \in Bookings /\ act[v].booking # b
      BY <1>1, <2>2, <2>4 DEF Running, On, TypeOK, RunTypeOK
    <3>2. Stands(v)
      BY <3>1 DEF Orderly
    <3>. QED
      BY <1>1, <1>2, <2>1, <3>1, <3>2, SameBooking
  <2>5. ASSUME NEW c \in Bookings, \A v \in Workers : ~On(v, c)' PROVE AtRest(c)'
    <3>1. AtRest(c)
      BY <1>1, <2>5 DEF Orderly, On, Running
    <3>. QED
      BY <1>1, <1>2, <2>1, <2>3, <3>1, SameBooking
  <2>. QED
    BY <2>4, <2>5 DEF Orderly
<1>4. CASE LockExpires(b)
  <2>1. PICK w \in Workers : On(w, b)
    BY <1>4 DEF LockExpires, Orderly, AtRest
  <2>2. job[b].holder = w
    BY <2>1 DEF Orderly, On, Stands, StandsAt
  <2>3. spent' = [spent EXCEPT !.stalls = @ + 1]
    BY <1>4, <2>2, PaymentAssumption DEF LockExpires
  <2>4. FALSE
    BY <2>3 DEF Undisturbed
  <2>. QED
    BY <2>4
<1>. QED
  BY <1>3, <1>4 DEF QueueStep

\* A failure, a death or a stall is never undone.
LEMMA NoFailure ==
    ASSUME TypeOK, Next, Undisturbed'
    PROVE  /\ Undisturbed
           /\ \A w \in Workers : ~Disturb(w)
           /\ \A r \in TopUps : ~DropRequest(r)
<1>1. PICK f \in Nat, c \in Nat, l \in Nat : spent = [faults |-> f, crashes |-> c, stalls |-> l]
  BY DEF TypeOK, SpentTypeOK
<1>2. ~Spend
  BY <1>1 DEF Spend, Undisturbed
<1>3. \A w \in Workers : ~Disturb(w)
  BY <1>1, <1>2 DEF Disturb, Disturbance, CreditFails, CreditUnacknowledged, AttemptFails, Crash, Undisturbed
<1>4. \A r \in TopUps : ~DropRequest(r)
  BY <1>2 DEF DropRequest
<1>5. UNCHANGED spent \/ spent' = [spent EXCEPT !.stalls = @ + 1]
  <2>1. ASSUME NEW b \in Bookings, Queue(b) PROVE UNCHANGED spent \/ spent' = [spent EXCEPT !.stalls = @ + 1]
    BY <2>1 DEF Queue, QueueStep, EnqueuePaymentJob, ExpireJob, LockExpires
  <2>2. ASSUME NEW w \in Workers, Handle(w) PROVE UNCHANGED spent
    BY <2>2 DEF Handle, HandlerStep, ReadPrior, GuestDebit, RecordDebit, ReadOwner, CreditOwner,
        RecordCredit, FindRefund, ReadGuest, RefundGuest, RecordRefund, Emit, Return
  <2>3. ASSUME NEW w \in Workers, NEW b \in Bookings, TakeJob(w, b) PROVE UNCHANGED spent
    BY <2>3 DEF TakeJob, PickJob
  <2>4. ASSUME NEW r \in TopUps, Accept(r) \/ Serve(r) PROVE UNCHANGED spent
    BY <2>4 DEF Accept, Serve, processorVars
  <2>. QED
    BY <1>3, <1>4, <2>1, <2>2, <2>3, <2>4 DEF Next
<1>6. Undisturbed
  BY <1>1, <1>5 DEF Undisturbed
<1>. QED
  BY <1>3, <1>4, <1>6

\* The refund stage is not reached.
LEMMA NoRefund ==
    ASSUME Sound, Orderly, NEW w \in Workers, Running(w)
    PROVE  /\ act[w].pc \notin {"findRefund", "readGuest", "refundGuest", "recordRefund", "emitRefunded"}
           /\ ~FindRefund(w) /\ ~ReadGuest(w) /\ ~RefundGuest(w) /\ ~RecordRefund(w)
<1>1. act[w].pc \notin {"findRefund", "readGuest", "refundGuest", "recordRefund", "emitRefunded"}
  BY RunningFacts DEF StandsAt
<1>. QED
  BY <1>1 DEF FindRefund, ReadGuest, RefundGuest, RecordRefund, At

LEMMA HandlesOrderly ==
    ASSUME Sound, Orderly, NEW w \in Workers, HandlerStep(w)
    PROVE  Orderly'
<1>1. FindRefund(w) \/ ReadGuest(w) \/ RefundGuest(w) \/ RecordRefund(w) => Running(w)
  BY DEF FindRefund, ReadGuest, RefundGuest, RecordRefund, At, Running
<1>. QED
  BY <1>1, NoRefund, ReadsOrderly, MovesOrderly, RecordsOrderly, GoesOnOrderly, ReturnsOrderly
  DEF HandlerStep

LEMMA NextSteady == Sound /\ Steady /\ [Next]_vars => Steady'
<1>. SUFFICES ASSUME Sound, Steady, [Next]_vars, Undisturbed' PROVE Orderly'
  BY DEF Steady
<1>1. TypeOK
  BY DEF Sound
<1>2. CASE UNCHANGED vars
  <2>1. Undisturbed /\ UNCHANGED <<act, job, moved, transactions>>
    BY <1>2 DEF vars, storeVars, processorVars, Undisturbed
  <2>. QED
    BY <1>1, <2>1, NoneMoves DEF Steady, Recorded
<1>3. CASE Next
  <2>1. Undisturbed /\ Orderly
    BY <1>1, <1>3, NoFailure DEF Steady
  <2>2. ASSUME NEW b \in Bookings, Queue(b) PROVE Orderly'
    BY <2>1, <2>2, QueuesOrderly DEF Queue
  <2>3. ASSUME NEW w \in Workers, Handle(w) PROVE Orderly'
    BY <2>1, <2>3, HandlesOrderly DEF Handle
  <2>4. ASSUME NEW w \in Workers, NEW b \in Bookings, TakeJob(w, b) PROVE Orderly'
    BY <2>1, <2>4, TakesOrderly DEF TakeJob
  <2>5. ASSUME NEW r \in TopUps, Accept(r) \/ Serve(r) PROVE Orderly'
    <3>1. UNCHANGED <<act, job, moved>>
      BY <2>5 DEF Accept, Serve, processorVars
    <3>2. \/ UNCHANGED transactions
          \/ CreateTransaction("TOP_UP", TopUpKey[r], TopUpUser[r], TopUpAmount[r])
      BY <2>5 DEF Accept, Arrive, Serve, TopUpStep, FindExisting, ReadWallet, SaveTopUp, RecordTopUp, storeVars
    <3>3. \A s \in Stages : \A c : Recorded(s, c)' <=> Recorded(s, c)
      <4>1. CASE UNCHANGED transactions
        BY <4>1 DEF Recorded
      <4>2. CASE CreateTransaction("TOP_UP", TopUpKey[r], TopUpUser[r], TopUpAmount[r])
        BY <4>2, CreateTransactionRecords DEF Stages
      <4>. QED
        BY <3>2, <4>1, <4>2
    <3>. QED
      BY <1>1, <2>1, <3>1, <3>3, NoneMoves
  <2>. QED
    BY <1>1, <1>3, <2>2, <2>3, <2>4, <2>5, NoFailure DEF Next
<1>. QED
  BY <1>2, <1>3

LEMMA InitSteady == Init => Steady
<1>. SUFFICES ASSUME Init PROVE Orderly
  BY DEF Steady
<1>1. \A w \in Workers : ~Running(w)
  BY DEF Init, ProcessorInit, Idle, Running
<1>2. ASSUME NEW b \in Bookings PROVE AtRest(b)
  BY DEF Init, StoreInit, ProcessorInit, NoJob, AtRest, Unpaid, Progress, Recorded, Stages
<1>. QED
  BY <1>1, <1>2 DEF Orderly

-----------------------------------------------------------------------------
(***************************************************************************)
(* The refinement of IdealPayments.                                        *)
(***************************************************************************)
phases == [b \in Bookings |-> Phase(b)]

reported == {b \in Bookings : Success(b) \in events}

unpayable == {b \in Bookings : \E e \in events : e.booking = b /\ e.type = "PAYMENT_FAILED"}

idealState == <<phases, reported, unpayable>>

LEMMA MovesAre ==
    ASSUME NEW m \in [Stages -> Nat], m["REFUND"] = 0, NEW debits, NEW credits
    PROVE  m = Moves(debits, credits, 0) <=> m["DEBIT"] = debits /\ m["CREDIT"] = credits
BY DEF Moves, Stages

\* How far a booking has come, by its movements.
LEMMA PhaseOf ==
    ASSUME NEW b \in Bookings, MovedTypeOK, moved[b]["REFUND"] = 0
    PROVE  /\ moved[b]["DEBIT"] = 0 /\ moved[b]["CREDIT"] = 0 => Phase(b) = "unpaid"
           /\ moved[b]["DEBIT"] = 1 /\ moved[b]["CREDIT"] = 0 => Phase(b) = "charged"
           /\ moved[b]["DEBIT"] = 1 /\ moved[b]["CREDIT"] = 1 => Phase(b) = "paid"
<1>1. moved[b] \in [Stages -> Nat]
  BY DEF MovedTypeOK
<1>. QED
  BY <1>1, MovesAre DEF Phase

\* A movement on one booking is one step of its phase.
LEMMA PhaseMoves ==
    ASSUME NEW b \in Bookings, \A c \in Bookings : c # b => UNCHANGED moved[c], UNCHANGED events
    PROVE  phases' = [phases EXCEPT ![b] = Phase(b)'] /\ UNCHANGED <<reported, unpayable>>
<1>1. \A c \in Bookings : c # b => Phase(c)' = Phase(c)
  BY DEF Phase
<1>. QED
  BY <1>1 DEF phases, reported, unpayable

LEMMA NothingMoves ==
    ASSUME UNCHANGED <<moved, events>>
    PROVE  UNCHANGED idealState
BY DEF idealState, phases, Phase, reported, unpayable

\* Charge: the debit of an unpaid booking.
LEMMA DebitRefines ==
    ASSUME Sound, Orderly, Sound', NEW w \in Workers, GuestDebit(w)
    PROVE  [Ideal!Next]_idealState
<1>1. MovedTypeOK /\ MovedTypeOK' /\ Running(w) /\ act[w].pc = "debit"
  BY DEF Sound, TypeOK, GuestDebit, At, Running
<1>2. PICK b \in Bookings : b = act[w].booking
  BY <1>1, RunningFacts
<1>3. Unpaid(b)
  BY <1>1, <1>2, RunningFacts DEF StandsAt
<1>4. CASE Enough(Guest[b], Amount[b])
  <2>1. moved' = [moved EXCEPT ![b]["DEBIT"] = @ + 1] /\ UNCHANGED events
    BY <1>2, <1>4 DEF GuestDebit
  <2>2. Phase(b) = "unpaid"
    BY <1>1, <1>3, PhaseOf DEF Unpaid, Progress
  <2>3. moved'[b] \in [Stages -> Nat]
    BY <1>1 DEF MovedTypeOK
  <2>4. moved'[b]["DEBIT"] = 1 /\ moved'[b]["CREDIT"] = 0 /\ moved'[b]["REFUND"] = 0
    BY <1>1, <1>3, <2>1 DEF MovedTypeOK, Unpaid, Progress, Stages
  <2>5. Phase(b)' = "charged"
    BY <2>3, <2>4, MovesAre DEF Phase
  <2>6. \A c \in Bookings : c # b => UNCHANGED moved[c]
    BY <1>1, <2>1 DEF MovedTypeOK
  <2>7. Ideal!Charge(b)
    BY <2>1, <2>2, <2>5, <2>6, PhaseMoves DEF Ideal!Charge, phases, reported, unpayable
  <2>. QED
    BY <2>7 DEF Ideal!Next
<1>5. CASE ~Enough(Guest[b], Amount[b])
  BY <1>2, <1>5, NothingMoves DEF GuestDebit
<1>. QED
  BY <1>4, <1>5

\* Pay: the credit of a charged booking.
LEMMA CreditRefines ==
    ASSUME Sound, Orderly, Sound', NEW w \in Workers, CreditOwner(w)
    PROVE  [Ideal!Next]_idealState
<1>1. MovedTypeOK /\ MovedTypeOK' /\ Running(w) /\ act[w].pc = "creditOwner"
  BY DEF Sound, TypeOK, CreditOwner, At, Running
<1>2. PICK b \in Bookings : b = act[w].booking
  BY <1>1, RunningFacts
<1>3. Progress(b, 1, 0, {"DEBIT"})
  BY <1>1, <1>2, RunningFacts DEF StandsAt
<1>4. moved' = [moved EXCEPT ![b]["CREDIT"] = @ + 1] /\ UNCHANGED events
  BY <1>2 DEF CreditOwner
<1>5. Phase(b) = "charged"
  BY <1>1, <1>3, PhaseOf DEF Progress
<1>6. moved'[b] \in [Stages -> Nat]
  BY <1>1 DEF MovedTypeOK
<1>7. moved'[b]["DEBIT"] = 1 /\ moved'[b]["CREDIT"] = 1 /\ moved'[b]["REFUND"] = 0
  BY <1>1, <1>3, <1>4 DEF MovedTypeOK, Progress, Stages
<1>8. Phase(b)' = "paid"
  BY <1>6, <1>7, MovesAre DEF Phase
<1>9. \A c \in Bookings : c # b => UNCHANGED moved[c]
  BY <1>1, <1>4 DEF MovedTypeOK
<1>10. Ideal!Pay(b)
  BY <1>4, <1>5, <1>8, <1>9, PhaseMoves DEF Ideal!Pay, phases, reported, unpayable
<1>. QED
  BY <1>10 DEF Ideal!Next

\* ReportPaid and Refuse: an outcome published for a paid or an unpaid booking.
LEMMA EmitRefines ==
    ASSUME Sound, Orderly, NEW w \in Workers, Emit(w)
    PROVE  [Ideal!Next]_idealState
<1>1. MovedTypeOK /\ Running(w) /\ act[w].pc \in {"emitSuccess", "emitInsufficient"}
  BY NoRefund DEF Sound, TypeOK, Emit, At, Running
<1>2. PICK b \in Bookings : b = act[w].booking
  BY <1>1, RunningFacts
<1>3. UNCHANGED moved /\ UNCHANGED phases
  BY DEF Emit, phases, Phase
<1>4. CASE act[w].pc = "emitSuccess"
  <2>1. Paid(b)
    BY <1>2, <1>4, <1>1, RunningFacts DEF StandsAt
  <2>2. Phase(b) = "paid"
    BY <1>1, <2>1, PhaseOf DEF Paid, Progress
  <2>3. events' = events \cup {Success(b)}
    BY <1>2, <1>4 DEF Emit, At
  <2>4. reported' = reported \cup {b}
    BY <2>3 DEF reported, Success
  <2>5. unpayable' = unpayable
    BY <2>3 DEF unpayable, Success
  <2>6. Ideal!ReportPaid(b)
    BY <1>3, <2>2, <2>4, <2>5 DEF Ideal!ReportPaid, phases, reported, unpayable
  <2>. QED
    BY <2>6 DEF Ideal!Next
<1>5. CASE act[w].pc = "emitInsufficient"
  <2>1. Unpaid(b)
    BY <1>2, <1>5, <1>1, RunningFacts DEF StandsAt
  <2>2. Phase(b) = "unpaid"
    BY <1>1, <2>1, PhaseOf DEF Unpaid, Progress
  <2>3. events' = events \cup {Failed(b, "INSUFFICIENT_BALANCE")}
    BY <1>2, <1>5 DEF Emit, At
  <2>4. reported' = reported
    BY <2>3 DEF reported, Success, Failed
  <2>5. unpayable' = unpayable \cup {b}
    <3>1. PICK f : f = Failed(b, "INSUFFICIENT_BALANCE")
      OBVIOUS
    <3>2. f.booking = b /\ f.type = "PAYMENT_FAILED" /\ events' = events \cup {f}
      BY <2>3, <3>1 DEF Failed
    <3>. QED
      BY <3>2 DEF unpayable
  <2>6. Ideal!Refuse(b)
    BY <1>3, <2>2, <2>4, <2>5 DEF Ideal!Refuse, phases, reported, unpayable
  <2>. QED
    BY <2>6 DEF Ideal!Next
<1>. QED
  BY <1>1, <1>4, <1>5

LEMMA NextRefines ==
    ASSUME Sound, Steady, [Next]_vars, Sound', Undisturbed'
    PROVE  [Ideal!Next]_idealState
<1>1. CASE UNCHANGED vars
  BY <1>1, NothingMoves DEF vars, processorVars
<1>2. CASE Next
  <2>1. TypeOK /\ Undisturbed /\ Orderly
    BY <1>2, NoFailure DEF Steady, Sound
  <2>2. ASSUME NEW b \in Bookings, Queue(b) PROVE UNCHANGED idealState
    BY <2>2, NothingMoves DEF Queue, QueueStep, EnqueuePaymentJob, ExpireJob, LockExpires
  <2>3. ASSUME NEW w \in Workers, Handle(w) PROVE [Ideal!Next]_idealState
    <3>1. CASE GuestDebit(w) \/ CreditOwner(w) \/ Emit(w)
      BY <2>1, <3>1, DebitRefines, CreditRefines, EmitRefines
    <3>2. CASE \/ \E s \in Stages : ReadPrior(w, s)
               \/ RecordDebit(w) \/ ReadOwner(w) \/ RecordCredit(w) \/ Return(w)
      BY <3>2, NothingMoves DEF ReadPrior, RecordDebit, ReadOwner, RecordCredit, Return
    <3>3. ~FindRefund(w) /\ ~ReadGuest(w) /\ ~RefundGuest(w) /\ ~RecordRefund(w)
      BY <2>1, NoRefund DEF FindRefund, ReadGuest, RefundGuest, RecordRefund, At, Running
    <3>. QED
      BY <2>3, <3>1, <3>2, <3>3 DEF Handle, HandlerStep
  <2>4. ASSUME NEW w \in Workers, NEW b \in Bookings, TakeJob(w, b) PROVE UNCHANGED idealState
    BY <2>4, NothingMoves DEF TakeJob, PickJob
  <2>5. ASSUME NEW r \in TopUps, Accept(r) \/ Serve(r) PROVE UNCHANGED idealState
    BY <2>5, NothingMoves DEF Accept, Serve, processorVars
  <2>. QED
    BY <1>2, <2>1, <2>2, <2>3, <2>4, <2>5, NoFailure DEF Next
<1>. QED
  BY <1>1, <1>2

-----------------------------------------------------------------------------
(***************************************************************************)
(* While no lock expires under a live activation, calls may fail and       *)
(* activations may die, and still a booking that was reported paid is      *)
(* never reported otherwise.  An activation has its booking to itself, so  *)
(* what it has seen is what is recorded: Sees says what that means at each *)
(* point of the handler.                                                   *)
(***************************************************************************)
\* The debit and the credit are recorded, and no refund is.
Settled(b) == Recorded("DEBIT", b) /\ Recorded("CREDIT", b) /\ ~Recorded("REFUND", b)

RefundStage == {"findRefund", "readGuest", "refundGuest", "recordRefund", "emitRefunded"}

SeesAt(w, b, pc) ==
    /\ job[b].state = "active" /\ job[b].holder = w
    /\ pc = "reading" => \A s \in Stages \ act[w].unread : s \in act[w].prior <=> Recorded(s, b)
    /\ pc \in {"debit", "recordDebit"} => act[w].prior = {}
    /\ pc \in {"debit", "recordDebit", "emitInsufficient"} => ~Recorded("DEBIT", b)
    /\ pc \in CreditStage => ~Recorded("CREDIT", b) /\ ~Recorded("REFUND", b)
    /\ pc = "emitSuccess" => Settled(b)
    /\ pc \in RefundStage => Success(b) \notin events

Sees(w) == SeesAt(w, act[w].booking, act[w].pc)

Faithful ==
    /\ \A w \in Workers : Running(w) => Sees(w)
    /\ \A b \in Bookings : Success(b) \in events => Settled(b)

\* What Faithful says of a booking and its activation depends on these alone.
LEMMA SameSight ==
    ASSUME NEW b, UNCHANGED job[b],
           \A s \in Stages : Recorded(s, b)' <=> Recorded(s, b),
           (Success(b) \in events)' <=> Success(b) \in events
    PROVE  /\ (Success(b) \in events => Settled(b)) => (Success(b) \in events => Settled(b))'
           /\ \A v \in Workers : act'[v] = act[v] /\ act[v].booking = b => (Sees(v) => Sees(v)')
<1>1. Settled(b)' <=> Settled(b)
  BY DEF Settled, Stages
<1>2. /\ Recorded("DEBIT", b)' <=> Recorded("DEBIT", b)
      /\ Recorded("CREDIT", b)' <=> Recorded("CREDIT", b)
      /\ Recorded("REFUND", b)' <=> Recorded("REFUND", b)
  BY DEF Stages
<1>3. ASSUME NEW v \in Workers, act'[v] = act[v], act[v].booking = b, Sees(v) PROVE Sees(v)'
  <2>1. SeesAt(v, b, act[v].pc)
    BY <1>3 DEF Sees
  <2>2. SeesAt(v, b, act[v].pc)'
    BY <1>1, <1>2, <1>3, <2>1 DEF SeesAt
  <2>. QED
    BY <1>3, <2>2 DEF Sees
<1>. QED
  BY <1>1, <1>3

\* A step of activation w, if of any, on booking b.
LEMMA OneSees ==
    ASSUME TypeOK, Faithful, NEW w \in Workers, NEW b \in Bookings,
           \A v \in Workers : v # w => UNCHANGED act[v] /\ ~On(v, b),
           \A v \in Workers : v # w /\ Running(v) => job'[act[v].booking] = job[act[v].booking],
           \A c \in Bookings : c # b =>
              /\ \A s \in Stages : Recorded(s, c)' <=> Recorded(s, c)
              /\ (Success(c) \in events)' <=> Success(c) \in events,
           Running(w)' => Sees(w)',
           (Success(b) \in events => Settled(b))'
    PROVE  Faithful'
<1>1. ASSUME NEW v \in Workers, Running(v)' PROVE Sees(v)'
  <2>1. CASE v = w
    BY <1>1, <2>1
  <2>2. CASE v # w
    <3>1. act'[v] = act[v] /\ Running(v)
      BY <1>1, <2>2 DEF Running
    <3>2. PICK c \in Bookings : c = act[v].booking
      BY <3>1 DEF TypeOK, RunTypeOK
    <3>3. c # b /\ UNCHANGED job[c]
      BY <2>2, <3>1, <3>2 DEF On
    <3>4. Sees(v)
      BY <3>1 DEF Faithful
    <3>. QED
      BY <3>1, <3>2, <3>3, <3>4, SameSight
  <2>. QED
    BY <2>1, <2>2
<1>2. ASSUME NEW c \in Bookings, (Success(c) \in events)' PROVE Settled(c)'
  <2>1. CASE c = b
    BY <1>2, <2>1
  <2>2. CASE c # b
    BY <1>2, <2>2 DEF Faithful, Settled, Stages
  <2>. QED
    BY <2>1, <2>2
<1>. QED
  BY <1>1, <1>2 DEF Faithful

\* No activation moves, nothing of a running one's job changes.
LEMMA NoneSees ==
    ASSUME TypeOK, Faithful, UNCHANGED <<act, events>>,
           \A v \in Workers : Running(v) => job'[act[v].booking] = job[act[v].booking],
           \A b \in Bookings, s \in Stages : Recorded(s, b)' <=> Recorded(s, b)
    PROVE  Faithful'
<1>1. ASSUME NEW v \in Workers, Running(v)' PROVE Sees(v)'
  <2>1. PICK c \in Bookings : c = act[v].booking /\ Running(v)
    BY <1>1 DEF TypeOK, RunTypeOK, Running
  <2>2. Sees(v) /\ UNCHANGED job[c]
    BY <2>1 DEF Faithful
  <2>3. \A s \in Stages : Recorded(s, c)' <=> Recorded(s, c)
    BY <2>1
  <2>4. (Success(c) \in events)' <=> Success(c) \in events
    BY DEF Success
  <2>. QED
    BY <2>1, <2>2, <2>3, <2>4, SameSight
<1>2. ASSUME NEW c \in Bookings, (Success(c) \in events)' PROVE Settled(c)'
  <2>1. Success(c) \in events
    BY <1>2 DEF Success
  <2>. QED
    BY <2>1 DEF Faithful, Settled, Stages
<1>. QED
  BY <1>1, <1>2 DEF Faithful

\* What a step of a running activation starts from.
LEMMA SeenFacts ==
    ASSUME Sound, Faithful, NEW w \in Workers, Running(w)
    PROVE  /\ TypeOK /\ act[w].booking \in Bookings /\ act[w] \in Activation
           /\ SeesAt(w, act[w].booking, act[w].pc)
           /\ \A v \in Workers : v # w => ~On(v, act[w].booking)
           /\ \A s \in act[w].prior : s \in Stages /\ Recorded(s, act[w].booking)
           /\ Recorded("CREDIT", act[w].booking) => Recorded("DEBIT", act[w].booking)
           /\ Recorded("REFUND", act[w].booking) => Recorded("DEBIT", act[w].booking)
<1>1. TypeOK
  BY DEF Sound
<1>2. act[w].booking \in Bookings /\ act[w] \in Activation
  BY <1>1, RunningTypes
<1>3. SeesAt(w, act[w].booking, act[w].pc)
  BY DEF Faithful, Sees
<1>4. ASSUME NEW v \in Workers, v # w, On(v, act[w].booking) PROVE FALSE
  <2>1. job[act[w].booking].holder = v
    BY <1>4 DEF On, Faithful, Sees, SeesAt
  <2>. QED
    BY <1>3, <1>4, <2>1 DEF SeesAt
<1>5. \A s \in act[w].prior : s \in Stages /\ Recorded(s, act[w].booking)
  BY <1>2 DEF Sound, Knows, Activation
<1>6. /\ Recorded("CREDIT", act[w].booking) => Recorded("DEBIT", act[w].booking)
      /\ Recorded("REFUND", act[w].booking) => Recorded("DEBIT", act[w].booking)
  BY <1>2 DEF Sound, LedgerBehindMoney, Stages
<1>. QED
  BY <1>1, <1>2, <1>3, <1>4, <1>5, <1>6

\* A step of activation w to another point of the handler.
LEMMA HandlerSees ==
    ASSUME Sound, Faithful, NEW w \in Workers, Running(w), NEW b \in Bookings, b = act[w].booking,
           UNCHANGED job,
           \A v \in Workers : v # w => UNCHANGED act[v],
           act'[w].booking = b,
           \A c \in Bookings : c # b =>
              /\ \A s \in Stages : Recorded(s, c)' <=> Recorded(s, c)
              /\ (Success(c) \in events)' <=> Success(c) \in events,
           NEW p, p = act'[w].pc, SeesAt(w, b, p)',
           (Success(b) \in events => Settled(b))'
    PROVE  Faithful'
<1>1. TypeOK /\ \A v \in Workers : v # w => ~On(v, b)
  BY SeenFacts
<1>2. Sees(w)'
  BY DEF Sees, SeesAt
<1>. QED
  BY <1>1, <1>2, OneSees

\* A query of getPaymentState answers: it sees what is recorded, and nobody writes after it.
LEMMA ReadsSees ==
    ASSUME Sound, Faithful, NEW w \in Workers, NEW s \in Stages, ReadPrior(w, s)
    PROVE  Faithful'
<1>1. Running(w) /\ act[w].pc = "reading"
  BY DEF ReadPrior, At, Running
<1>2. PICK b \in Bookings : b = act[w].booking
  BY <1>1, SeenFacts
<1>. DEFINE prior == act[w].prior \cup (IF Recorded(s, b) THEN {s} ELSE {})
            left == act[w].unread \ {s}
<1>3. PICK p : p = IF left = {} THEN AfterRead(prior) ELSE "reading"
  OBVIOUS
<1>4. /\ act' = [act EXCEPT ![w] = [act[w] EXCEPT !.unread = left, !.prior = prior, !.pc = p]]
      /\ UNCHANGED <<job, events, transactions>>
  BY <1>2, <1>3 DEF ReadPrior, storeVars
<1>5. /\ act'[w].pc = p /\ act'[w].booking = b
      /\ act'[w].prior = prior /\ act'[w].unread = left
      /\ \A v \in Workers : v # w => UNCHANGED act[v]
  BY <1>1, <1>2, <1>4, SeenFacts DEF Activation, TypeOK, RunTypeOK
<1>6. /\ job[b].state = "active" /\ job[b].holder = w
      /\ \A t \in Stages \ left : t \in prior <=> Recorded(t, b)
      /\ prior \subseteq Stages
      /\ Recorded("CREDIT", b) \/ Recorded("REFUND", b) => Recorded("DEBIT", b)
  BY <1>1, <1>2, SeenFacts DEF SeesAt
<1>7. \A t, c : Recorded(t, c)' <=> Recorded(t, c)
  BY <1>4 DEF Recorded
<1>8. \A c : (Success(c) \in events)' <=> Success(c) \in events
  BY <1>4 DEF Success
<1>9. (Success(b) \in events => Settled(b))'
  BY <1>7, <1>8 DEF Faithful, Settled
<1>10. SeesAt(w, b, p)'
  <2>1. CASE left # {}
    <3>1. p = "reading"
      BY <1>3, <2>1
    <3>. QED
      BY <1>4, <1>5, <1>6, <1>7, <3>1 DEF SeesAt, CreditStage, RefundStage
  <2>2. CASE left = {}
    <3>1. /\ "DEBIT" \in prior <=> Recorded("DEBIT", b)
          /\ "CREDIT" \in prior <=> Recorded("CREDIT", b)
          /\ "REFUND" \in prior <=> Recorded("REFUND", b)
      BY <1>6, <2>2 DEF Stages
    <3>2. CASE "REFUND" \in prior
      <4>1. p = "emitRefunded" /\ ~Settled(b)
        BY <1>3, <2>2, <3>1, <3>2 DEF AfterRead, Settled
      <4>2. (Success(b) \notin events)'
        BY <1>8, <4>1 DEF Faithful
      <4>. QED
        BY <1>4, <1>6, <4>1, <4>2 DEF SeesAt, CreditStage
    <3>3. CASE "REFUND" \notin prior /\ "DEBIT" \in prior /\ "CREDIT" \in prior
      <4>1. p = "emitSuccess" /\ Settled(b)
        BY <1>3, <2>2, <3>1, <3>3 DEF AfterRead, AfterDebit, Settled
      <4>2. Settled(b)'
        BY <1>7, <4>1 DEF Settled
      <4>. QED
        BY <1>4, <1>6, <4>1, <4>2 DEF SeesAt, CreditStage, RefundStage
    <3>4. CASE "REFUND" \notin prior /\ "DEBIT" \in prior /\ "CREDIT" \notin prior
      <4>1. p = "readOwner"
        BY <1>3, <2>2, <3>4 DEF AfterRead, AfterDebit
      <4>. QED
        BY <1>4, <1>6, <1>7, <3>1, <3>4, <4>1 DEF SeesAt, CreditStage, RefundStage
    <3>5. CASE "REFUND" \notin prior /\ "DEBIT" \notin prior
      <4>1. p = "debit" /\ prior = {}
        BY <1>3, <1>6, <2>2, <3>1, <3>5 DEF AfterRead, Stages
      <4>. QED
        BY <1>4, <1>5, <1>6, <1>7, <3>1, <3>5, <4>1 DEF SeesAt, CreditStage, RefundStage
    <3>. QED
      BY <3>2, <3>3, <3>4, <3>5
  <2>. QED
    BY <2>1, <2>2
<1>. HIDE DEF prior, left
<1>. QED
  BY <1>1, <1>2, <1>4, <1>5, <1>7, <1>8, <1>9, <1>10, HandlerSees

\* The steps that neither record nor publish, with where each goes on.
Silent(w, p) ==
    LET pc == act[w].pc
    IN  \/ pc = "debit" /\ p \in {"recordDebit", "emitInsufficient"}
        \/ pc \in CreditStage /\ p \in CreditStage \cup {"findRefund"}
        \/ pc \in RefundStage /\ p \in RefundStage

LEMMA SilentSees ==
    ASSUME Sound, Faithful, NEW w \in Workers, Running(w), NEW p, Silent(w, p), NEW c,
           \/ act' = [act EXCEPT ![w].pc = p]
           \/ act' = [act EXCEPT ![w].pc = p, ![w].copy = c],
           UNCHANGED <<job, events, transactions>>
    PROVE  Faithful'
<1>0. TypeOK
  BY DEF Sound
<1>1. PICK b \in Bookings : b = act[w].booking
  BY SeenFacts
<1>2. /\ act'[w].pc = p /\ act'[w].booking = b /\ act'[w].prior = act[w].prior
      /\ \A v \in Workers : v # w => UNCHANGED act[v]
  BY <1>0, <1>1, GotoEffect
<1>3. \A t, d : Recorded(t, d)' <=> Recorded(t, d)
  BY DEF Recorded
<1>4. \A d : (Success(d) \in events)' <=> Success(d) \in events
  BY DEF Success
<1>5. Success(b) \in events => Settled(b)
  BY DEF Faithful
<1>6. (Success(b) \in events => Settled(b))'
  BY <1>3, <1>4, <1>5 DEF Settled
<1>7. SeesAt(w, b, act[w].pc)
  BY <1>1, SeenFacts
<1>8. SeesAt(w, b, p)'
  <2>1. CASE act[w].pc = "debit" /\ p \in {"recordDebit", "emitInsufficient"}
    BY <1>2, <1>3, <1>7, <2>1 DEF SeesAt, CreditStage, RefundStage
  <2>2. CASE act[w].pc \in CreditStage /\ p \in CreditStage \cup {"findRefund"}
    <3>1. ~Recorded("CREDIT", b) /\ ~Recorded("REFUND", b)
      BY <1>7, <2>2 DEF SeesAt
    <3>2. (Success(b) \notin events)'
      BY <1>4, <1>5, <3>1 DEF Settled
    <3>. QED
      BY <1>3, <1>7, <2>2, <3>1, <3>2 DEF SeesAt, CreditStage
  <2>3. CASE act[w].pc \in RefundStage /\ p \in RefundStage
    <3>1. (Success(b) \notin events)'
      BY <1>4, <1>7, <2>3 DEF SeesAt
    <3>. QED
      BY <1>7, <2>3, <3>1 DEF SeesAt, CreditStage, RefundStage
  <2>. QED
    BY <2>1, <2>2, <2>3 DEF Silent
<1>. QED
  BY <1>1, <1>2, <1>3, <1>4, <1>6, <1>8, HandlerSees

\* A transaction is recorded: of a booking that has not been reported paid.
LEMMA RecordsSees ==
    ASSUME Sound, Faithful, NEW w \in Workers,
           RecordDebit(w) \/ RecordCredit(w) \/ CreditUnacknowledged(w) \/ RecordRefund(w)
    PROVE  Faithful'
<1>1. Running(w) /\ act[w].pc \in {"recordDebit", "recordCredit", "recordRefund"}
  BY DEF RecordDebit, RecordCredit, CreditUnacknowledged, RecordRefund, At, Running
<1>2. PICK b \in Bookings : b = act[w].booking
  BY <1>1, SeenFacts
<1>3. PICK s, user, p :
         /\ CreateTransaction(s, b, user, Amount[b])
         /\ act' = [act EXCEPT ![w].pc = p]
         /\ UNCHANGED <<job, events>>
         /\ \/ act[w].pc = "recordDebit" /\ s = "DEBIT" /\ p = AfterDebit(act[w].prior)
            \/ act[w].pc = "recordCredit" /\ s = "CREDIT" /\ p \in {"emitSuccess", "findRefund"}
            \/ act[w].pc = "recordRefund" /\ s = "REFUND" /\ p = "emitRefunded"
  BY <1>2 DEF RecordDebit, RecordCredit, CreditUnacknowledged, RecordRefund, At, Goto, Stages
<1>4. \A t, c : Recorded(t, c)' <=> Recorded(t, c) \/ (t = s /\ c = b)
  BY <1>3, CreateTransactionRecords
<1>5. /\ act'[w].pc = p /\ act'[w].booking = b /\ act'[w].prior = act[w].prior
      /\ \A v \in Workers : v # w => UNCHANGED act[v]
  BY <1>1, <1>2, <1>3, SeenFacts, GotoEffect
<1>6. \A c : (Success(c) \in events)' <=> Success(c) \in events
  BY <1>3 DEF Success
<1>7. /\ SeesAt(w, b, act[w].pc)
      /\ Success(b) \in events => Settled(b)
      /\ Recorded("CREDIT", b) \/ Recorded("REFUND", b) => Recorded("DEBIT", b)
      /\ act[w].pc = "recordCredit" => Recorded("DEBIT", b)
  BY <1>1, <1>2, SeenFacts DEF Faithful, Sound, Knows, DebitDone
<1>8. Success(b) \notin events
  BY <1>1, <1>7 DEF SeesAt, Settled, CreditStage, RefundStage
<1>9. (Success(b) \notin events)'
  BY <1>6, <1>8
<1>10. SeesAt(w, b, p)'
  <2>1. CASE act[w].pc = "recordDebit" /\ s = "DEBIT" /\ p = AfterDebit(act[w].prior)
    <3>1. p = "readOwner"
      BY <1>7, <2>1 DEF SeesAt, AfterDebit
    <3>2. ~Recorded("CREDIT", b) /\ ~Recorded("REFUND", b)
      BY <1>7, <2>1 DEF SeesAt
    <3>. QED
      BY <1>3, <1>4, <1>7, <2>1, <3>1, <3>2 DEF SeesAt, CreditStage, RefundStage
  <2>2. CASE act[w].pc = "recordCredit" /\ s = "CREDIT" /\ p = "emitSuccess"
    <3>1. ~Recorded("REFUND", b)
      BY <1>7, <2>2 DEF SeesAt, CreditStage
    <3>2. Settled(b)'
      BY <1>4, <1>7, <2>2, <3>1 DEF Settled
    <3>. QED
      BY <1>3, <1>7, <2>2, <3>2 DEF SeesAt, CreditStage, RefundStage
  <2>3. CASE act[w].pc \in {"recordCredit", "recordRefund"} /\ p \in {"findRefund", "emitRefunded"}
    BY <1>3, <1>7, <1>9, <2>3 DEF SeesAt, CreditStage
  <2>. QED
    BY <1>3, <2>1, <2>2, <2>3
<1>11. \A c \in Bookings : c # b => \A t \in Stages : Recorded(t, c)' <=> Recorded(t, c)
  BY <1>4
<1>. QED
  BY <1>1, <1>2, <1>3, <1>5, <1>6, <1>9, <1>10, <1>11, HandlerSees

\* An outcome is published: PAYMENT_SUCCESS of a settled booking, a failure of another.
LEMMA EmitsSees ==
    ASSUME Sound, Faithful, NEW w \in Workers, Emit(w)
    PROVE  Faithful'
<1>1. Running(w) /\ act[w].pc \in {"emitSuccess", "emitRefunded", "emitInsufficient"}
  BY DEF Emit, At, Running
<1>2. PICK b \in Bookings : b = act[w].booking
  BY <1>1, SeenFacts
<1>3. PICK e : /\ events' = events \cup {e}
               /\ e.booking = b
               /\ e = Success(b) => act[w].pc = "emitSuccess"
  <2>1. CASE At(w, "emitSuccess") /\ events' = events \cup {Success(b)}
    <3>1. PICK e : e = Success(b)
      OBVIOUS
    <3>2. e.booking = b
      BY <3>1 DEF Success
    <3>. QED
      BY <2>1, <3>1, <3>2 DEF At
  <2>2. ASSUME NEW reason, events' = events \cup {Failed(b, reason)}
        PROVE  \E e : /\ events' = events \cup {e}
                      /\ e.booking = b
                      /\ e = Success(b) => act[w].pc = "emitSuccess"
    <3>1. Failed(b, reason).booking = b /\ Failed(b, reason) # Success(b)
      BY DEF Failed, Success
    <3>. QED
      BY <2>2, <3>1
  <2>. QED
    BY <1>2, <2>1, <2>2 DEF Emit
<1>4. act' = [act EXCEPT ![w].pc = "return"] /\ UNCHANGED <<job, transactions>>
  BY DEF Emit, Goto, storeVars
<1>5. /\ act'[w].pc = "return" /\ act'[w].booking = b
      /\ \A v \in Workers : v # w => UNCHANGED act[v]
  BY <1>1, <1>2, <1>4, SeenFacts, GotoEffect
<1>6. \A t, c : Recorded(t, c)' <=> Recorded(t, c)
  BY <1>4 DEF Recorded
<1>7. \A c : Success(c).booking = c
  BY DEF Success
<1>8. \A c \in Bookings : c # b => ((Success(c) \in events)' <=> Success(c) \in events)
  BY <1>3, <1>7 DEF Success
<1>9. SeesAt(w, b, act[w].pc) /\ (Success(b) \in events => Settled(b))
  BY <1>1, <1>2, SeenFacts DEF Faithful
<1>10. (Success(b) \in events)' => Settled(b)
  BY <1>3, <1>9 DEF SeesAt, Success
<1>11. (Success(b) \in events => Settled(b))'
  BY <1>6, <1>10 DEF Settled
<1>12. SeesAt(w, b, "return")'
  BY <1>4, <1>9 DEF SeesAt, CreditStage, RefundStage
<1>. QED
  BY <1>1, <1>2, <1>4, <1>5, <1>6, <1>8, <1>11, <1>12, HandlerSees

\* An activation ends: the promise settles, or the process dies.
LEMMA EndsSees ==
    ASSUME Sound, Faithful, NEW w \in Workers, Return(w) \/ AttemptFails(w) \/ Crash(w)
    PROVE  Faithful'
<1>1. TypeOK /\ Running(w)
  BY DEF Sound, Return, AttemptFails, Crash, At, Running
<1>2. PICK b \in Bookings : b = act[w].booking
  BY <1>1, SeenFacts
<1>3. act' = [act EXCEPT ![w] = Idle] /\ UNCHANGED <<events, transactions>>
  BY DEF Return, AttemptFails, Crash, Settle, storeVars
<1>4. act'[w].pc = "idle" /\ \A v \in Workers : v # w => UNCHANGED act[v]
  BY <1>1, <1>3 DEF TypeOK, RunTypeOK, Idle
<1>5. \A v \in Workers : v # w => ~On(v, b)
  BY <1>1, <1>2, SeenFacts
<1>6. ASSUME NEW v \in Workers, v # w, Running(v) PROVE job'[act[v].booking] = job[act[v].booking]
  <2>1. PICK c \in Bookings : c = act[v].booking
    BY <1>1, <1>6 DEF TypeOK, RunTypeOK
  <2>2. c # b /\ job[c].holder = v
    BY <1>5, <1>6, <2>1 DEF On, Faithful, Sees, SeesAt
  <2>3. job \in [Bookings -> Job]
    BY <1>1 DEF TypeOK, JobTypeOK
  <2>4. CASE Return(w) \/ AttemptFails(w)
    <3>1. job' = job \/ \E j : job' = [job EXCEPT ![b] = j]
      BY <1>2, <2>4 DEF Return, AttemptFails, Settle
    <3>2. job'[c] = job[c]
      BY <2>2, <2>3, <3>1
    <3>. QED
      BY <2>1, <3>2
  <2>5. CASE Crash(w)
    <3>1. job'[c] = job[c]
      BY <1>6, <2>2, <2>5 DEF Crash
    <3>. QED
      BY <2>1, <3>1
  <2>. QED
    BY <2>4, <2>5
<1>7. \A t, c : Recorded(t, c)' <=> Recorded(t, c)
  BY <1>3 DEF Recorded
<1>8. \A c : (Success(c) \in events)' <=> Success(c) \in events
  BY <1>3 DEF Success
<1>9. (Success(b) \in events => Settled(b))'
  BY <1>7, <1>8 DEF Faithful, Settled
<1>10. ~Running(w)'
  BY <1>4 DEF Running
<1>. QED
  BY <1>1, <1>2, <1>4, <1>5, <1>6, <1>7, <1>8, <1>9, <1>10, OneSees

\* Every step of an activation, failures included.
LEMMA HandlesSees ==
    ASSUME Sound, Faithful, NEW w \in Workers, HandlerStep(w) \/ Disturbance(w)
    PROVE  Faithful'
<1>1. ASSUME NEW p, Silent(w, p), Running(w), NEW c,
             \/ act' = [act EXCEPT ![w].pc = p]
             \/ act' = [act EXCEPT ![w].pc = p, ![w].copy = c],
             UNCHANGED <<job, events, transactions>>
      PROVE  Faithful'
  BY <1>1, SilentSees
<1>2. CASE GuestDebit(w)
  <2>1. PICK p \in {"recordDebit", "emitInsufficient"} : act' = [act EXCEPT ![w].pc = p]
    BY <1>2 DEF GuestDebit, Goto
  <2>2. Silent(w, p) /\ Running(w) /\ UNCHANGED <<job, events, transactions>>
    BY <1>2 DEF GuestDebit, At, Silent, Running
  <2>. QED
    BY <1>1, <2>1, <2>2
<1>3. CASE ReadOwner(w) \/ CreditOwner(w) \/ CreditFails(w)
  <2>1. PICK p, c : /\ act' = [act EXCEPT ![w].pc = p, ![w].copy = c]
                    /\ p \in {"creditOwner", "recordCredit", "findRefund"}
    BY <1>3 DEF ReadOwner, CreditOwner, CreditFails
  <2>2. Silent(w, p) /\ Running(w) /\ UNCHANGED <<job, events, transactions>>
    BY <1>3, <2>1 DEF ReadOwner, CreditOwner, CreditFails, At, Silent, Running, CreditStage, storeVars
  <2>. QED
    BY <1>1, <2>1, <2>2
<1>4. CASE ReadGuest(w) \/ RefundGuest(w)
  <2>1. PICK p, c : /\ act' = [act EXCEPT ![w].pc = p, ![w].copy = c]
                    /\ p \in {"refundGuest", "recordRefund"}
    BY <1>4 DEF ReadGuest, RefundGuest
  <2>2. Silent(w, p) /\ Running(w) /\ UNCHANGED <<job, events, transactions>>
    BY <1>4, <2>1 DEF ReadGuest, RefundGuest, At, Silent, Running, RefundStage, storeVars
  <2>. QED
    BY <1>1, <2>1, <2>2
<1>5. CASE FindRefund(w)
  <2>1. PICK p \in {"emitRefunded", "readGuest"} : act' = [act EXCEPT ![w].pc = p]
    BY <1>5 DEF FindRefund, Goto
  <2>2. Silent(w, p) /\ Running(w) /\ UNCHANGED <<job, events, transactions>>
    BY <1>5 DEF FindRefund, At, Silent, Running, RefundStage, storeVars
  <2>. QED
    BY <1>1, <2>1, <2>2
<1>. QED
  BY <1>2, <1>3, <1>4, <1>5, ReadsSees, RecordsSees, EmitsSees, EndsSees
  DEF HandlerStep, Disturbance

\* A job is taken up: nothing has been seen of its booking yet.
LEMMA TakesSees ==
    ASSUME Sound, Faithful, NEW w \in Workers, NEW b \in Bookings, PickJob(w, b)
    PROVE  Faithful'
<1>1. TypeOK /\ ~Running(w) /\ job[b].state = "waiting"
  BY DEF Sound, PickJob, Running
<1>2. \A v \in Workers : ~On(v, b)
  BY <1>1 DEF On, Faithful, Sees, SeesAt
<1>. DEFINE a == [Idle EXCEPT !.pc = "reading", !.booking = b, !.unread = Stages]
<1>3. /\ act' = [act EXCEPT ![w] = a]
      /\ job' = [job EXCEPT ![b] = [job[b] EXCEPT !.state = "active", !.holder = w]]
      /\ UNCHANGED <<events, transactions>>
  BY DEF PickJob, storeVars
<1>4. a.pc = "reading" /\ a.booking = b /\ a.unread = Stages
  BY DEF Idle
<1>. HIDE DEF a
<1>5. act'[w] = a /\ \A v \in Workers : v # w => UNCHANGED act[v]
  BY <1>1, <1>3 DEF TypeOK, RunTypeOK
<1>6. /\ job'[b].state = "active" /\ job'[b].holder = w
      /\ \A c \in Bookings : c # b => UNCHANGED job[c]
  BY <1>1, <1>3 DEF TypeOK, JobTypeOK, Job
<1>7. SeesAt(w, b, "reading")'
  BY <1>4, <1>5, <1>6 DEF SeesAt, CreditStage, RefundStage
<1>8. Sees(w)'
  BY <1>4, <1>5, <1>7 DEF Sees
<1>9. ASSUME NEW v \in Workers, v # w, Running(v) PROVE job'[act[v].booking] = job[act[v].booking]
  <2>1. PICK c \in Bookings : c = act[v].booking
    BY <1>1, <1>9 DEF TypeOK, RunTypeOK
  <2>. QED
    BY <1>2, <1>6, <1>9, <2>1 DEF On
<1>10. \A t, c : Recorded(t, c)' <=> Recorded(t, c)
  BY <1>3 DEF Recorded
<1>11. \A c : (Success(c) \in events)' <=> Success(c) \in events
  BY <1>3 DEF Success
<1>12. (Success(b) \in events => Settled(b))'
  BY <1>10, <1>11 DEF Faithful, Settled
<1>. QED
  BY <1>1, <1>2, <1>5, <1>8, <1>9, <1>10, <1>11, <1>12, OneSees

\* The queue adds, forgets and takes back jobs that nobody is running.
LEMMA QueuesSees ==
    ASSUME spent'.stalls = 0, Sound, Faithful, NEW b \in Bookings, QueueStep(b)
    PROVE  Faithful'
<1>1. TypeOK /\ UNCHANGED <<act, events, transactions>>
  BY DEF Sound, QueueStep, EnqueuePaymentJob, ExpireJob, LockExpires, storeVars
<1>2. job[b].state # "active" \/ job[b].holder = NoWorker
  <2>1. spent.stalls \in Nat /\ spent \in [faults : Nat, crashes : Nat, stalls : Nat]
    BY <1>1 DEF TypeOK, SpentTypeOK
  <2>. QED
    BY <2>1 DEF QueueStep, EnqueuePaymentJob, ExpireJob, LockExpires
<1>3. \A v \in Workers : ~On(v, b)
  BY <1>2, PaymentAssumption DEF On, Faithful, Sees, SeesAt
<1>4. \E j : job' = [job EXCEPT ![b] = j]
  BY DEF QueueStep, EnqueuePaymentJob, ExpireJob, LockExpires
<1>5. ASSUME NEW v \in Workers, Running(v) PROVE job'[act[v].booking] = job[act[v].booking]
  <2>1. PICK c \in Bookings : c = act[v].booking
    BY <1>1, <1>5 DEF TypeOK, RunTypeOK
  <2>2. c # b
    BY <1>3, <1>5, <2>1 DEF On
  <2>3. job'[c] = job[c]
    BY <1>1, <1>4, <2>2 DEF TypeOK, JobTypeOK
  <2>. QED
    BY <2>1, <2>3
<1>6. \A t, c : Recorded(t, c)' <=> Recorded(t, c)
  BY <1>1 DEF Recorded
<1>. QED
  BY <1>1, <1>5, <1>6, NoneSees

\* Every step of the service.
LEMMA NextFaithful == ASSUME spent'.stalls = 0, Sound, Faithful, [Next]_vars PROVE Faithful'
<1>1. ASSUME UNCHANGED <<act, job, events>>,
             \A b \in Bookings, s \in Stages : Recorded(s, b)' <=> Recorded(s, b)
      PROVE  Faithful'
  BY <1>1, NoneSees DEF Sound
<1>2. CASE UNCHANGED vars
  BY <1>1, <1>2 DEF vars, storeVars, processorVars, Recorded
<1>3. ASSUME NEW b \in Bookings, Queue(b) PROVE Faithful'
  BY <1>3, QueuesSees DEF Queue
<1>4. ASSUME NEW w \in Workers, Handle(w) \/ Disturb(w) PROVE Faithful'
  BY <1>4, HandlesSees DEF Handle, Disturb
<1>5. ASSUME NEW w \in Workers, NEW b \in Bookings, TakeJob(w, b) PROVE Faithful'
  BY <1>5, TakesSees DEF TakeJob
<1>6. ASSUME NEW r \in TopUps, Accept(r) \/ Serve(r) \/ DropRequest(r) PROVE Faithful'
  <2>1. UNCHANGED <<act, job, events>>
    BY <1>6 DEF Accept, Serve, DropRequest, processorVars
  <2>2. \A b \in Bookings, s \in Stages : Recorded(s, b)' <=> Recorded(s, b)
    <3>1. CASE UNCHANGED transactions
      BY <3>1 DEF Recorded
    <3>2. CASE CreateTransaction("TOP_UP", TopUpKey[r], TopUpUser[r], TopUpAmount[r])
      BY <3>2, CreateTransactionRecords DEF Stages
    <3>. QED
      BY <1>6, <3>1, <3>2
      DEF Accept, Arrive, Serve, TopUpStep, FindExisting, ReadWallet, SaveTopUp, RecordTopUp, DropRequest,
          TopUpFails, storeVars
  <2>. QED
    BY <1>1, <2>1, <2>2
<1>. QED
  BY <1>2, <1>3, <1>4, <1>5, <1>6 DEF Next

\* Failures are counted and never forgotten.
LEMMA NextLater == ASSUME TypeOK, [Next]_vars PROVE Later
<1>1. spent \in [faults : Nat, crashes : Nat, stalls : Nat]
  BY DEF TypeOK, SpentTypeOK
<1>2. CASE UNCHANGED vars
  BY <1>1, <1>2 DEF Later, vars, processorVars
<1>3. ASSUME NEW b \in Bookings, Queue(b) PROVE Later
  BY <1>1, <1>3 DEF Later, Queue, QueueStep, EnqueuePaymentJob, ExpireJob, LockExpires
<1>4. ASSUME NEW w \in Workers, Handle(w) PROVE Later
  <2>1. UNCHANGED spent
    BY <1>4 DEF Handle, HandlerStep, ReadPrior, GuestDebit, RecordDebit, ReadOwner, CreditOwner,
        RecordCredit, FindRefund, ReadGuest, RefundGuest, RecordRefund, Emit, Return
  <2>2. UNCHANGED events \/ Emit(w)
    BY <1>4 DEF Handle, HandlerStep, ReadPrior, GuestDebit, RecordDebit, ReadOwner, CreditOwner,
        RecordCredit, FindRefund, ReadGuest, RefundGuest, RecordRefund, Return
  <2>3. events \subseteq events'
    BY <2>2 DEF Emit
  <2>. QED
    BY <1>1, <2>1, <2>3 DEF Later
<1>5. ASSUME NEW w \in Workers, Disturb(w) PROVE Later
  BY <1>1, <1>5 DEF Later, Disturb, Disturbance, CreditFails, CreditUnacknowledged, AttemptFails, Crash, Spend
<1>6. ASSUME NEW w \in Workers, NEW b \in Bookings, TakeJob(w, b) PROVE Later
  BY <1>1, <1>6 DEF Later, TakeJob, PickJob
<1>7. ASSUME NEW r \in TopUps, Accept(r) \/ Serve(r) \/ DropRequest(r) PROVE Later
  BY <1>1, <1>7 DEF Later, Accept, Serve, DropRequest, processorVars, Spend
<1>. QED
  BY <1>2, <1>3, <1>4, <1>5, <1>6, <1>7 DEF Next

-----------------------------------------------------------------------------
(***************************************************************************)
(* Theorems.                                                               *)
(***************************************************************************)
\* Until something fails, every booking is as far as its activation, and settled or
\* untouched without one.
THEOREM AlwaysSteady == Spec => []Steady
<1>. QED
  BY InitSteady, NextSteady, SoundInvariant, PTL DEF Spec

\* Without failures handleBookingCreated charges a booking once, whatever runs at the
\* same time and however often the event is delivered.
THEOREM ChargesOnce == Spec => []ChargedOnce
<1>1. Sound /\ Steady => ChargedOnce
  <2>. SUFFICES ASSUME Sound, Orderly, NEW b \in Bookings
                PROVE  moved[b]["DEBIT"] <= 1 /\ moved[b]["CREDIT"] <= 1 /\ moved[b]["REFUND"] = 0
    BY DEF Steady, ChargedOnce
  <2>1. ASSUME NEW w \in Workers, On(w, b)
        PROVE  \E d \in {0, 1}, c \in {0, 1} : \E types : Progress(b, d, c, types)
    BY <2>1, RunningFacts DEF On, StandsAt, Unpaid, Paid
  <2>2. CASE AtRest(b)
    BY <2>2 DEF AtRest, Unpaid, Paid, Progress
  <2>. QED
    BY <2>1, <2>2 DEF Orderly, Progress
<1>. QED
  BY <1>1, SoundInvariant, AlwaysSteady, PTL

\* The bounds on failures are zero.
NoFailures == MaxFaults = 0 /\ MaxCrashes = 0 /\ MaxStalls = 0

LEMMA NothingFails == ASSUME NoFailures PROVE Spec => []Undisturbed
<1>1. Init => Undisturbed
  BY DEF Init, ProcessorInit, Undisturbed
<1>2. Undisturbed /\ [Next]_vars => Undisturbed'
  <2>. SUFFICES ASSUME Undisturbed, [Next]_vars PROVE UNCHANGED spent
    BY DEF Undisturbed
  <2>0. ~Spend /\ ~(spent.crashes < MaxCrashes) /\ ~(spent.stalls < MaxStalls)
    BY DEF NoFailures, Spend, Undisturbed
  <2>1. CASE UNCHANGED vars
    BY <2>1 DEF vars, processorVars
  <2>2. ASSUME NEW b \in Bookings, Queue(b) PROVE UNCHANGED spent
    BY <2>0, <2>2 DEF Queue, QueueStep, EnqueuePaymentJob, ExpireJob, LockExpires
  <2>3. ASSUME NEW w \in Workers, Handle(w) PROVE UNCHANGED spent
    BY <2>3 DEF Handle, HandlerStep, ReadPrior, GuestDebit, RecordDebit, ReadOwner, CreditOwner,
        RecordCredit, FindRefund, ReadGuest, RefundGuest, RecordRefund, Emit, Return
  <2>4. ASSUME NEW w \in Workers, NEW b \in Bookings, TakeJob(w, b) PROVE UNCHANGED spent
    BY <2>4 DEF TakeJob, PickJob
  <2>5. ASSUME NEW r \in TopUps, Accept(r) \/ Serve(r) PROVE UNCHANGED spent
    BY <2>5 DEF Accept, Serve, processorVars
  <2>6. ASSUME NEW w \in Workers PROVE ~Disturb(w)
    BY <2>0 DEF Disturb, Disturbance, CreditFails, CreditUnacknowledged, AttemptFails, Crash
  <2>7. ASSUME NEW r \in TopUps PROVE ~DropRequest(r)
    BY <2>0 DEF DropRequest
  <2>. QED
    BY <2>1, <2>2, <2>3, <2>4, <2>5, <2>6, <2>7 DEF Next
<1>. QED
  BY <1>1, <1>2, PTL DEF Spec

\* Without failures every step of the worker is a step of IdealPayments, or changes nothing
\* that it speaks of.
THEOREM FollowsIdealPayments == ASSUME NoFailures PROVE Spec => Ideal!Spec
<1>1. Init => Ideal!Init
  <2>. SUFFICES ASSUME Init PROVE Ideal!Init
    OBVIOUS
  <2>1. MovedTypeOK /\ events = {}
    BY InitTypeOK DEF TypeOK, Init, ProcessorInit
  <2>2. \A b \in Bookings : Phase(b) = "unpaid"
    BY <2>1, PhaseOf DEF Init, ProcessorInit, Stages
  <2>. QED
    BY <2>1, <2>2 DEF Ideal!Init
<1>2. Sound /\ Steady /\ [Next]_vars /\ Sound' /\ Undisturbed' => [Ideal!Next]_Ideal!idealVars
  BY NextRefines DEF idealState, phases, reported, unpayable, Ideal!idealVars
<1>. QED
  BY <1>1, <1>2, SoundInvariant, AlwaysSteady, NothingFails, PTL DEF Spec, Ideal!Spec

\* Until a lock expires under a live activation, an activation has its booking to itself,
\* whatever fails and dies, and no booking that was reported paid has a refund on the ledger.
THEOREM OneActivationPerBooking == Spec => [](spent.stalls = 0 => Faithful)
<1>1. Init => Faithful
  BY DEF Init, ProcessorInit, Idle, Running, Faithful
<1>2. Sound /\ (spent.stalls = 0 => Faithful) /\ [Next]_vars => (spent.stalls = 0 => Faithful)'
  <2>. SUFFICES ASSUME Sound, spent.stalls = 0 => Faithful, [Next]_vars, spent'.stalls = 0
                PROVE  Faithful'
    OBVIOUS
  <2>1. spent \in [faults : Nat, crashes : Nat, stalls : Nat] /\ Later
    BY NextLater DEF Sound, TypeOK, SpentTypeOK
  <2>2. spent.stalls = 0
    BY <2>1 DEF Later
  <2>. QED
    BY <2>2, NextFaithful
<1>. QED
  BY <1>1, <1>2, SoundInvariant, PTL DEF Spec

LEMMA LocksHold == ASSUME MaxStalls = 0 PROVE Spec => [](spent.stalls = 0)
<1>1. Init => spent.stalls = 0
  BY DEF Init, ProcessorInit
<1>2. TypeOK /\ spent.stalls = 0 /\ [Next]_vars => (spent.stalls = 0)'
  <2>. SUFFICES ASSUME TypeOK, spent.stalls = 0, [Next]_vars PROVE spent'.stalls = 0
    OBVIOUS
  <2>1. spent \in [faults : Nat, crashes : Nat, stalls : Nat] /\ ~(spent.stalls < MaxStalls)
    BY DEF TypeOK, SpentTypeOK
  <2>2. CASE UNCHANGED vars
    BY <2>2 DEF vars, processorVars
  <2>3. ASSUME NEW b \in Bookings, Queue(b) PROVE UNCHANGED spent
    BY <2>1, <2>3 DEF Queue, QueueStep, EnqueuePaymentJob, ExpireJob, LockExpires
  <2>4. ASSUME NEW w \in Workers, Handle(w) PROVE UNCHANGED spent
    BY <2>4 DEF Handle, HandlerStep, ReadPrior, GuestDebit, RecordDebit, ReadOwner, CreditOwner,
        RecordCredit, FindRefund, ReadGuest, RefundGuest, RecordRefund, Emit, Return
  <2>5. ASSUME NEW w \in Workers, Disturb(w) PROVE spent'.stalls = 0
    BY <2>1, <2>5 DEF Disturb, Disturbance, CreditFails, CreditUnacknowledged, AttemptFails, Crash, Spend
  <2>6. ASSUME NEW w \in Workers, NEW b \in Bookings, TakeJob(w, b) PROVE UNCHANGED spent
    BY <2>6 DEF TakeJob, PickJob
  <2>7. ASSUME NEW r \in TopUps, Accept(r) \/ Serve(r) \/ DropRequest(r) PROVE spent'.stalls = 0
    BY <2>1, <2>7 DEF Accept, Serve, DropRequest, processorVars, Spend
  <2>. QED
    BY <2>2, <2>3, <2>4, <2>5, <2>6, <2>7 DEF Next
<1>. QED
  BY <1>1, <1>2, TypeCorrect, PTL DEF Spec

\* While locks hold, no report contradicts an earlier PAYMENT_SUCCESS or CREDIT_FAILED_REFUNDED,
\* whatever overlaps, fails and dies.
THEOREM OutcomesStand == ASSUME MaxStalls = 0 PROVE Spec => OutcomeIsFinal
<1>. DEFINE Final == \A b \in Bookings, e \in events :
                        e \in {Success(b), Failed(b, "CREDIT_FAILED_REFUNDED")} =>
                            \A d \in events' \ events : d.booking # b
<1>1. Sound /\ Faithful /\ [Next]_vars => [Final]_vars
  <2>. SUFFICES ASSUME Sound, Faithful, Next,
                       NEW b \in Bookings, NEW e \in events,
                       e \in {Success(b), Failed(b, "CREDIT_FAILED_REFUNDED")},
                       NEW d \in events' \ events, d.booking = b
                PROVE  FALSE
    BY DEF vars
  <2>1. PICK w \in Workers : Emit(w)
    BY DEF Next, Queue, QueueStep, EnqueuePaymentJob, ExpireJob, LockExpires, Handle, HandlerStep, ReadPrior,
        GuestDebit, RecordDebit, ReadOwner, CreditOwner, RecordCredit, FindRefund, ReadGuest,
        RefundGuest, RecordRefund, Return, TakeJob, PickJob, Accept, Serve, DropRequest, processorVars,
        Disturb, Disturbance, CreditFails, CreditUnacknowledged, AttemptFails, Crash
  <2>2. Running(w) /\ act[w].pc \in {"emitSuccess", "emitRefunded", "emitInsufficient"}
    BY <2>1 DEF Emit, At, Running
  <2>3. PICK c \in Bookings : c = act[w].booking
    BY <2>2, SeenFacts
  <2>4. SeesAt(w, c, act[w].pc)
    BY <2>2, <2>3, SeenFacts
  <2>5. /\ act[w].pc = "emitSuccess" => d = Success(c)
        /\ act[w].pc = "emitRefunded" => d = Failed(c, "CREDIT_FAILED_REFUNDED")
        /\ act[w].pc = "emitInsufficient" => d = Failed(c, "INSUFFICIENT_BALANCE")
    BY <2>1, <2>3 DEF Emit, At
  <2>6. b = c
    BY <2>2, <2>5 DEF Success, Failed
  <2>7. CASE e = Success(b)
    <3>1. Settled(b) /\ Success(b) \in events
      BY <2>7 DEF Faithful
    <3>2. act[w].pc = "emitSuccess"
      BY <2>2, <2>4, <2>6, <3>1 DEF SeesAt, Settled, RefundStage
    <3>. QED
      BY <2>5, <2>6, <3>1, <3>2
  <2>8. CASE e = Failed(b, "CREDIT_FAILED_REFUNDED")
    <3>1. Recorded("DEBIT", b) /\ Recorded("REFUND", b)
      BY <2>8 DEF Sound, EventsBacked
    <3>2. act[w].pc = "emitRefunded"
      BY <2>2, <2>4, <2>6, <3>1 DEF SeesAt, Settled
    <3>. QED
      BY <2>5, <2>6, <2>8, <3>2
  <2>. QED
    BY <2>7, <2>8
<1>. QED
  BY <1>1, SoundInvariant, OneActivationPerBooking, LocksHold, PTL DEF Spec, OutcomeIsFinal
=============================================================================
