------------------------ MODULE BookingServiceProofs ------------------------
(***************************************************************************)
(* Theorems about the booking service, for every set of requests, rooms,   *)
(* dates and operations and any number of failures.  What needs operations *)
(* on one booking not to overlap, or create locks to outlive their         *)
(* requests, says so.                                                      *)
(***************************************************************************)
EXTENDS BookingService, TLAPS

-----------------------------------------------------------------------------
(***************************************************************************)
(* Keys, dates and updates.                                                *)
(***************************************************************************)

\* The night that begins on day n belongs to the stay.
Night(b, n) == CheckIn[b] <= n /\ n < CheckOut[b]

\* The two kinds of lock never share a key, and stays that clash contend for
\* one create lock.
LEMMA LockKeyFacts ==
    ASSUME NEW r \in Requests, NEW q \in Requests
    PROVE  /\ CreateLock(r) \in Locks /\ RoomLock(r) \in Locks
           /\ CreateLock(r) # RoomLock(q)
           /\ Room[r] = Room[q] => CreateLock(r) = CreateLock(q)
           /\ CreateLock(r) = CreateLock(q) => Room[r] = Room[q]
           /\ Clash(r, q) => Room[r] = Room[q]
           /\ Clash(r, q) => Clash(q, r)
<1>1. CreateLock(r) \in Locks /\ RoomLock(r) \in Locks
  BY DEF Locks
<1>2. CreateLock(r) # RoomLock(q)
  <2>1. CreateLock(r)[1] = "create" /\ RoomLock(q)[1] = "room"
    BY DEF CreateLock, RoomLock
  <2>. QED
    BY <2>1
<1>3. CreateLock(r)[2] = Room[r] /\ CreateLock(q)[2] = Room[q]
  BY DEF CreateLock
<1>. QED
  BY <1>1, <1>2, <1>3 DEF CreateLock, Clash

\* hasBookingOverlap's two comparisons of half-open stays find every common night, and
\* nothing else: a stay may begin on the day another one ends.
LEMMA ClashIsACommonNight ==
    ASSUME NEW b \in Requests, NEW c \in Requests
    PROVE  Clash(b, c) <=> Room[b] = Room[c] /\ \E n \in Nat : Night(b, n) /\ Night(c, n)
<1>1. /\ CheckIn[b] \in Nat /\ CheckOut[b] \in Nat /\ CheckIn[b] < CheckOut[b]
      /\ CheckIn[c] \in Nat /\ CheckOut[c] \in Nat /\ CheckIn[c] < CheckOut[c]
  BY RequestAssumption
<1>2. ASSUME Clash(b, c)
      PROVE  \E n \in Nat : Night(b, n) /\ Night(c, n)
  <2>1. CASE CheckIn[b] <= CheckIn[c]
    <3>1. Night(b, CheckIn[c]) /\ Night(c, CheckIn[c])
      BY <1>1, <1>2, <2>1 DEF Clash, Night
    <3>. QED
      BY <1>1, <3>1
  <2>2. CASE CheckIn[c] < CheckIn[b]
    <3>1. Night(b, CheckIn[b]) /\ Night(c, CheckIn[b])
      BY <1>1, <1>2, <2>2 DEF Clash, Night
    <3>. QED
      BY <1>1, <3>1
  <2>. QED
    BY <1>1, <2>1, <2>2
<1>3. ASSUME Room[b] = Room[c], NEW n \in Nat, Night(b, n), Night(c, n)
      PROVE  Clash(b, c)
  BY <1>1, <1>3 DEF Clash, Night
<1>. QED
  BY <1>2, <1>3 DEF Clash

LEMMA NoRequestIsNone ==
    NoRequest \notin Requests /\ \A r \in Requests : Key[r] # NoRequest
BY RequestAssumption

\* Requests of one key hold one room lock.
LEMMA KeyFacts ==
    ASSUME NEW r \in Requests, NEW q \in Requests, SameKey(q, r)
    PROVE  RoomLock(q) = RoomLock(r) /\ (HoldsRoomLock(q) <=> HoldsRoomLock(r))
           /\ (HoldsRoomLock(q)' <=> HoldsRoomLock(r)')
<1>1. RoomLock(q) = RoomLock(r)
  BY RequestAssumption DEF SameKey, RoomLock
<1>2. Key[q] = Key[r]
  BY DEF SameKey
<1>. QED
  BY <1>1, <1>2 DEF HoldsRoomLock, RoomLock

\* An update sets the two columns of one booking.
LEMMA UpdateEffect ==
    ASSUME BookingTypeOK, NEW b \in Requests, NEW s, NEW p, UpdateBooking(b, s, p)
    PROVE  /\ booking'[b].status = s /\ booking'[b].payment = p
           /\ \A c \in Requests : c # b => booking'[c] = booking[c]
           /\ s \in Statuses /\ p \in Payments => BookingTypeOK' /\ Exists(b)'
<1>1. booking' = [booking EXCEPT ![b] = Document(s, p)]
  BY DEF UpdateBooking
<1>2. Document(s, p).status = s /\ Document(s, p).payment = p
  BY DEF Document
<1>3. DOMAIN booking = Requests
  BY DEF BookingTypeOK
<1>4. booking'[b] = Document(s, p) /\ \A c \in Requests : c # b => booking'[c] = booking[c]
  BY <1>1, <1>3
<1>5. ASSUME s \in Statuses, p \in Payments PROVE BookingTypeOK' /\ Exists(b)'
  <2>1. Document(s, p) \in [status : Statuses, payment : Payments]
    BY <1>5 DEF Document
  <2>2. BookingTypeOK'
    BY <1>1, <2>1 DEF BookingTypeOK
  <2>3. NoDocument.status = "none"
    BY DEF NoDocument, Document
  <2>4. s # "none"
    BY <1>5 DEF Statuses
  <2>. QED
    BY <1>2, <1>4, <2>2, <2>3, <2>4 DEF Exists
<1>. QED
  BY <1>2, <1>4, <1>5

\* What the status columns say about the existence of a booking.
LEMMA DocumentFacts ==
    ASSUME BookingTypeOK, NEW b \in Requests
    PROVE  /\ Exists(b) => booking[b].status \in Statuses /\ booking[b].payment \in Payments
           /\ ~Exists(b) => booking[b].status = "none" /\ booking[b].payment = "none"
           /\ Live(b) => Exists(b)
           /\ Pending(b) => Exists(b)
           /\ Pending(b) => Live(b)
<1>1. NoDocument.status = "none" /\ NoDocument.payment = "none"
  BY DEF NoDocument, Document
<1>2. Exists(b) => booking[b] \in [status : Statuses, payment : Payments]
  BY DEF BookingTypeOK, Exists
<1>. QED
  BY <1>1, <1>2 DEF Exists, Live, Pending

LEMMA OpFacts ==
    ASSUME OpTypeOK, NEW o \in Ops
    PROVE  /\ op[o] \in Op
           /\ op[o].pc # "idle" => /\ OnBooking(o) \in Requests /\ Exists(OnBooking(o))
                                  /\ op[o].seen \in Payments
BY DEF OpTypeOK

-----------------------------------------------------------------------------
(***************************************************************************)
(* What a step does to the control state of requests and operations.       *)
(***************************************************************************)
LEMMA StepEffect ==
    ASSUME CreateTypeOK, NEW r \in Requests, NEW from, NEW to \in CreatePoints,
           Step(r, from, to)
    PROVE  /\ CreateTypeOK'
           /\ create[r] = from /\ create'[r] = to
           /\ \A q \in Requests : q # r => create'[q] = create[q]
BY DEF CreateTypeOK, Step

LEMMA AdvanceEffect ==
    ASSUME OpTypeOK, NEW o \in Ops, NEW from, NEW to \in OpPoints, Advance(o, from, to)
    PROVE  /\ op' \in [Ops -> Op]
           /\ op[o].pc = from /\ op'[o].pc = to
           /\ to # "idle" => op'[o].booking = op[o].booking /\ op'[o].seen = op[o].seen
           /\ to = "idle" => op'[o].booking = NoRequest
           /\ \A p \in Ops : p # o => op'[p] = op[p]
<1>. DEFINE new == IF to = "idle" THEN IdleOp ELSE [op[o] EXCEPT !.pc = to]
<1>1. op \in [Ops -> Op] /\ op[o] \in Op
  BY DEF OpTypeOK
<1>2. op' = [op EXCEPT ![o] = new] /\ op[o].pc = from
  BY DEF Advance
<1>3. new \in Op /\ new.pc = to
  BY <1>1 DEF Op, IdleOp, OpPoints
<1>4. to # "idle" => new.booking = op[o].booking /\ new.seen = op[o].seen
  BY <1>1 DEF Op
<1>5. to = "idle" => new.booking = NoRequest
  BY DEF IdleOp
<1>. HIDE DEF new
<1>. QED
  BY <1>1, <1>2, <1>3, <1>4, <1>5

LEMMA BeginEffect ==
    ASSUME OpTypeOK, BookingTypeOK, NEW o \in Ops, NEW b \in Requests,
           NEW point \in OpPoints, Exists(b), Begin(o, b, point)
    PROVE  /\ op' \in [Ops -> Op]
           /\ op[o].pc = "idle" /\ op'[o].pc = point
           /\ op'[o].booking = b /\ op'[o].seen = booking[b].payment
           /\ booking[b].payment \in Payments
           /\ \A p \in Ops : p # o => op'[p] = op[p]
<1>. DEFINE new == [pc |-> point, booking |-> b, seen |-> booking[b].payment]
<1>1. op \in [Ops -> Op]
  BY DEF OpTypeOK
<1>2. op' = [op EXCEPT ![o] = new] /\ op[o].pc = "idle"
  BY DEF Begin
<1>3. booking[b].payment \in Payments
  BY DocumentFacts
<1>4. new \in Op /\ new.pc = point /\ new.booking = b /\ new.seen = booking[b].payment
  BY <1>3 DEF Op
<1>. HIDE DEF new
<1>. QED
  BY <1>1, <1>2, <1>3, <1>4

\* An operation that is dropped leaves the others alone.
LEMMA DropEffect ==
    ASSUME OpTypeOK, NEW o \in Ops, op' = [op EXCEPT ![o] = IdleOp]
    PROVE  /\ op' \in [Ops -> Op]
           /\ op'[o].pc = "idle" /\ op'[o].booking = NoRequest
           /\ \A p \in Ops : p # o => op'[p] = op[p]
BY DEF OpTypeOK, Op, IdleOp, OpPoints

-----------------------------------------------------------------------------
(***************************************************************************)
(* The initial states.                                                     *)
(***************************************************************************)
LEMMA InitCoherent == Init => Coherent
<1>. SUFFICES ASSUME Init PROVE Coherent
  OBVIOUS
<1>0. \A r \in Requests : booking[r] = NoDocument /\ create[r] = "new"
  BY DEF Init, BookingsInit, CreateInit
<1>1. NoDocument.status = "none" /\ NoDocument.payment = "none"
  BY DEF NoDocument, Document
<1>2. LocksTypeOK /\ BookingTypeOK /\ CreateTypeOK
  BY DEF Init, BookingsInit, LocksInit, CreateInit, LocksTypeOK, BookingTypeOK,
         CreateTypeOK, CreatePoints
<1>3. \A o \in Ops : op[o] = IdleOp
  BY DEF Init, LifecycleInit
<1>4. IdleOp \in Op /\ IdleOp.pc = "idle" /\ IdleOp.booking = NoRequest
  BY DEF IdleOp, Op, OpPoints
<1>5. OpTypeOK
  <2>1. op \in [Ops -> Op]
    BY <1>4 DEF Init, LifecycleInit
  <2>. QED
    BY <2>1, <1>3, <1>4 DEF OpTypeOK
<1>6. AskedTypeOK /\ SpentTypeOK /\ spent.slow = 0
  BY DEF Init, LifecycleInit, AskedTypeOK, SpentTypeOK
<1>7. LockHeld /\ NightsFree
  BY <1>0 DEF LockHeld, InCritical, Critical, NightsFree
<1>8. Fresh /\ NoDoubleBooking
  BY <1>0, <1>1 DEF Fresh, Exists, NoDoubleBooking, Live
<1>9. OneOpEach /\ \A o \in Ops : ReadHolds(o)
  BY <1>3, <1>4 DEF OneOpEach, OnBooking, ReadHolds
<1>10. PaymentAgrees /\ LiveSeen
  BY <1>0, <1>3, <1>4 DEF PaymentAgrees, Agrees, Exists, LiveSeen
<1>11. RoomLockReleased
  BY NoRequestIsNone, LockKeyFacts DEF Init, BookingsInit, LocksInit, RoomLockReleased, HoldsRoomLock
<1>. QED
  BY <1>2, <1>5, <1>6, <1>7, <1>8, <1>9, <1>10, <1>11 DEF Coherent, Serial, TypeOK

-----------------------------------------------------------------------------
(***************************************************************************)
(* A step of a creation request.  It leaves bookings and operations alone; *)
(* what it must not do is enter without the lock, pass the overlap check   *)
(* without looking, or take a lock away from somebody else.                *)
(***************************************************************************)
LEMMA CreateMoves ==
    ASSUME Coherent, NEW r \in Requests,
           UNCHANGED <<booking, op, asked>>,
           CreateTypeOK', \A q \in Requests : q # r => create'[q] = create[q],
           LocksTypeOK', SpentTypeOK',
           spent'.slow = 0 => spent.slow = 0,
           spent'.slow = 0 /\ create'[r] \in Critical => locks'[CreateLock(r)] = r,
           spent'.slow = 0 =>
                \A q \in Requests : q # r /\ InCritical(q)
                    => locks'[CreateLock(q)] = locks[CreateLock(q)],
           create'[r] \notin {"get", "del", "done"} =>
                create[r] \notin {"get", "del", "done"},
           create'[r] \in {"roomLock", "insert"} =>
                create[r] \in {"roomLock", "insert"} \/ ~HasOverlap(r),
           create[r] = "insert" => create'[r] = "insert" \/ r \in stranded',
           \A q \in stranded : q \in stranded' \/ (SameKey(r, q) /\ create'[r] = "insert"),
           \A q \in Requests : HoldsRoomLock(q)' =>
                HoldsRoomLock(q) \/ (SameKey(r, q) /\ create'[r] = "insert")
    PROVE  Coherent'
<1>1. TypeOK'
  BY DEF Coherent, TypeOK, BookingTypeOK, OpTypeOK, AskedTypeOK, OnBooking, Exists
<1>2. (spent.slow = 0 => LockHeld)'
  BY DEF Coherent, LockHeld, InCritical
<1>3. Fresh'
  BY DEF Coherent, Fresh, Exists
<1>4. (~Interleave /\ spent.slow = 0 => NightsFree /\ NoDoubleBooking)'
  <2>. SUFFICES ASSUME ~Interleave, spent'.slow = 0 PROVE NightsFree' /\ NoDoubleBooking'
    OBVIOUS
  <2>1. NightsFree /\ NoDoubleBooking
    BY DEF Coherent
  <2>. QED
    BY <2>1 DEF NightsFree, NoDoubleBooking, HasOverlap, Live, Clash
<1>5. (~Interleave => Serial)'
  BY DEF Coherent, Serial, OneOpEach, OnBooking, ReadHolds, Pending, Live
<1>6. RoomLockReleased'
  <2>. SUFFICES ASSUME NEW c \in Requests, HoldsRoomLock(c)'
                PROVE  \E q \in Requests : SameKey(q, c) /\ (Minds(q)' \/ q \in stranded')
    BY DEF RoomLockReleased, SameKey
  <2>1. CASE SameKey(r, c) /\ create'[r] = "insert"
    BY <2>1 DEF Minds
  <2>2. CASE ~(SameKey(r, c) /\ create'[r] = "insert")
    <3>1. PICK q \in Requests : SameKey(q, c) /\ (Minds(q) \/ q \in stranded)
      BY <2>2 DEF Coherent, RoomLockReleased
    <3>2. q \in stranded => q \in stranded'
      BY <2>2, <3>1 DEF SameKey
    <3>3. create[q] = "insert" => create'[q] = "insert" \/ q \in stranded'
      OBVIOUS
    <3>4. Minds(q) => Minds(q)' \/ q \in stranded'
      BY <3>3 DEF Minds, Pending, OnBooking
    <3>. QED
      BY <3>1, <3>2, <3>4
  <2>. QED
    BY <2>1, <2>2
<1>7. PaymentAgrees' /\ LiveSeen'
  BY DEF Coherent, PaymentAgrees, Agrees, Exists, LiveSeen
<1>. QED
  BY <1>1, <1>2, <1>3, <1>4, <1>5, <1>6, <1>7 DEF Coherent

\* SET NX and DEL change one key.
LEMMA LockEffect ==
    ASSUME LocksTypeOK, stranded' \subseteq Requests, NEW key \in Locks, NEW r \in LockTokens
    PROVE  /\ SetIfAbsent(key, r) =>
                /\ LocksTypeOK' /\ locks[key] = NoRequest /\ locks'[key] = r
                /\ \A k \in Locks : k # key => locks'[k] = locks[k]
           /\ Delete(key) =>
                /\ LocksTypeOK' /\ locks'[key] = NoRequest
                /\ \A k \in Locks : k # key => locks'[k] = locks[k]
BY DEF LocksTypeOK, SetIfAbsent, Taken, Delete

\* A request inside the lock keeps everybody else with this lock outside.
LEMMA Exclusive ==
    ASSUME LockHeld, NEW r \in Requests, NEW q \in Requests,
           InCritical(r), InCritical(q), CreateLock(r) = CreateLock(q)
    PROVE  r = q
BY DEF LockHeld

LEMMA SubmitCoherent ==
    ASSUME Coherent, NEW r \in Requests, Submit(r) PROVE Coherent'
<1>1. Step(r, "new", "find") /\ UNCHANGED <<storeVars, lifecycleVars, spent>>
  BY DEF Submit, Arrive
<1>2. "find" \in CreatePoints
  BY DEF CreatePoints
<1>3. /\ CreateTypeOK' /\ create[r] = "new" /\ create'[r] = "find"
      /\ \A q \in Requests : q # r => create'[q] = create[q]
  BY <1>1, <1>2, StepEffect DEF Coherent, TypeOK
<1>4. LocksTypeOK' /\ SpentTypeOK'
  BY <1>1 DEF storeVars, Coherent, TypeOK, LocksTypeOK, SpentTypeOK
<1>. QED
  BY <1>1, <1>3, <1>4, CreateMoves DEF storeVars, lifecycleVars, Critical, HoldsRoomLock

\* Steps that change nothing but the control point of the request.
LEMMA WalkCoherent ==
    ASSUME Coherent, NEW r \in Requests,
           \/ FindByKey(r) \/ FetchRoom(r) \/ CheckOverlap(r) \/ ReadCreateLock(r),
           UNCHANGED <<lifecycleVars, spent>>
    PROVE  Coherent'
<1>. DEFINE from == create[r]
            to == create'[r]
<1>1. PICK t \in CreatePoints :
        /\ Step(r, create[r], t) /\ UNCHANGED storeVars
        /\ t \in Critical => InCritical(r)
        /\ t \notin {"get", "del", "done"} => create[r] \notin {"get", "del", "done"}
        /\ t \in {"roomLock", "insert"} => ~HasOverlap(r)
        /\ create[r] # "insert"
  <2>1. CASE FindByKey(r)
    BY <2>1 DEF FindByKey, Step, CreatePoints, Critical
  <2>2. CASE FetchRoom(r)
    BY <2>2 DEF FetchRoom, Step, CreatePoints, Critical, InCritical
  <2>3. CASE CheckOverlap(r)
    BY <2>3 DEF CheckOverlap, Step, CreatePoints, Critical, InCritical
  <2>4. CASE ReadCreateLock(r)
    BY <2>4 DEF ReadCreateLock, Step, CreatePoints, Critical, InCritical
  <2>. QED
    BY <2>1, <2>2, <2>3, <2>4
<1>2. /\ CreateTypeOK' /\ create'[r] = t
      /\ \A q \in Requests : q # r => create'[q] = create[q]
  BY <1>1, StepEffect DEF Coherent, TypeOK
<1>3. LocksTypeOK' /\ SpentTypeOK'
  BY <1>1 DEF storeVars, Coherent, TypeOK, LocksTypeOK, SpentTypeOK
<1>4. spent'.slow = 0 /\ create'[r] \in Critical => locks'[CreateLock(r)] = r
  BY <1>1, <1>2 DEF storeVars, Coherent, LockHeld
<1>. QED
  BY <1>1, <1>2, <1>3, <1>4, CreateMoves DEF storeVars, lifecycleVars, HoldsRoomLock

LEMMA AcquireCoherent ==
    ASSUME Coherent, NEW r \in Requests, AcquireCreateLock(r),
           UNCHANGED <<lifecycleVars, spent>>
    PROVE  Coherent'
<1>. DEFINE key == CreateLock(r)
<1>1. key \in Locks /\ \A q \in Requests : RoomLock(q) \in Locks /\ key # RoomLock(q)
                                         /\ CreateLock(q) \in Locks
  BY LockKeyFacts
<1>2. SpentTypeOK' /\ UNCHANGED <<booking, stranded, op, asked, spent>>
  BY DEF Coherent, TypeOK, SpentTypeOK, AcquireCreateLock, lifecycleVars
<1>3. CASE SetIfAbsent(key, r) /\ Step(r, "acquire", "fetch")
  <2>1. /\ CreateTypeOK' /\ create[r] = "acquire" /\ create'[r] = "fetch"
        /\ \A q \in Requests : q # r => create'[q] = create[q]
    BY <1>3, StepEffect DEF Coherent, TypeOK, CreatePoints
  <2>2. /\ LocksTypeOK' /\ locks[key] = NoRequest /\ locks'[key] = r
        /\ \A k \in Locks : k # key => locks'[k] = locks[k]
    BY <1>1, <1>2, <1>3, LockEffect DEF Coherent, TypeOK, LocksTypeOK, LockTokens
  <2>3. spent.slow = 0 => \A q \in Requests : InCritical(q) => CreateLock(q) # key
    BY <2>2, NoRequestIsNone DEF Coherent, LockHeld
  <2>. HIDE DEF key
  <2>. QED
    BY <1>1, <1>2, <2>1, <2>2, <2>3, CreateMoves DEF key, HoldsRoomLock
<1>4. CASE Step(r, "acquire", "done") /\ UNCHANGED locks
  <2>1. /\ CreateTypeOK' /\ create[r] = "acquire" /\ create'[r] = "done"
        /\ \A q \in Requests : q # r => create'[q] = create[q]
    BY <1>4, StepEffect DEF Coherent, TypeOK, CreatePoints
  <2>2. LocksTypeOK'
    BY <1>2, <1>4 DEF Coherent, TypeOK, LocksTypeOK
  <2>. QED
    BY <1>2, <1>4, <2>1, <2>2, CreateMoves DEF Critical, HoldsRoomLock
<1>. QED
  BY <1>3, <1>4 DEF AcquireCreateLock

LEMMA TakeRoomLockCoherent ==
    ASSUME Coherent, NEW r \in Requests, TakeRoomLock(r),
           UNCHANGED <<lifecycleVars, spent>>
    PROVE  Coherent'
<1>. DEFINE key == RoomLock(r)
<1>1. key \in Locks /\ \A q \in Requests : RoomLock(q) \in Locks /\ key # CreateLock(q)
                                         /\ CreateLock(q) \in Locks
  BY LockKeyFacts
<1>2. SpentTypeOK' /\ UNCHANGED <<booking, op, asked, spent>>
  BY DEF Coherent, TypeOK, SpentTypeOK, TakeRoomLock, lifecycleVars
<1>3. CASE /\ SetIfAbsent(key, Key[r]) /\ Step(r, "roomLock", "insert")
           /\ stranded' = {q \in stranded : ~SameKey(q, r)}
  <2>1. /\ CreateTypeOK' /\ create[r] = "roomLock" /\ create'[r] = "insert"
        /\ \A q \in Requests : q # r => create'[q] = create[q]
    BY <1>3, StepEffect DEF Coherent, TypeOK, CreatePoints
  <2>2. /\ LocksTypeOK' /\ locks'[key] = Key[r]
        /\ \A k \in Locks : k # key => locks'[k] = locks[k]
    BY <1>1, <1>3, LockEffect DEF Coherent, TypeOK, LocksTypeOK, LockTokens
  <2>3. spent.slow = 0 => locks'[CreateLock(r)] = r
    BY <1>1, <2>1, <2>2 DEF Coherent, LockHeld, InCritical, Critical
  <2>4. \A b \in Requests : HoldsRoomLock(b)' => HoldsRoomLock(b) \/ SameKey(r, b)
    BY <1>1, <2>2 DEF HoldsRoomLock, SameKey, RoomLock
  <2>5. \A q \in stranded : q \in stranded' \/ SameKey(r, q)
    BY <1>3 DEF SameKey
  <2>. HIDE DEF key
  <2>. QED
    BY <1>1, <1>2, <2>1, <2>2, <2>3, <2>4, <2>5, CreateMoves
<1>4. CASE Step(r, "roomLock", "get") /\ UNCHANGED <<locks, stranded>>
  <2>1. /\ CreateTypeOK' /\ create[r] = "roomLock" /\ create'[r] = "get"
        /\ \A q \in Requests : q # r => create'[q] = create[q]
    BY <1>4, StepEffect DEF Coherent, TypeOK, CreatePoints
  <2>2. LocksTypeOK' /\ (spent.slow = 0 => locks'[CreateLock(r)] = r)
    BY <1>4, <2>1 DEF Coherent, TypeOK, LocksTypeOK, LockHeld, InCritical, Critical
  <2>. QED
    BY <1>2, <1>4, <2>1, <2>2, CreateMoves DEF HoldsRoomLock
<1>. QED
  BY <1>3, <1>4 DEF TakeRoomLock

LEMMA DropCreateLockCoherent ==
    ASSUME Coherent, NEW r \in Requests, DropCreateLock(r),
           UNCHANGED <<lifecycleVars, spent>>
    PROVE  Coherent'
<1>. DEFINE key == CreateLock(r)
<1>1. key \in Locks /\ \A q \in Requests : RoomLock(q) \in Locks /\ key # RoomLock(q)
                                         /\ CreateLock(q) \in Locks
  BY LockKeyFacts
<1>2. SpentTypeOK' /\ UNCHANGED <<booking, stranded, op, asked, spent>>
  BY DEF Coherent, TypeOK, SpentTypeOK, DropCreateLock, lifecycleVars
<1>3. Step(r, "del", "done") /\ Delete(key)
  BY DEF DropCreateLock
<1>4. /\ CreateTypeOK' /\ create[r] = "del" /\ create'[r] = "done"
      /\ \A q \in Requests : q # r => create'[q] = create[q]
  BY <1>3, StepEffect DEF Coherent, TypeOK, CreatePoints
<1>5. /\ LocksTypeOK' /\ \A k \in Locks : k # key => locks'[k] = locks[k]
  BY <1>1, <1>2, <1>3, LockEffect DEF Coherent, TypeOK, LocksTypeOK, LockTokens
<1>6. InCritical(r)
  BY <1>4 DEF InCritical, Critical
<1>7. spent.slow = 0 => \A q \in Requests : q # r /\ InCritical(q) => CreateLock(q) # key
  BY <1>6, Exclusive DEF Coherent
<1>. HIDE DEF key
<1>. QED
  BY <1>1, <1>2, <1>4, <1>5, <1>7, CreateMoves DEF Critical, HoldsRoomLock

\* The insert.  The nights are free, nobody else is in the handler, and the
\* request has no booking yet.
LEMMA InsertCoherent ==
    ASSUME Coherent, NEW r \in Requests, InsertBooking(r),
           UNCHANGED <<lifecycleVars, spent>>
    PROVE  Coherent'
<1>1. /\ CreateTypeOK' /\ create[r] = "insert" /\ create'[r] = "get"
      /\ \A q \in Requests : q # r => create'[q] = create[q]
  BY StepEffect DEF Coherent, TypeOK, CreatePoints, InsertBooking
<1>2. /\ UNCHANGED <<locks, op, asked, spent>>
      /\ LocksTypeOK' /\ SpentTypeOK'
  BY DEF Coherent, TypeOK, LocksTypeOK, SpentTypeOK, InsertBooking, Strand, lifecycleVars
<1>3. InCritical(r) /\ (spent.slow = 0 => locks[CreateLock(r)] = r) /\ ~Exists(r)
  BY <1>1 DEF Coherent, LockHeld, InCritical, Critical, Fresh
<1>4. CASE KeyUsed(r)
  <2>1. UNCHANGED booking /\ stranded' = stranded \cup {r}
    BY <1>4 DEF InsertBooking, Strand
  <2>. QED
    BY <1>1, <1>2, <1>3, <2>1, CreateMoves DEF HoldsRoomLock
<1>5. CASE ~KeyUsed(r)
  <2>1. UpdateBooking(r, "PENDING_PAYMENT", "PENDING") /\ UNCHANGED stranded
    BY <1>5 DEF InsertBooking
  <2>2. /\ booking'[r].status = "PENDING_PAYMENT" /\ booking'[r].payment = "PENDING"
        /\ \A c \in Requests : c # r => booking'[c] = booking[c]
        /\ BookingTypeOK' /\ Exists(r)'
    BY <2>1, UpdateEffect DEF Coherent, TypeOK, Statuses, Payments
  <2>3. TypeOK'
    <3>1. \A c \in Requests : Exists(c) => Exists(c)'
      BY <2>2 DEF Exists
    <3>. QED
      BY <1>1, <1>2, <2>2, <3>1 DEF Coherent, TypeOK, OpTypeOK, AskedTypeOK, OnBooking
  <2>4. (spent.slow = 0 => LockHeld)'
    BY <1>1, <1>2, <1>3 DEF Coherent, LockHeld, InCritical
  <2>5. Fresh'
    BY <1>1, <2>2 DEF Coherent, Fresh, Exists
  <2>6. \A c \in Requests : c # r => (Live(c)' <=> Live(c))
    BY <2>2 DEF Live
  <2>7. ASSUME ~Interleave, spent.slow = 0 PROVE NightsFree'
    <3>. SUFFICES ASSUME NEW q \in Requests, NEW b \in Requests,
                         create'[q] \in {"roomLock", "insert"}, Live(b)'
                  PROVE  ~Clash(b, q)
      BY DEF NightsFree, Clash
    <3>1. q # r /\ create[q] \in {"roomLock", "insert"}
      BY <1>1
    <3>2. CASE b = r
      BY <1>3, <2>7, <3>1, <3>2, Exclusive, LockKeyFacts DEF Coherent, InCritical, Critical
    <3>3. CASE b # r
      BY <2>6, <2>7, <3>1, <3>3 DEF Coherent, NightsFree
    <3>. QED
      BY <3>2, <3>3
  <2>8. ASSUME ~Interleave, spent.slow = 0 PROVE NoDoubleBooking'
    <3>1. \A c \in Requests : Live(c) => ~Clash(c, r) /\ ~Clash(r, c)
      BY <1>1, <2>8, LockKeyFacts DEF Coherent, NightsFree
    <3>2. NoDoubleBooking
      BY <2>8 DEF Coherent
    <3>. QED
      BY <2>6, <3>1, <3>2 DEF NoDoubleBooking, Clash
  <2>9. (~Interleave => Serial)'
    <3>1. \A o \in Ops : op[o].pc # "idle" => OnBooking(o) \in Requests /\ OnBooking(o) # r
      BY <1>3 DEF Coherent, TypeOK, OpTypeOK
    <3>. QED
      BY <1>2, <2>2, <3>1 DEF Coherent, Serial, OneOpEach, OnBooking, ReadHolds, Pending, Live
  <2>10. RoomLockReleased'
    <3>1. \A q \in Requests : Minds(q) => Minds(q)'
      BY <1>1, <1>2, <2>2 DEF Minds, Pending, OnBooking
    <3>. QED
      BY <1>2, <2>1, <3>1 DEF Coherent, RoomLockReleased, HoldsRoomLock, SameKey
  <2>11. PaymentAgrees' /\ LiveSeen'
    BY <1>2, <2>2 DEF Coherent, PaymentAgrees, Agrees, Fits, Exists, LiveSeen
  <2>. QED
    BY <1>2, <2>3, <2>4, <2>5, <2>7, <2>8, <2>9, <2>10, <2>11 DEF Coherent
<1>. QED
  BY <1>4, <1>5

\* A call in the handler throws, or the process dies.
LEMMA CreateFaultCoherent ==
    ASSUME Coherent, NEW r \in Requests, Spend("faults", MaxFaults),
           HandlerThrows(r) \/ RequestDies(r), UNCHANGED lifecycleVars
    PROVE  Coherent'
<1>1. SpentTypeOK' /\ spent'.slow = spent.slow
  BY DEF Coherent, TypeOK, SpentTypeOK, Spend
<1>2. /\ UNCHANGED <<locks, booking, op, asked>> /\ LocksTypeOK'
      /\ stranded \subseteq stranded' /\ (create[r] = "insert" => r \in stranded')
  BY DEF HandlerThrows, RequestDies, LeaveRoomLock, Strand, lifecycleVars, Coherent, TypeOK, LocksTypeOK
<1>3. PICK t \in {"get", "done"} :
        create' = [create EXCEPT ![r] = t] /\ (t = "get" => InCritical(r))
  BY DEF HandlerThrows, RequestDies, Handler, InCritical, Critical
<1>4. /\ CreateTypeOK' /\ create'[r] = t
      /\ \A q \in Requests : q # r => create'[q] = create[q]
  BY <1>3 DEF Coherent, TypeOK, CreateTypeOK, CreatePoints
<1>5. spent.slow = 0 /\ create'[r] \in Critical => locks'[CreateLock(r)] = r
  BY <1>2, <1>3, <1>4 DEF Critical, Coherent, LockHeld
<1>. QED
  BY <1>1, <1>2, <1>4, <1>5, CreateMoves DEF HoldsRoomLock

\* A create lock expires: when its request is over, or under a live one, and that counts
\* as slow.
LEMMA CreateLockExpiresCoherent ==
    ASSUME Coherent, NEW r \in Requests, CreateLockExpires(r)
    PROVE  Coherent'
<1>. DEFINE key == CreateLock(r)
<1>1. key \in Locks /\ \A q \in Requests : RoomLock(q) \in Locks /\ key # RoomLock(q)
                                         /\ CreateLock(q) \in Locks
  BY LockKeyFacts
<1>2. Delete(key) /\ locks[key] = r /\ UNCHANGED <<booking, stranded, create, op, asked>>
  BY DEF CreateLockExpires, Expire, lifecycleVars
<1>3. /\ SpentTypeOK'
      /\ spent'.slow = 0 => spent.slow = 0 /\ ~InCritical(r)
  BY DEF CreateLockExpires, Spend, Coherent, TypeOK, SpentTypeOK
<1>4. LocksTypeOK' /\ \A k \in Locks : k # key => locks'[k] = locks[k]
  BY <1>1, <1>2, LockEffect DEF Coherent, TypeOK, LocksTypeOK, LockTokens
<1>5. spent'.slow = 0 => \A q \in Requests : InCritical(q) => CreateLock(q) # key
  BY <1>2, <1>3 DEF Coherent, LockHeld
<1>6. CreateTypeOK'
  BY <1>2 DEF Coherent, TypeOK, CreateTypeOK
<1>7. spent'.slow = 0 => create'[r] \notin Critical
  BY <1>2, <1>3 DEF InCritical
<1>8. spent'.slow = 0 =>
        \A q \in Requests : InCritical(q) => locks'[CreateLock(q)] = locks[CreateLock(q)]
  BY <1>1, <1>4, <1>5
<1>9. \A q \in Requests : HoldsRoomLock(q)' <=> HoldsRoomLock(q)
  BY <1>1, <1>4 DEF HoldsRoomLock, RoomLock
<1>. HIDE DEF key
<1>10. create' = create
  BY <1>2
<1>. QED
  BY <1>2, <1>3, <1>4, <1>6, <1>7, <1>8, <1>9, <1>10, CreateMoves

LEMMA RoomLockExpiresCoherent ==
    ASSUME Coherent, NEW r \in Requests, RoomLockExpires(r)
    PROVE  Coherent'
<1>. DEFINE key == RoomLock(r)
<1>1. key \in Locks /\ \A q \in Requests : RoomLock(q) \in Locks /\ key # CreateLock(q)
                                         /\ CreateLock(q) \in Locks
  BY LockKeyFacts
<1>2. Delete(key) /\ UNCHANGED <<booking, stranded, create, op, asked, spent>>
  BY DEF RoomLockExpires, Expire, lifecycleVars
<1>3. /\ LocksTypeOK' /\ locks'[key] = NoRequest
      /\ \A k \in Locks : k # key => locks'[k] = locks[k]
  BY <1>1, <1>2, LockEffect DEF Coherent, TypeOK, LocksTypeOK, LockTokens
<1>4. CreateTypeOK' /\ SpentTypeOK'
  BY <1>2 DEF Coherent, TypeOK, CreateTypeOK, SpentTypeOK
<1>5. \A q \in Requests : locks'[CreateLock(q)] = locks[CreateLock(q)]
  BY <1>1, <1>3
<1>6. \A b \in Requests : HoldsRoomLock(b)' => HoldsRoomLock(b)
  BY <1>1, <1>3, NoRequestIsNone DEF HoldsRoomLock, RoomLock
<1>7. spent.slow = 0 /\ create'[r] \in Critical => locks'[CreateLock(r)] = r
  BY <1>2, <1>5 DEF Coherent, LockHeld, InCritical
<1>. HIDE DEF key
<1>8. create' = create
  BY <1>2
<1>. QED
  BY <1>2, <1>3, <1>4, <1>5, <1>6, <1>7, <1>8, CreateMoves

-----------------------------------------------------------------------------
(***************************************************************************)
(* A step of an operation.  It touches no booking but its own, and is the  *)
(* only one on it unless operations interleave.                            *)
(***************************************************************************)
LEMMA OpMoves ==
    ASSUME Coherent, NEW o \in Ops, NEW b \in Requests,
           UNCHANGED create,
           op' \in [Ops -> Op],
           \A p \in Ops : p # o => op'[p] = op[p],
           op[o].pc = "release" => op[o].booking = b,
           op'[o].booking \in {b, NoRequest},
           op'[o].pc # "idle" => op'[o].booking = b /\ op'[o].seen \in Payments,
           BookingTypeOK', Exists(b), Exists(b)',
           \A c \in Requests : c # b => booking'[c] = booking[c],
           ~Interleave => \A p \in Ops : p # o => op[p].booking # b,
           ~Interleave => ReadHolds(o)',
           Agrees(b)',
           op'[o].pc = "cancelWrite" => op'[o].seen \in {"PENDING", "PROCESSING", "SUCCESS"},
           ~Interleave /\ Live(b)' => Live(b),
           asked' \subseteq asked \cup {b},
           LocksTypeOK',
           \A q \in Requests : locks'[CreateLock(q)] = locks[CreateLock(q)],
           \A c \in Requests : HoldsRoomLock(c)' => HoldsRoomLock(c),
           stranded \subseteq stranded',
           HoldsRoomLock(b)' /\ (Pending(b) \/ op[o].pc = "release")
                => Pending(b)' \/ op'[o].pc = "release" \/ b \in stranded',
           SpentTypeOK', spent'.slow = spent.slow
    PROVE  Coherent'
<1>0. b # NoRequest
  BY NoRequestIsNone
<1>1. \A c \in Requests : (Exists(c)' <=> Exists(c)) /\ (~Interleave /\ Live(c)' => Live(c))
  BY DEF Exists, Live
<1>2. OpTypeOK'
  BY <1>1 DEF Coherent, TypeOK, OpTypeOK, OnBooking
<1>3. AskedTypeOK' /\ CreateTypeOK'
  BY <1>1 DEF Coherent, TypeOK, AskedTypeOK, CreateTypeOK
<1>4. (spent.slow = 0 => LockHeld)' /\ Fresh'
  BY <1>1 DEF Coherent, LockHeld, InCritical, Fresh
<1>5. (~Interleave /\ spent.slow = 0 => NightsFree /\ NoDoubleBooking)'
  <2>. SUFFICES ASSUME ~Interleave, spent.slow = 0 PROVE NightsFree' /\ NoDoubleBooking'
    OBVIOUS
  <2>1. NightsFree /\ NoDoubleBooking
    BY DEF Coherent
  <2>. QED
    BY <1>1, <2>1 DEF NightsFree, NoDoubleBooking, Clash
<1>6. (~Interleave => Serial)'
  <2>. SUFFICES ASSUME ~Interleave PROVE Serial'
    OBVIOUS
  <2>0. Serial
    BY DEF Coherent
  <2>1. OneOpEach'
    BY <1>0, <2>0 DEF Serial, OneOpEach, OnBooking
  <2>2. ASSUME NEW p \in Ops, p # o PROVE ReadHolds(p)'
    <3>1. op'[p] = op[p] /\ op[p].booking # b /\ ReadHolds(p)
      BY <2>0, <2>2 DEF Serial
    <3>2. op[p].pc # "idle" => booking'[op[p].booking] = booking[op[p].booking]
      BY <3>1 DEF Coherent, TypeOK, OpTypeOK, OnBooking
    <3>. QED
      BY <3>1, <3>2 DEF ReadHolds, OnBooking, Pending, Live
  <2>. QED
    BY <2>1, <2>2 DEF Serial
<1>7. RoomLockReleased'
  <2>. SUFFICES ASSUME NEW c \in Requests, HoldsRoomLock(c)'
                PROVE  \E q \in Requests : SameKey(q, c) /\ (Minds(q)' \/ q \in stranded')
    BY DEF RoomLockReleased, SameKey
  <2>1. PICK q \in Requests : SameKey(q, c) /\ (Minds(q) \/ q \in stranded)
    BY DEF Coherent, RoomLockReleased
  <2>2. HoldsRoomLock(q)'
    BY <2>1, KeyFacts
  <2>3. create[q] = "insert" => Minds(q)'
    BY DEF Minds
  <2>4. Pending(q) => Minds(q)' \/ q \in stranded'
    BY <2>2 DEF Minds, Pending, OnBooking
  <2>5. ASSUME NEW p \in Ops, op[p].pc = "release", op[p].booking = q
        PROVE  Minds(q)' \/ q \in stranded'
    <3>1. CASE p = o
      BY <2>2, <2>5, <3>1 DEF Minds, OnBooking
    <3>2. CASE p # o
      BY <2>5, <3>2 DEF Minds, OnBooking
    <3>. QED
      BY <3>1, <3>2
  <2>. QED
    BY <2>1, <2>3, <2>4, <2>5 DEF Minds, OnBooking
<1>8. PaymentAgrees'
  BY DEF Coherent, PaymentAgrees, Agrees, Exists
<1>9. LiveSeen'
  BY DEF Coherent, LiveSeen
<1>. QED
  BY <1>2, <1>3, <1>4, <1>5, <1>6, <1>7, <1>8, <1>9 DEF Coherent, TypeOK

\* Unless operations interleave, nobody else is on the booking of one in flight.
LEMMA OpAlone ==
    ASSUME Coherent, NEW o \in Ops, op[o].pc # "idle"
    PROVE  /\ OnBooking(o) \in Requests /\ Exists(OnBooking(o)) /\ op[o].seen \in Payments
           /\ ~Interleave => \A p \in Ops : p # o => op[p].booking # OnBooking(o)
           /\ ~Interleave => ReadHolds(o)
           /\ Agrees(OnBooking(o))
<1>1. OnBooking(o) \in Requests /\ Exists(OnBooking(o)) /\ op[o].seen \in Payments
  BY OpFacts DEF Coherent, TypeOK
<1>. QED
  BY <1>1, NoRequestIsNone DEF Coherent, Serial, OneOpEach, OnBooking, PaymentAgrees

LEMMA BeginCoherent ==
    ASSUME Coherent, NEW o \in Ops, NEW b \in Requests,
           ~Interleave => \A p \in Ops : op[p].booking # b,
           NEW point \in {"cancelWrite", "successWrite", "failRead", "failWrite", "processRead"},
           Exists(b), Begin(o, b, point),
           point \in {"successWrite", "failWrite"} => Pending(b),
           point = "cancelWrite" => Live(b),
           UNCHANGED <<asked, storeVars, create, spent>>
    PROVE  Coherent'
<1>1. UNCHANGED <<locks, booking, stranded, create, asked, spent>>
  BY DEF storeVars
<1>2. /\ op' \in [Ops -> Op]
      /\ op[o].pc = "idle" /\ op'[o].pc = point
      /\ op'[o].booking = b /\ op'[o].seen = booking[b].payment
      /\ op'[o].seen \in Payments
      /\ \A p \in Ops : p # o => op'[p] = op[p]
  BY BeginEffect DEF Coherent, TypeOK, OpPoints
<1>3. ReadHolds(o)'
  BY <1>1, <1>2 DEF ReadHolds, OnBooking, Pending, Live
<1>4. /\ BookingTypeOK' /\ Exists(b)' /\ (Live(b)' => Live(b))
      /\ Agrees(b) /\ Agrees(b)' /\ (Pending(b) => Pending(b)')
      /\ \A c \in Requests : HoldsRoomLock(c)' => HoldsRoomLock(c)
  BY <1>1 DEF Coherent, TypeOK, BookingTypeOK, Exists, Live, Pending, PaymentAgrees, Agrees,
              HoldsRoomLock
<1>5. LocksTypeOK' /\ SpentTypeOK'
  BY <1>1 DEF Coherent, TypeOK, LocksTypeOK, SpentTypeOK
<1>6. point = "cancelWrite" => op'[o].seen \in {"PENDING", "PROCESSING", "SUCCESS"}
  BY <1>2, <1>4 DEF Agrees, Live, Fits
<1>. QED
  BY <1>1, <1>2, <1>3, <1>4, <1>5, <1>6, OpMoves

LEMMA StartOpCoherent ==
    ASSUME Coherent, NEW o \in Ops, NEW b \in Requests, StartOp(o, b)
    PROVE  Coherent'
<1>1. /\ ~Interleave => \A p \in Ops : op[p].booking # b
      /\ UNCHANGED <<create, spent>>
  BY DEF StartOp, MayTouch
<1>2. /\ Live(b) => Exists(b)
      /\ Pending(b) => Exists(b)
  BY DocumentFacts DEF Coherent, TypeOK
<1>3. CASE BeginCancel(o, b)
  BY <1>1, <1>2, <1>3, BeginCoherent DEF BeginCancel
<1>4. CASE BeginProceed(o, b)
  BY <1>1, <1>2, <1>4, BeginCoherent DEF BeginProceed
<1>5. CASE BeginSuccess(o, b)
  BY <1>1, <1>2, <1>5, BeginCoherent DEF BeginSuccess
<1>6. CASE BeginFailure(o, b)
  BY <1>1, <1>2, <1>6, BeginCoherent DEF BeginFailure
<1>. QED
  BY <1>3, <1>4, <1>5, <1>6 DEF StartOp

\* Steps that change no booking and no lock.
LEMMA QuietCoherent ==
    ASSUME Coherent, NEW o \in Ops, NEW b \in Requests, OnBooking(o) = b,
           NEW from \in OpPoints \ {"idle", "release"},
           NEW to \in {"idle", "failRead", "failWrite", "processWrite", "emit"},
           Advance(o, from, to),
           to \in {"failWrite", "processWrite"} => Pending(b),
           asked' \subseteq asked \cup {b},
           UNCHANGED <<storeVars, create>>,
           SpentTypeOK', spent'.slow = spent.slow
    PROVE  Coherent'
<1>1. UNCHANGED <<locks, booking, stranded, create>>
  BY DEF storeVars
<1>2. /\ op' \in [Ops -> Op]
      /\ op[o].pc = from /\ op[o].booking = b /\ op'[o].pc = to
      /\ to # "idle" => op'[o].booking = b /\ op'[o].seen = op[o].seen
      /\ to = "idle" => op'[o].booking = NoRequest
      /\ \A p \in Ops : p # o => op'[p] = op[p]
  BY AdvanceEffect DEF Coherent, TypeOK, OpPoints, OnBooking
<1>3. /\ Exists(b) /\ op[o].seen \in Payments
      /\ ~Interleave => \A p \in Ops : p # o => op[p].booking # b
  BY <1>2, OpAlone
<1>4. ReadHolds(o)'
  BY <1>1, <1>2 DEF ReadHolds, OnBooking, Pending
<1>5. /\ BookingTypeOK' /\ Exists(b)' /\ (Live(b)' => Live(b))
      /\ Agrees(b)' /\ (Pending(b) => Pending(b)')
      /\ \A c \in Requests : HoldsRoomLock(c)' => HoldsRoomLock(c)
  BY <1>1, <1>3 DEF Coherent, TypeOK, BookingTypeOK, Exists, Live, Pending, PaymentAgrees, Agrees,
                    HoldsRoomLock
<1>6. LocksTypeOK'
  BY <1>1 DEF Coherent, TypeOK, LocksTypeOK
<1>. QED
  BY <1>1, <1>2, <1>3, <1>4, <1>5, <1>6, OpMoves

\* Writes that settle a booking, and go on to release its lock.
LEMMA SettleCoherent ==
    ASSUME Coherent, NEW o \in Ops, NEW b \in Requests, OnBooking(o) = b,
           NEW from \in OpPoints \ {"idle", "release"},
           Advance(o, from, "release"),
           NEW s \in {"CONFIRMED", "FAILED", "CANCELLED"}, NEW p \in Payments,
           UpdateBooking(b, s, p),
           ~Interleave /\ s = "CONFIRMED" => Live(b),
           p \in Fits(s),
           UNCHANGED <<asked, locks, stranded, create, spent>>
    PROVE  Coherent'
<1>1. /\ op' \in [Ops -> Op]
      /\ op[o].pc = from /\ op[o].booking = b
      /\ op'[o].pc = "release" /\ op'[o].booking = b /\ op'[o].seen = op[o].seen
      /\ \A q \in Ops : q # o => op'[q] = op[q]
  BY AdvanceEffect DEF Coherent, TypeOK, OpPoints, OnBooking
<1>2. /\ Exists(b) /\ op[o].seen \in Payments
      /\ ~Interleave => \A q \in Ops : q # o => op[q].booking # b
  BY <1>1, OpAlone
<1>3. /\ booking'[b].status = s /\ booking'[b].payment = p
      /\ \A c \in Requests : c # b => booking'[c] = booking[c]
      /\ BookingTypeOK' /\ Exists(b)'
  BY UpdateEffect DEF Coherent, TypeOK, Statuses
<1>4. ReadHolds(o)'
  BY <1>1 DEF ReadHolds
<1>5. /\ ~Interleave /\ Live(b)' => Live(b)
      /\ Agrees(b)'
      /\ \A c \in Requests : HoldsRoomLock(c)' => HoldsRoomLock(c)
  BY <1>3 DEF Live, Agrees, Fits, HoldsRoomLock
<1>6. LocksTypeOK' /\ SpentTypeOK'
  BY DEF Coherent, TypeOK, LocksTypeOK, SpentTypeOK
<1>. QED
  BY <1>1, <1>2, <1>3, <1>4, <1>5, <1>6, OpMoves

\* mark-processing writes the payment column, and leaves the status as it is by now.
LEMMA ProcessWriteCoherent ==
    ASSUME Coherent, NEW o \in Ops, ProcessWrite(o), UNCHANGED <<create, spent>>
    PROVE  Coherent'
<1>1. PICK b \in Requests : OnBooking(o) = b /\ op[o].pc = "processWrite"
  BY OpAlone DEF ProcessWrite, Advance
<1>2. PICK to \in {"emit", "idle"} :
         /\ Advance(o, "processWrite", to)
         /\ UpdateBooking(b, booking[b].status, "PROCESSING")
         /\ UNCHANGED <<asked, locks, stranded>>
  BY <1>1 DEF ProcessWrite
<1>3. /\ op' \in [Ops -> Op]
      /\ op[o].booking = b /\ op'[o].pc = to
      /\ to # "idle" => op'[o].booking = b /\ op'[o].seen = op[o].seen
      /\ to = "idle" => op'[o].booking = NoRequest
      /\ \A q \in Ops : q # o => op'[q] = op[q]
  BY <1>1, <1>2, AdvanceEffect DEF Coherent, TypeOK, OpPoints, OnBooking
<1>4. /\ Exists(b) /\ op[o].seen \in Payments
      /\ ~Interleave => \A q \in Ops : q # o => op[q].booking # b
      /\ ~Interleave => Pending(b)
  BY <1>1, OpAlone DEF ReadHolds
<1>5. booking[b].status \in Statuses
  BY <1>4, DocumentFacts DEF Coherent, TypeOK
<1>6. PICK s : s = booking[b].status
  OBVIOUS
<1>7. /\ booking'[b].status = s /\ booking'[b].payment = "PROCESSING"
      /\ \A c \in Requests : c # b => booking'[c] = booking[c]
      /\ BookingTypeOK' /\ Exists(b)'
  BY <1>2, <1>5, <1>6, UpdateEffect DEF Coherent, TypeOK, Payments
<1>8. ReadHolds(o)'
  BY <1>3 DEF ReadHolds
<1>9. /\ Live(b)' => Live(b)
      /\ Agrees(b)'
      /\ Pending(b) => Pending(b)'
      /\ \A c \in Requests : HoldsRoomLock(c)' => HoldsRoomLock(c)
  BY <1>2, <1>4, <1>6, <1>7 DEF Live, Pending, Agrees, Fits, HoldsRoomLock
<1>10. LocksTypeOK' /\ SpentTypeOK'
  BY <1>2 DEF Coherent, TypeOK, LocksTypeOK, SpentTypeOK
<1>11. op[o].pc = "processWrite"
  BY <1>1
<1>. QED
  BY <1>1, <1>2, <1>3, <1>4, <1>7, <1>8, <1>9, <1>10, <1>11, OpMoves

LEMMA ReleaseCoherent ==
    ASSUME Coherent, NEW o \in Ops, ReleaseRoomLock(o), UNCHANGED <<create, spent>>
    PROVE  Coherent'
<1>1. op[o].pc = "release"
  BY DEF ReleaseRoomLock, Advance
<1>2. PICK b \in Requests :
         /\ OnBooking(o) = b /\ Exists(b)
         /\ ~Interleave => \A q \in Ops : q # o => op[q].booking # b
  BY <1>1, OpAlone
<1>3. /\ op' \in [Ops -> Op]
      /\ op[o].booking = b /\ op'[o].pc = "idle" /\ op'[o].booking = NoRequest
      /\ \A q \in Ops : q # o => op'[q] = op[q]
  BY <1>2, AdvanceEffect DEF Coherent, TypeOK, OpPoints, OnBooking, ReleaseRoomLock
<1>4. /\ RoomLock(b) \in Locks
      /\ \A q \in Requests : /\ RoomLock(q) \in Locks /\ CreateLock(q) \in Locks
                             /\ CreateLock(q) # RoomLock(b)
  BY LockKeyFacts
<1>5. Delete(RoomLock(b)) /\ UNCHANGED <<asked, booking, stranded>>
  BY <1>2 DEF ReleaseRoomLock
<1>6. /\ LocksTypeOK' /\ locks'[RoomLock(b)] = NoRequest
      /\ \A k \in Locks : k # RoomLock(b) => locks'[k] = locks[k]
  BY <1>4, <1>5, LockEffect DEF Coherent, TypeOK, LocksTypeOK, LockTokens
<1>7. \A q \in Requests : locks'[CreateLock(q)] = locks[CreateLock(q)]
  BY <1>4, <1>6
<1>8. /\ ~HoldsRoomLock(b)'
      /\ \A c \in Requests : HoldsRoomLock(c)' => HoldsRoomLock(c)
  BY <1>4, <1>6, NoRequestIsNone DEF HoldsRoomLock, RoomLock
<1>9. ReadHolds(o)'
  BY <1>3 DEF ReadHolds
<1>10. /\ BookingTypeOK' /\ Exists(b)' /\ (Live(b)' => Live(b))
       /\ Agrees(b)'
  BY <1>2, <1>5 DEF Coherent, TypeOK, BookingTypeOK, Exists, Live, PaymentAgrees, Agrees
<1>11. SpentTypeOK'
  BY DEF Coherent, TypeOK, SpentTypeOK
<1>. QED
  BY <1>2, <1>3, <1>5, <1>6, <1>7, <1>8, <1>9, <1>10, <1>11, OpMoves

LEMMA ServeOpCoherent ==
    ASSUME Coherent, NEW o \in Ops, ServeOp(o)
    PROVE  Coherent'
<1>1. UNCHANGED <<create, spent>> /\ SpentTypeOK'
  BY DEF ServeOp, Coherent, TypeOK, SpentTypeOK
<1>2. op[o].pc # "idle"
  BY DEF ServeOp, OpStep, CancelWrite, SuccessWrite, FailRead, FailWrite, ProcessRead,
         ProcessWrite, EmitBookingCreated, ReleaseRoomLock, Advance
<1>3. PICK b \in Requests : OnBooking(o) = b
  BY <1>2, OpAlone
<1>4. CASE CancelWrite(o)
  <2>. DEFINE p == IF op[o].seen = "SUCCESS" THEN "REFUNDED" ELSE op[o].seen
  <2>1. /\ Advance(o, "cancelWrite", "release") /\ UNCHANGED <<asked, locks, stranded>>
        /\ UpdateBooking(b, "CANCELLED", p)
        /\ op[o].pc = "cancelWrite"
    BY <1>3, <1>4 DEF CancelWrite, Advance
  <2>2. op[o].seen \in {"PENDING", "PROCESSING", "SUCCESS"}
    BY <2>1 DEF Coherent, LiveSeen
  <2>3. p \in Payments /\ p \in Fits("CANCELLED")
    BY <2>2 DEF Payments, Fits
  <2>. HIDE DEF p
  <2>4. "cancelWrite" \in OpPoints \ {"idle", "release"}
    BY DEF OpPoints
  <2>. QED
    BY <1>1, <1>3, <2>1, <2>2, <2>3, <2>4, SettleCoherent
<1>5. CASE SuccessWrite(o)
  <2>1. /\ Advance(o, "successWrite", "release") /\ UNCHANGED <<asked, locks, stranded>>
        /\ UpdateBooking(b, "CONFIRMED", "SUCCESS")
        /\ op[o].pc = "successWrite"
    BY <1>3, <1>5 DEF SuccessWrite, Advance
  <2>2. ~Interleave => Live(b)
    BY <1>2, <1>3, <2>1, OpAlone DEF ReadHolds, Pending, Live
  <2>. QED
    BY <1>1, <1>3, <2>1, <2>2, SettleCoherent DEF OpPoints, Payments, Fits
<1>6. CASE FailWrite(o)
  BY <1>1, <1>3, <1>6, SettleCoherent DEF FailWrite, OpPoints, Payments, Fits
<1>7. CASE FailRead(o)
  BY <1>1, <1>3, <1>7, QuietCoherent DEF FailRead, OpPoints
<1>8. CASE ProcessRead(o)
  BY <1>1, <1>3, <1>8, QuietCoherent DEF ProcessRead, OpPoints
<1>9. CASE EmitBookingCreated(o)
  BY <1>1, <1>3, <1>9, QuietCoherent DEF EmitBookingCreated, OpPoints
<1>10. CASE ProcessWrite(o)
  BY <1>1, <1>10, ProcessWriteCoherent
<1>11. CASE ReleaseRoomLock(o)
  BY <1>1, <1>11, ReleaseCoherent
<1>. QED
  BY <1>4, <1>5, <1>6, <1>7, <1>8, <1>9, <1>10, <1>11 DEF ServeOp, OpStep

\* A call fails, or the process dies with the operation half done.
LEMMA OpFaultCoherent ==
    ASSUME Coherent, NEW o \in Ops, Spend("faults", MaxFaults),
           OpDies(o) \/ EmitFails(o), UNCHANGED create
    PROVE  Coherent'
<1>1. SpentTypeOK' /\ spent'.slow = spent.slow
  BY DEF Coherent, TypeOK, SpentTypeOK, Spend
<1>2. op[o].pc # "idle"
  BY DEF OpDies, EmitFails, Advance
<1>3. PICK b \in Requests :
         /\ OnBooking(o) = b /\ Exists(b)
         /\ ~Interleave => \A q \in Ops : q # o => op[q].booking # b
  BY <1>2, OpAlone
<1>4. CASE OpDies(o)
  <2>1. /\ UNCHANGED <<locks, booking, asked>> /\ op' = [op EXCEPT ![o] = IdleOp]
        /\ stranded \subseteq stranded' /\ stranded' \subseteq stranded \cup {b}
        /\ op[o].pc = "release" => b \in stranded'
    BY <1>3, <1>4 DEF OpDies, Strand
  <2>2. /\ op' \in [Ops -> Op]
        /\ op'[o].pc = "idle" /\ op'[o].booking = NoRequest
        /\ \A q \in Ops : q # o => op'[q] = op[q]
    BY <2>1, DropEffect DEF Coherent, TypeOK
  <2>3. ReadHolds(o)'
    BY <2>2 DEF ReadHolds
  <2>4. /\ BookingTypeOK' /\ Exists(b)' /\ (Live(b)' => Live(b))
        /\ Agrees(b)' /\ (Pending(b) => Pending(b)')
        /\ \A c \in Requests : HoldsRoomLock(c)' => HoldsRoomLock(c)
    BY <1>3, <2>1 DEF Coherent, TypeOK, BookingTypeOK, Exists, Live, Pending, PaymentAgrees, Agrees,
                      HoldsRoomLock
  <2>5. LocksTypeOK'
    BY <2>1 DEF Coherent, TypeOK, LocksTypeOK
  <2>6. op[o].booking = b
    BY <1>3 DEF OnBooking
  <2>. QED
    BY <1>1, <1>3, <2>1, <2>2, <2>3, <2>4, <2>5, <2>6, OpMoves
<1>5. CASE EmitFails(o)
  BY <1>1, <1>3, <1>5, QuietCoherent DEF EmitFails, OpPoints
<1>. QED
  BY <1>4, <1>5

-----------------------------------------------------------------------------
(***************************************************************************)
(* The theorems.                                                           *)
(***************************************************************************)
LEMMA StutterCoherent == ASSUME Coherent, UNCHANGED vars PROVE Coherent'
<1>1. UNCHANGED <<locks, booking, stranded, create, op, asked, spent>>
  BY DEF vars, storeVars, lifecycleVars
<1>2. TypeOK'
  BY <1>1 DEF Coherent, TypeOK, LocksTypeOK, BookingTypeOK, CreateTypeOK, OpTypeOK,
              AskedTypeOK, SpentTypeOK, OnBooking, Exists
<1>3. Fresh' /\ (LockHeld' <=> LockHeld) /\ (NightsFree' <=> NightsFree)
      /\ (NoDoubleBooking' <=> NoDoubleBooking)
  BY <1>1 DEF Coherent, LockHeld, InCritical, Fresh, Exists, NightsFree,
              NoDoubleBooking, Live
<1>4. Serial' <=> Serial
  BY <1>1 DEF Serial, OneOpEach, OnBooking, ReadHolds, Pending, Live
<1>5. RoomLockReleased' /\ PaymentAgrees' /\ LiveSeen'
  BY <1>1 DEF Coherent, RoomLockReleased, HoldsRoomLock, SameKey, Minds, Pending, OnBooking,
              PaymentAgrees, Agrees, Exists, LiveSeen
<1>. QED
  BY <1>1, <1>2, <1>3, <1>4, <1>5 DEF Coherent

LEMMA ServeCreateCoherent ==
    ASSUME Coherent, NEW r \in Requests, ServeCreate(r) PROVE Coherent'
<1>1. UNCHANGED <<lifecycleVars, spent>>
  BY DEF ServeCreate
<1>2. CASE FindByKey(r) \/ FetchRoom(r) \/ CheckOverlap(r) \/ ReadCreateLock(r)
  BY <1>1, <1>2, WalkCoherent
<1>3. CASE AcquireCreateLock(r)
  BY <1>1, <1>3, AcquireCoherent
<1>4. CASE TakeRoomLock(r)
  BY <1>1, <1>4, TakeRoomLockCoherent
<1>5. CASE InsertBooking(r)
  BY <1>1, <1>5, InsertCoherent
<1>6. CASE DropCreateLock(r)
  BY <1>1, <1>6, DropCreateLockCoherent
<1>. QED
  BY <1>2, <1>3, <1>4, <1>5, <1>6 DEF ServeCreate, CreateStep

LEMMA NextCoherent ==
    ASSUME Coherent, [Next]_vars PROVE Coherent'
<1>1. ASSUME NEW r \in Requests, Submit(r) PROVE Coherent'
  BY <1>1, SubmitCoherent
<1>2. ASSUME NEW r \in Requests, ServeCreate(r) PROVE Coherent'
  BY <1>2, ServeCreateCoherent
<1>3. ASSUME NEW r \in Requests, CreateLockExpires(r) PROVE Coherent'
  BY <1>3, CreateLockExpiresCoherent
<1>4. ASSUME NEW r \in Requests, RoomLockExpires(r) PROVE Coherent'
  BY <1>4, RoomLockExpiresCoherent
<1>5. ASSUME NEW o \in Ops, ServeOp(o) PROVE Coherent'
  BY <1>5, ServeOpCoherent
<1>6. ASSUME NEW o \in Ops, NEW b \in Requests, StartOp(o, b) PROVE Coherent'
  BY <1>6, StartOpCoherent
<1>7. CASE Disturb
  <2>1. Spend("faults", MaxFaults)
    BY <1>7 DEF Disturb
  <2>2. ASSUME NEW r \in Requests, HandlerThrows(r) \/ RequestDies(r), UNCHANGED lifecycleVars
        PROVE  Coherent'
    BY <2>1, <2>2, CreateFaultCoherent
  <2>3. ASSUME NEW o \in Ops, OpDies(o) \/ EmitFails(o), UNCHANGED create
        PROVE  Coherent'
    BY <2>1, <2>3, OpFaultCoherent
  <2>. QED
    BY <1>7, <2>2, <2>3 DEF Disturb
<1>8. CASE UNCHANGED vars
  BY <1>8, StutterCoherent
<1>. QED
  BY <1>1, <1>2, <1>3, <1>4, <1>5, <1>6, <1>7, <1>8 DEF Next

\* The inductive invariant.  Everything the runs check of the booking service
\* follows from it.
THEOREM AlwaysCoherent == Spec => []Coherent
<1>1. Init => Coherent
  BY InitCoherent
<1>2. Coherent /\ [Next]_vars => Coherent'
  BY NextCoherent
<1>. QED
  BY <1>1, <1>2, PTL DEF Spec

\* Every variable keeps its type, and every operation and every payment request
\* is about a booking that exists, however operations overlap and locks expire.
THEOREM TypeCorrect == Spec => []TypeOK
<1>1. Coherent => TypeOK
  BY DEF Coherent
<1>. QED
  BY <1>1, AlwaysCoherent, PTL

\* withRedisLock lets one request per room into the handler until a lock expires under a
\* live one.
THEOREM OneHandlerPerRoom == Spec => []CreateLockExclusive
<1>1. Coherent => CreateLockExclusive
  <2>. SUFFICES ASSUME Coherent, spent.slow = 0, NEW r \in Requests, NEW q \in Requests,
                       create[r] \in Handler, create[q] \in Handler, Room[r] = Room[q]
                PROVE  r = q
    BY DEF CreateLockExclusive
  <2>1. InCritical(r) /\ InCritical(q)
    BY DEF InCritical, Handler, Critical
  <2>. QED
    BY <2>1, Exclusive, LockKeyFacts DEF Coherent
<1>. QED
  BY <1>1, AlwaysCoherent, PTL

\* A room lock never outlasts the booking it was taken for, except where a request of
\* its key is stranded: refused as a duplicate after it took the lock, or broken off.
\* It holds however creations, retries and overlapping operations interleave.
THEOREM RoomLocksAreReleased == Spec => []RoomLockReleased
<1>1. Coherent => RoomLockReleased
  BY DEF Coherent
<1>. QED
  BY <1>1, AlwaysCoherent, PTL

\* The status and the payment column agree through every cancellation, payment event and
\* mark call.  Where those of one booking overlap, the one disagreement is the
\* PROCESSING of a markPaymentProcessing that comes late; no interleaving leaves
\* SUCCESS, FAILED or REFUNDED on a booking of another status.
THEOREM ColumnsAgree == Spec => []PaymentAgrees
<1>1. Coherent => PaymentAgrees
  BY DEF Coherent
<1>. QED
  BY <1>1, AlwaysCoherent, PTL

\* When the bound allows no lock to expire under a live request, none does.
LEMMA NoLockIsSlow == ASSUME MaxSlow = 0 PROVE Spec => [](spent.slow = 0)
<1>1. Init => spent.slow = 0
  BY DEF Init
<1>2. TypeOK /\ spent.slow = 0 /\ [Next]_vars => (spent.slow = 0)'
  <2>. SUFFICES ASSUME TypeOK, spent.slow = 0, [Next]_vars PROVE spent'.slow = 0
    OBVIOUS
  <2>1. UNCHANGED spent \/ Spend("faults", MaxFaults)
    BY DEF Next, vars, Submit, ServeCreate, CreateLockExpires, RoomLockExpires, ServeOp, StartOp,
           Disturb, Spend
  <2>. QED
    BY <2>1 DEF Spend, TypeOK, SpentTypeOK
<1>. QED
  BY <1>1, <1>2, TypeCorrect, PTL DEF Spec

\* createBookingForUser never lets two standing bookings share a night in a room,
\* whatever fails on the way, when operations on one booking do not overlap and create
\* locks outlive their requests.
THEOREM RoomsAreBookedOnce ==
    ASSUME ~Interleave, MaxSlow = 0 PROVE Spec => []NoDoubleBooking
<1>1. Coherent /\ spent.slow = 0 => NoDoubleBooking
  BY DEF Coherent
<1>. QED
  BY <1>1, AlwaysCoherent, NoLockIsSlow, PTL

\* The same promise in nights: under the same conditions nobody else stands booked into a
\* room for a night of a standing booking.
THEOREM NightsAreSoldOnce ==
    ASSUME ~Interleave, MaxSlow = 0
    PROVE  Spec => [](\A b, c \in Requests : \A n \in Nat :
                        /\ Live(b) /\ Live(c) /\ Room[b] = Room[c]
                        /\ Night(b, n) /\ Night(c, n)
                        => b = c)
<1>1. NoDoubleBooking => \A b, c \in Requests : \A n \in Nat :
                            /\ Live(b) /\ Live(c) /\ Room[b] = Room[c]
                            /\ Night(b, n) /\ Night(c, n)
                            => b = c
  BY ClashIsACommonNight DEF NoDoubleBooking
<1>. QED
  BY <1>1, RoomsAreBookedOnce, PTL

-----------------------------------------------------------------------------
(***************************************************************************)
(* The service implements IdealBookings.                                   *)
(***************************************************************************)
LEMMA IdealStutter ==
    ASSUME \A b \in Requests : booking'[b].status = booking[b].status
    PROVE  UNCHANGED [b \in Requests |-> booking[b].status]
OBVIOUS

\* One booking changes its status.
LEMMA IdealBecome ==
    ASSUME NEW b \in Requests, NEW to, NEW from, booking[b].status \in from,
           booking'[b].status = to,
           \A c \in Requests : c # b => booking'[c] = booking[c]
    PROVE  Ideal!Become(b, from, to)
BY DEF Ideal!Become

LEMMA CreateImplements ==
    ASSUME ~Interleave, spent.slow = 0, Coherent, NEW r \in Requests, ServeCreate(r)
    PROVE  \/ Ideal!Reserve(r)
           \/ UNCHANGED [b \in Requests |-> booking[b].status]
<1>1. CASE InsertBooking(r) /\ ~KeyUsed(r)
  <2>1. UpdateBooking(r, "PENDING_PAYMENT", "PENDING") /\ create[r] = "insert"
    BY <1>1 DEF InsertBooking, Step
  <2>2. /\ booking'[r].status = "PENDING_PAYMENT"
        /\ \A c \in Requests : c # r => booking'[c] = booking[c]
    BY <2>1, UpdateEffect DEF Coherent, TypeOK
  <2>3. booking[r].status = "none"
    BY <2>1, DocumentFacts DEF Coherent, TypeOK, Fresh
  <2>4. \A c \in Requests : Live(c) => ~Clash(r, c)
    BY <2>1, LockKeyFacts DEF Coherent, NightsFree
  <2>5. Ideal!Become(r, {"none"}, "PENDING_PAYMENT")
    BY <2>2, <2>3, IdealBecome
  <2>. QED
    BY <2>4, <2>5 DEF Ideal!Reserve, Ideal!Stands, Live
<1>2. CASE ~(InsertBooking(r) /\ ~KeyUsed(r))
  <2>1. UNCHANGED booking
    BY <1>2 DEF ServeCreate, CreateStep, FindByKey, AcquireCreateLock, FetchRoom,
                CheckOverlap, TakeRoomLock, InsertBooking, ReadCreateLock,
                DropCreateLock, storeVars
  <2>. QED
    BY <2>1, IdealStutter
<1>. QED
  BY <1>1, <1>2

LEMMA OpImplements ==
    ASSUME ~Interleave, Coherent, NEW o \in Ops, ServeOp(o)
    PROVE  \/ \E b \in Requests : Ideal!Confirm(b) \/ Ideal!Fail(b) \/ Ideal!Cancel(b)
           \/ UNCHANGED [b \in Requests |-> booking[b].status]
<1>1. CASE CancelWrite(o) \/ SuccessWrite(o) \/ FailWrite(o) \/ ProcessWrite(o)
  <2>1. op[o].pc \in {"cancelWrite", "successWrite", "failWrite", "processWrite"}
    BY <1>1 DEF CancelWrite, SuccessWrite, FailWrite, ProcessWrite, Advance
  <2>2. PICK b \in Requests : OnBooking(o) = b
    BY <2>1, OpAlone
  <2>3. ReadHolds(o) /\ BookingTypeOK
    BY DEF Coherent, Serial, TypeOK
  <2>4. CASE CancelWrite(o)
    <3>1. Live(b) /\ \E p : UpdateBooking(b, "CANCELLED", p)
      BY <2>2, <2>3, <2>4 DEF CancelWrite, Advance, ReadHolds
    <3>2. Ideal!Become(b, {"PENDING_PAYMENT", "CONFIRMED"}, "CANCELLED")
      BY <2>3, <3>1, UpdateEffect, IdealBecome DEF Live
    <3>. QED
      BY <3>2 DEF Ideal!Cancel
  <2>5. CASE SuccessWrite(o)
    <3>1. Pending(b) /\ UpdateBooking(b, "CONFIRMED", "SUCCESS")
      BY <2>2, <2>3, <2>5 DEF SuccessWrite, Advance, ReadHolds
    <3>2. Ideal!Become(b, {"PENDING_PAYMENT"}, "CONFIRMED")
      BY <2>3, <3>1, UpdateEffect, IdealBecome DEF Pending
    <3>. QED
      BY <3>2 DEF Ideal!Confirm
  <2>6. CASE FailWrite(o)
    <3>1. Pending(b) /\ UpdateBooking(b, "FAILED", "FAILED")
      BY <2>2, <2>3, <2>6 DEF FailWrite, Advance, ReadHolds
    <3>2. Ideal!Become(b, {"PENDING_PAYMENT"}, "FAILED")
      BY <2>3, <3>1, UpdateEffect, IdealBecome DEF Pending
    <3>. QED
      BY <3>2 DEF Ideal!Fail
  <2>7. CASE ProcessWrite(o)
    <3>1. UpdateBooking(b, booking[b].status, "PROCESSING")
      BY <2>2, <2>7 DEF ProcessWrite
    <3>2. \A c \in Requests : booking'[c].status = booking[c].status
      BY <2>3, <3>1, UpdateEffect
    <3>. QED
      BY <3>2, IdealStutter
  <2>. QED
    BY <1>1, <2>4, <2>5, <2>6, <2>7
<1>2. CASE FailRead(o) \/ ProcessRead(o) \/ EmitBookingCreated(o) \/ ReleaseRoomLock(o)
  <2>1. UNCHANGED booking
    BY <1>2 DEF FailRead, ProcessRead, EmitBookingCreated, ReleaseRoomLock, storeVars
  <2>. QED
    BY <2>1, IdealStutter
<1>. QED
  BY <1>1, <1>2 DEF ServeOp, OpStep

LEMMA NextImplements ==
    ASSUME ~Interleave, spent.slow = 0, Coherent, [Next]_vars
    PROVE  [Ideal!Next]_[b \in Requests |-> booking[b].status]
<1>1. ASSUME NEW r \in Requests, ServeCreate(r)
      PROVE  Ideal!Next \/ UNCHANGED [b \in Requests |-> booking[b].status]
  BY <1>1, CreateImplements DEF Ideal!Next
<1>2. ASSUME NEW o \in Ops, ServeOp(o)
      PROVE  Ideal!Next \/ UNCHANGED [b \in Requests |-> booking[b].status]
  BY <1>2, OpImplements DEF Ideal!Next
<1>3. ASSUME NEW r \in Requests,
             Submit(r) \/ CreateLockExpires(r) \/ RoomLockExpires(r)
      PROVE  UNCHANGED booking
  BY <1>3 DEF Submit, Arrive, CreateLockExpires, RoomLockExpires, Expire, storeVars
<1>4. ASSUME NEW o \in Ops, NEW b \in Requests, StartOp(o, b)
      PROVE  UNCHANGED booking
  BY <1>4 DEF StartOp, BeginCancel, BeginProceed, BeginSuccess, BeginFailure, storeVars
<1>5. Disturb \/ UNCHANGED vars => UNCHANGED booking
  BY DEF Disturb, HandlerThrows, RequestDies, OpDies, EmitFails, storeVars, vars
<1>6. UNCHANGED booking => UNCHANGED [b \in Requests |-> booking[b].status]
  BY IdealStutter
<1>. QED
  BY <1>1, <1>2, <1>3, <1>4, <1>5, <1>6 DEF Next

\* Every step of the service reserves free nights, confirms, fails or cancels one
\* booking, or changes no status.
THEOREM Implements ==
    ASSUME ~Interleave, MaxSlow = 0 PROVE Spec => ImplementsIdealBookings
<1>1. Init => Ideal!Init
  <2>1. NoDocument.status = "none"
    BY DEF NoDocument, Document
  <2>. QED
    BY <2>1 DEF Init, BookingsInit, Ideal!Init
<1>2. Coherent /\ spent.slow = 0 /\ [Next]_vars => [Ideal!Next]_[b \in Requests |-> booking[b].status]
  BY NextImplements
<1>. QED
  BY <1>1, <1>2, AlwaysCoherent, NoLockIsSlow, PTL DEF Spec, ImplementsIdealBookings, Ideal!Spec
=============================================================================
