----------------------------- MODULE RoomBooking -----------------------------
(***************************************************************************)
(* POST /api/bookings: createBookingForUser, one step per await.  The      *)
(* section from the fetch of the room to the insert runs inside            *)
(* withRedisLock on `lock:booking:create:<room>`; the room lock taken in   *)
(* it stays behind for the payment window.                                 *)
(***************************************************************************)
EXTENDS BookingStore

VARIABLE create     \* [Requests -> CreatePoints]

CreatePoints == {"new", "find", "acquire", "fetch", "overlap", "roomLock", "insert",
                 "get", "del", "done"}

\* Inside withRedisLock, its finally block included.
Critical == {"fetch", "overlap", "roomLock", "insert", "get", "del"}

\* The handler's part of it.
Handler == {"fetch", "overlap", "roomLock", "insert"}

CreateInit == create = [r \in Requests |-> "new"]

InCritical(r) == create[r] \in Critical

Step(r, from, to) == create[r] = from /\ create' = [create EXCEPT ![r] = to]

Arrive(r) == Step(r, "new", "find") /\ UNCHANGED storeVars

\* An existing booking with the key is returned with 200.
FindByKey(r) ==
    /\ Step(r, "find", IF KeyUsed(r) THEN "done" ELSE "acquire")
    /\ UNCHANGED storeVars

\* Mutant of AcquireCreateLock: the result of SET NX is not looked at.
AcquireCreateLockBlindly(r) ==
    /\ Step(r, "acquire", "fetch")
    /\ locks' = [locks EXCEPT ![CreateLock(r)] = r]
    /\ UNCHANGED <<booking, stranded>>

\* SET NX PX 10000; when somebody holds the lock the answer is BOOKING_LOCKED.
AcquireCreateLock(r) ==
    /\ \/ /\ SetIfAbsent(CreateLock(r), r)
          /\ Step(r, "acquire", "fetch")
       \/ /\ Taken(CreateLock(r))
          /\ Step(r, "acquire", "done")
          /\ UNCHANGED locks
    /\ UNCHANGED <<booking, stranded>>

\* fetchRoom and the capacity check; the hotel service may have no such room.
FetchRoom(r) ==
    /\ \E to \in {"overlap", "get"} : Step(r, "fetch", to)
    /\ UNCHANGED storeVars

CheckOverlap(r) ==
    /\ Step(r, "overlap", IF HasOverlap(r) THEN "get" ELSE "roomLock")
    /\ UNCHANGED storeVars

\* SET `<user>:<idempotencyKey>` NX EX roomLockSeconds; otherwise ROOM_TEMP_LOCKED.
TakeRoomLock(r) ==
    /\ \/ /\ SetIfAbsent(RoomLock(r), Key[r])
          /\ Step(r, "roomLock", "insert")
          /\ stranded' = {q \in stranded : ~SameKey(q, r)}
       \/ /\ Taken(RoomLock(r))
          /\ Step(r, "roomLock", "get")
          /\ UNCHANGED <<locks, stranded>>
    /\ UNCHANGED booking

\* Booking.create.  A duplicate key throws and leaves the room lock behind.
InsertBooking(r) ==
    /\ Step(r, "insert", "get")
    /\ IF KeyUsed(r)
       THEN Strand(r) /\ UNCHANGED booking
       ELSE UpdateBooking(r, "PENDING_PAYMENT", "PENDING") /\ UNCHANGED stranded
    /\ UNCHANGED locks

\* The finally block: GET, then DEL when the token read was one's own.
ReadCreateLock(r) ==
    /\ Step(r, "get", IF locks[CreateLock(r)] = r THEN "del" ELSE "done")
    /\ UNCHANGED storeVars

DropCreateLock(r) ==
    /\ Step(r, "del", "done")
    /\ Delete(CreateLock(r))
    /\ UNCHANGED <<booking, stranded>>

-----------------------------------------------------------------------------
\* A request that ends before its insert leaves the room lock it has taken.
LeaveRoomLock(r) == IF create[r] = "insert" THEN Strand(r) ELSE UNCHANGED stranded

\* An awaited call inside the handler throws, and finally still runs.  An insert
\* whose acknowledgement is lost is InsertBooking: the next step is the same.
HandlerThrows(r) ==
    /\ create[r] \in Handler
    /\ create' = [create EXCEPT ![r] = "get"]
    /\ LeaveRoomLock(r)
    /\ UNCHANGED <<locks, booking>>

\* The process dies, or Redis fails in the finally block: nothing is released.
RequestDies(r) ==
    /\ create[r] \notin {"new", "done"}
    /\ create' = [create EXCEPT ![r] = "done"]
    /\ LeaveRoomLock(r)
    /\ UNCHANGED <<locks, booking>>

\* The TTL of a key runs out.
Expire(key) == Taken(key) /\ Delete(key) /\ UNCHANGED <<booking, stranded, create>>

CreateStep(r) ==
    \/ FindByKey(r) \/ AcquireCreateLock(r) \/ FetchRoom(r) \/ CheckOverlap(r)
    \/ TakeRoomLock(r) \/ InsertBooking(r) \/ ReadCreateLock(r) \/ DropCreateLock(r)
=============================================================================
