--------------------------- MODULE BookingService ---------------------------
(***************************************************************************)
(* The booking service: creation requests and the operations on existing   *)
(* bookings, over one collection and one Redis.                            *)
(***************************************************************************)
EXTENDS RoomBooking, BookingLifecycle

CONSTANTS
    Interleave,     \* FALSE: operations on one booking do not overlap
    MaxFaults,      \* bound: throwing calls and dying processes
    MaxSlow         \* bound: create locks that expire under a live request

ASSUME ServiceAssumption ==
    /\ Interleave \in BOOLEAN
    /\ {MaxFaults, MaxSlow} \subseteq Nat

VARIABLE spent      \* faults and expiries used up

vars == <<storeVars, create, lifecycleVars, spent>>

Init ==
    /\ BookingsInit /\ CreateInit /\ LifecycleInit
    /\ spent = [faults |-> 0, slow |-> 0]

MayTouch(b) == Interleave \/ \A o \in Ops : op[o].booking # b

Spend(what, limit) ==
    /\ spent[what] < limit
    /\ spent' = [spent EXCEPT ![what] = @ + 1]

Submit(r) == Arrive(r) /\ UNCHANGED <<lifecycleVars, spent>>

ServeCreate(r) == CreateStep(r) /\ UNCHANGED <<lifecycleVars, spent>>

ServeOp(o) == OpStep(o) /\ UNCHANGED <<create, spent>>

\* A user or moderator cancels, a guest proceeds to payment, and the wallet
\* service reports on a payment it was asked for, once or more often.
StartOp(o, b) ==
    /\ MayTouch(b)
    /\ \/ BeginCancel(o, b)
       \/ BeginProceed(o, b)
       \/ b \in asked /\ (BeginSuccess(o, b) \/ BeginFailure(o, b))
    /\ UNCHANGED <<create, spent>>

Disturb ==
    /\ Spend("faults", MaxFaults)
    /\ \/ \E r \in Requests : (HandlerThrows(r) \/ RequestDies(r)) /\ UNCHANGED lifecycleVars
       \/ \E o \in Ops : (OpDies(o) \/ EmitFails(o)) /\ UNCHANGED create

\* 10 s against calls without a timeout: the lock may go under a live request.
CreateLockExpires(r) ==
    /\ locks[CreateLock(r)] = r
    /\ IF InCritical(r) THEN Spend("slow", MaxSlow) ELSE UNCHANGED spent
    /\ Expire(CreateLock(r))
    /\ UNCHANGED lifecycleVars

\* 900 s: the request that took the lock is past its insert by then.
RoomLockExpires(r) ==
    /\ HoldsRoomLock(r)
    /\ \A q \in Requests : SameKey(q, r) => create[q] # "insert"
    /\ Expire(RoomLock(r))
    /\ UNCHANGED <<lifecycleVars, spent>>

Next ==
    \/ \E r \in Requests : \/ Submit(r) \/ ServeCreate(r)
                           \/ CreateLockExpires(r) \/ RoomLockExpires(r)
    \/ \E o \in Ops : ServeOp(o) \/ \E b \in Requests : StartOp(o, b)
    \/ Disturb

Spec == Init /\ [][Next]_vars

-----------------------------------------------------------------------------
Op == [pc : OpPoints, booking : Requests \cup {NoRequest}, seen : Payments \cup {"none"}]

LocksTypeOK == locks \in [Locks -> LockTokens \cup {NoRequest}] /\ stranded \subseteq Requests

BookingTypeOK == booking \in [Requests -> [status : Statuses, payment : Payments]
                                          \cup {NoDocument}]

CreateTypeOK == create \in [Requests -> CreatePoints]

OpTypeOK ==
    /\ op \in [Ops -> Op]
    /\ \A o \in Ops : op[o].pc # "idle" =>
            /\ OnBooking(o) \in Requests /\ Exists(OnBooking(o))
            /\ op[o].seen \in Payments

AskedTypeOK == asked \subseteq {b \in Requests : Exists(b)}

SpentTypeOK == spent \in [faults : Nat, slow : Nat]

\* Every variable has its type, and every operation and every payment request is
\* about a booking that exists.
TypeOK ==
    /\ LocksTypeOK /\ BookingTypeOK /\ CreateTypeOK
    /\ OpTypeOK /\ AskedTypeOK /\ SpentTypeOK

\* patterns-and-usage.md: "Prevents concurrent booking races".  Two bookings that
\* both stand never share a night in a room (createBookingForUser against
\* cancelBookingForUser, handlePaymentEvent and every other creation).
NoDoubleBooking ==
    \A b, c \in Requests : b # c /\ Live(b) /\ Live(c) => ~Clash(b, c)

\* withRedisLock admits one request per room to its handler, as long as no lock
\* has expired under a live one.
CreateLockExclusive ==
    spent.slow = 0 =>
        \A r, q \in Requests :
            create[r] \in Handler /\ create[q] \in Handler /\ Room[r] = Room[q] => r = q

\* The payments that go with a status.
Fits(status) ==
    CASE status = "PENDING_PAYMENT" -> {"PENDING", "PROCESSING"}
      [] status = "CONFIRMED" -> {"SUCCESS"}
      [] status = "FAILED" -> {"FAILED"}
      [] OTHER -> {"PENDING", "PROCESSING", "REFUNDED"}

Agrees(b) ==
    Exists(b) => \/ booking[b].payment \in Fits(booking[b].status)
                 \/ Interleave /\ booking[b].payment = "PROCESSING"

\* The two status columns agree: SUCCESS is the payment of a confirmed booking alone,
\* FAILED of a failed one, REFUNDED of one cancelled after it was paid.  Where
\* operations on one booking overlap, a markPaymentProcessing that read the booking
\* while it was pending can leave PROCESSING on any status, and that is all that the
\* unconditional writes of cancelBookingForUser, markPaymentProcessing,
\* handlePaymentEvent and markPaymentFailedBySystem can break.
PaymentAgrees == \A b \in Requests : Agrees(b)

\* Somebody will delete the room lock of request r, or needs it: r is about to
\* insert its booking, the booking is pending, or the operation that settled it has
\* its releaseRoomLock still to come.
Minds(r) ==
    \/ create[r] = "insert"
    \/ Pending(r)
    \/ \E o \in Ops : op[o].pc = "release" /\ OnBooking(o) = r

\* payment-flow.md, "Booking lock release": a room lock does not outlast the booking
\* it was taken for.  The lock names the user and the key, not the request, so a
\* booking and its retries share it: some request of the key minds the lock, or
\* is stranded, which takes an insert that was refused as a duplicate (a retry that
\* looked for its key before the first insert and took the lock again after the
\* booking was settled), an insert that threw, or a death.
RoomLockReleased ==
    \A r \in Requests :
        HoldsRoomLock(r) =>
            \E q \in Requests : SameKey(q, r) /\ (Minds(q) \/ q \in stranded)

-----------------------------------------------------------------------------
(***************************************************************************)
(* The inductive invariant behind the properties.  Some of it needs that   *)
(* operations on one booking do not overlap (~Interleave), some that no    *)
(* create lock has expired under its request (spent.slow = 0), and some    *)
(* neither.                                                                *)
(***************************************************************************)

\* Whoever is inside withRedisLock holds the lock of the room.
LockHeld == \A r \in Requests : InCritical(r) => locks[CreateLock(r)] = r

\* A request that has not come to its insert has created nothing.
Fresh ==
    \A r \in Requests : create[r] \notin {"get", "del", "done"} => ~Exists(r)

\* Behind the overlap check the nights stay free.
NightsFree ==
    \A r, b \in Requests :
        create[r] \in {"roomLock", "insert"} /\ Live(b) => ~Clash(b, r)

\* No two operations are on one booking.
OneOpEach ==
    \A o, p \in Ops : OnBooking(o) = OnBooking(p) => o = p \/ OnBooking(o) = NoRequest

\* What an operation read is still so when it writes.
ReadHolds(o) ==
    LET b == OnBooking(o)
        pc == op[o].pc
    IN  /\ pc \in {"successWrite", "failWrite", "processWrite"} => Pending(b)
        /\ pc = "cancelWrite" => Live(b) /\ op[o].seen = booking[b].payment

\* A cancellation has read the payment of a booking that was live.
LiveSeen ==
    \A o \in Ops : op[o].pc = "cancelWrite" => op[o].seen \in {"PENDING", "PROCESSING", "SUCCESS"}

Serial == OneOpEach /\ \A o \in Ops : ReadHolds(o)

Coherent ==
    /\ TypeOK /\ Fresh /\ RoomLockReleased /\ PaymentAgrees /\ LiveSeen
    /\ spent.slow = 0 => LockHeld
    /\ ~Interleave => Serial
    /\ ~Interleave /\ spent.slow = 0 => NightsFree /\ NoDoubleBooking

Ideal == INSTANCE IdealBookings WITH
    Bookings <- Requests,
    Clashes <- {p \in Requests \X Requests : Clash(p[1], p[2])},
    status <- [b \in Requests |-> booking[b].status]

\* The service implements IdealBookings: no booking is reserved over another,
\* none is revived, and every status change is one the documents name.
ImplementsIdealBookings == Ideal!Spec
=============================================================================
