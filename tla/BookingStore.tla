---------------------------- MODULE BookingStore ----------------------------
(***************************************************************************)
(* The bookings collection (booking.model.js, booking.repository.js) and   *)
(* the two Redis locks that belong to a booking.  A booking is named by    *)
(* the POST /api/bookings request that would create it, so the fields that *)
(* never change (room, dates, key) are constants of the request.           *)
(***************************************************************************)
EXTENDS Naturals

CONSTANTS
    Requests,       \* booking requests, and the bookings they create
    NoRequest,      \* no request
    Rooms,
    Room,           \* [Requests -> Rooms]
    CheckIn,        \* [Requests -> Nat]: payload.checkInDate, in days
    CheckOut,       \* [Requests -> Nat]: payload.checkOutDate
    Key             \* [Requests -> idempotency keys]: a retry repeats the key

\* createBookingForUser rejects nights <= 0 before it does anything, and a retry
\* repeats the whole payload.
ASSUME RequestAssumption ==
    /\ NoRequest \notin Requests
    /\ \A r \in Requests : Key[r] # NoRequest
    /\ Room \in [Requests -> Rooms]
    /\ CheckIn \in [Requests -> Nat]
    /\ CheckOut \in [Requests -> Nat]
    /\ DOMAIN Key = Requests
    /\ \A r \in Requests : CheckIn[r] < CheckOut[r]
    /\ \A r, q \in Requests : Key[r] = Key[q] =>
            Room[r] = Room[q] /\ CheckIn[r] = CheckIn[q] /\ CheckOut[r] = CheckOut[q]

\* `lock:booking:create:<room>` and `room:lock:<room>:<from>:<to>`.
CreateLock(r) == <<"create", Room[r]>>
RoomLock(r) == <<"room", Room[r], CheckIn[r], CheckOut[r]>>

Locks == {CreateLock(r) : r \in Requests} \cup {RoomLock(r) : r \in Requests}

\* withRedisLock stores a token of its own for each call, createBookingForUser
\* the user and the idempotency key, which a retry shares with the first request.
LockTokens == Requests \cup {Key[r] : r \in Requests}

VARIABLES
    locks,      \* both locks, in Redis
    booking,    \* [Requests -> [status, payment]]: the collection
    stranded    \* history: requests that left their room lock to its TTL

INSTANCE RedisLock WITH LockKeys <- Locks, Tokens <- LockTokens, NoToken <- NoRequest

storeVars == <<locks, booking, stranded>>

Statuses == {"PENDING_PAYMENT", "CONFIRMED", "FAILED", "CANCELLED"}

Payments == {"PENDING", "PROCESSING", "SUCCESS", "FAILED", "REFUNDED"}

Document(status, payment) == [status |-> status, payment |-> payment]

\* The request has created no booking.
NoDocument == Document("none", "none")

Exists(b) == booking[b] # NoDocument

Live(b) == booking[b].status \in {"PENDING_PAYMENT", "CONFIRMED"}

\* Two half-open stays in one room share a night.
Clash(b, c) ==
    /\ Room[b] = Room[c]
    /\ CheckIn[b] < CheckOut[c]
    /\ CheckIn[c] < CheckOut[b]

\* Mutant of HasOverlap: only confirmed bookings occupy a room.
HasOverlapConfirmed(r) ==
    \E b \in Requests : booking[b].status = "CONFIRMED" /\ Clash(b, r)

\* hasBookingOverlap.
HasOverlap(r) == \E b \in Requests : Live(b) /\ Clash(b, r)

SameKey(b, c) == Key[b] = Key[c]

\* findBookingByIdempotencyKey, and the unique index on idempotencyKey.
KeyUsed(r) == \E b \in Requests : Exists(b) /\ SameKey(b, r)

\* findByIdAndUpdate: an unconditional $set of what the caller computed.
UpdateBooking(b, status, payment) ==
    booking' = [booking EXCEPT ![b] = Document(status, payment)]

\* The room lock of request r, if it is held, is left to its TTL.
Strand(r) == stranded' = stranded \cup {r}

HoldsRoomLock(r) == locks[RoomLock(r)] = Key[r]

BookingsInit ==
    /\ LocksInit
    /\ stranded = {}
    /\ booking = [r \in Requests |-> NoDocument]
=============================================================================
