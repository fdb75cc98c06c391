----------------------------- MODULE RedisLock -----------------------------
(***************************************************************************)
(* The Redis commands behind both locks of the booking service: the one    *)
(* withRedisLock takes around a handler (shared-utils/src/redis.js) and    *)
(* the room lock that outlives the request (booking.service.js).  A key    *)
(* holds a token or nothing; each operator is one command, atomic in Redis.*)
(***************************************************************************)
CONSTANTS
    LockKeys,   \* the keys in use
    Tokens,     \* the values stored under them
    NoToken     \* what a key without a value reads as, not a token

VARIABLE locks  \* [LockKeys -> Tokens \cup {NoToken}]

LocksInit == locks = [k \in LockKeys |-> NoToken]

Taken(key) == locks[key] # NoToken

\* SET key token PX|EX ttl NX, when it succeeds.
SetIfAbsent(key, token) ==
    /\ ~Taken(key)
    /\ locks' = [locks EXCEPT ![key] = token]

\* DEL key: whatever is stored there goes, its owner is not compared.
Delete(key) == locks' = [locks EXCEPT ![key] = NoToken]
=============================================================================
