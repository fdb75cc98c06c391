---------------------------- MODULE WalletTopUp ----------------------------
(***************************************************************************)
(* POST /wallet/top-up: topUpWallet in wallet.service.js.  A request is    *)
(* one HTTP call; two requests with one idempotency key are a retry of the *)
(* same top-up (a client that timed out, a double click, a proxy).         *)
(***************************************************************************)
EXTENDS WalletStore

CONSTANTS
    TopUps,         \* requests
    TopUpUser,      \* [TopUps -> Users]
    TopUpKey,       \* [TopUps -> Keys]: payload.idempotencyKey
    TopUpAmount,    \* [TopUps -> Nat \ {0}]
    Keys            \* idempotency keys, disjoint from the bookings' keys

\* A retry repeats the payload: one key, one user, one amount.
ASSUME TopUpAssumption ==
    /\ TopUpUser \in [TopUps -> Users]
    /\ TopUpKey \in [TopUps -> Keys]
    /\ TopUpAmount \in [TopUps -> Nat \ {0}]
    /\ \A r, q \in TopUps : TopUpKey[r] = TopUpKey[q] =>
            TopUpUser[r] = TopUpUser[q] /\ TopUpAmount[r] = TopUpAmount[q]

VARIABLES
    request,    \* [TopUps -> [pc, copy]]: control point and the wallet read
    credited    \* history: how often the top-up of a key raised a balance

topUpVars == <<request, credited>>

RequestPoints == {"new", "find", "read", "save", "record", "created", "replayed", "error"}

InFlight == {"find", "read", "save", "record"}

TopUpInit ==
    /\ request = [r \in TopUps |-> [pc |-> "new", copy |-> 0]]
    /\ credited = [k \in Keys |-> 0]

Proceed(r, point) == request' = [request EXCEPT ![r].pc = point, ![r].copy = 0]

Arrive(r) ==
    /\ request[r].pc = "new"
    /\ Proceed(r, "find")
    /\ UNCHANGED <<credited, storeVars>>

\* A transaction with this key answers 200; otherwise the wallet is topped up.
FindExisting(r) ==
    /\ request[r].pc = "find"
    /\ Proceed(r, IF Recorded("TOP_UP", TopUpKey[r]) THEN "replayed" ELSE "read")
    /\ UNCHANGED <<credited, storeVars>>

ReadWallet(r) ==
    /\ request[r].pc = "read"
    /\ request' = [request EXCEPT ![r] = [pc |-> "save", copy |-> balance[TopUpUser[r]]]]
    /\ UNCHANGED <<credited, storeVars>>

SaveTopUp(r) ==
    /\ request[r].pc = "save"
    /\ SaveWallet(TopUpUser[r], request[r].copy, TopUpAmount[r])
    /\ credited' = [credited EXCEPT ![TopUpKey[r]] = @ + 1]
    /\ Proceed(r, "record")
    /\ UNCHANGED transactions

\* createTransaction; the duplicate-key error is not caught here and answers 500.
RecordTopUp(r) ==
    LET key == TopUpKey[r]
    IN  /\ request[r].pc = "record"
        /\ CreateTransaction("TOP_UP", key, TopUpUser[r], TopUpAmount[r])
        /\ Proceed(r, IF Recorded("TOP_UP", key) THEN "error" ELSE "created")
        /\ UNCHANGED <<credited, balance>>

\* An awaited call fails, or the process dies: the client sees an error.
TopUpFails(r) ==
    /\ request[r].pc \in InFlight
    /\ Proceed(r, "error")
    /\ UNCHANGED <<credited, storeVars>>

TopUpStep(r) ==
    FindExisting(r) \/ ReadWallet(r) \/ SaveTopUp(r) \/ RecordTopUp(r)
=============================================================================
