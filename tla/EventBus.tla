------------------------------ MODULE EventBus ------------------------------
(***************************************************************************)
(* The topic exchange hotel.events of shared-utils (rabbit.js) with the    *)
(* queues of its three consumers.  A queue is a set: handlers are not      *)
(* awaited before the next message is delivered, so no order is kept, and  *)
(* equal messages waiting in one queue are not told apart.  A publish is   *)
(* not confirmed: a message that the broker never got is one that no       *)
(* handler finishes.                                                       *)
(***************************************************************************)
VARIABLES
    queue,      \* [Queues -> set of messages not delivered yet]
    lost        \* history: bookings with a message no handler has finished

busVars == <<queue, lost>>

Created(b) == [type |-> "BOOKING_CREATED", booking |-> b, reason |-> "none"]

Queues == {"wallet", "booking", "notification"}

\* Mutant of Bindings: the booking service hears of successes only.
BindingsMissKey ==
    [wallet |-> {"BOOKING_CREATED"},
     booking |-> {"PAYMENT_SUCCESS"},
     notification |-> {"PAYMENT_SUCCESS", "PAYMENT_FAILED"}]

\* Mutant of Bindings: the notification service hears of every event of the exchange.
BindingsTakeAll ==
    [wallet |-> {"BOOKING_CREATED"},
     booking |-> {"PAYMENT_SUCCESS", "PAYMENT_FAILED"},
     notification |-> {"BOOKING_CREATED", "PAYMENT_SUCCESS", "PAYMENT_FAILED"}]

\* The routing keys that each service binds its queue to.
Bindings ==
    [wallet |-> {"BOOKING_CREATED"},
     booking |-> {"PAYMENT_SUCCESS", "PAYMENT_FAILED"},
     notification |-> {"PAYMENT_SUCCESS", "PAYMENT_FAILED"}]

BusInit ==
    /\ queue = [q \in Queues |-> {}]
    /\ lost = {}

PublishEvent(e) ==
    queue' = [q \in Queues |-> IF e.type \in Bindings[q] THEN queue[q] \cup {e} ELSE queue[q]]

\* A message goes to a handler of its queue, and comes back if the consumer dies before its ack.
Take(q, e) == e \in queue[q] /\ queue' = [queue EXCEPT ![q] = @ \ {e}]

Requeue(q, e) == queue' = [queue EXCEPT ![q] = @ \cup {e}]

\* The handler has thrown: nack without requeue.
Nack(e) == lost' = lost \cup {e.booking}
=============================================================================
