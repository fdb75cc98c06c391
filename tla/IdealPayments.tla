--------------------------- MODULE IdealPayments ---------------------------
(***************************************************************************)
(* What the payment worker promises about one booking when nothing fails   *)
(* (payment-flow.md, "Flow Summary" 5 and "Idempotency and Safety"): the   *)
(* guest is charged once, what was charged reaches the owner, and the      *)
(* reports agree with what happened.                                       *)
(***************************************************************************)
CONSTANT Bookings

VARIABLES
    phase,      \* [Bookings -> {"unpaid", "charged", "paid"}]
    paid,       \* bookings reported paid
    refused     \* bookings reported unpayable

idealVars == <<phase, paid, refused>>

Init ==
    /\ phase = [b \in Bookings |-> "unpaid"]
    /\ paid = {}
    /\ refused = {}

Charge(b) ==
    /\ phase[b] = "unpaid"
    /\ phase' = [phase EXCEPT ![b] = "charged"]
    /\ UNCHANGED <<paid, refused>>

Pay(b) ==
    /\ phase[b] = "charged"
    /\ phase' = [phase EXCEPT ![b] = "paid"]
    /\ UNCHANGED <<paid, refused>>

ReportPaid(b) ==
    /\ phase[b] = "paid"
    /\ paid' = paid \cup {b}
    /\ UNCHANGED <<phase, refused>>

\* Only a booking nobody was charged for may be reported unpayable.
Refuse(b) ==
    /\ phase[b] = "unpaid"
    /\ refused' = refused \cup {b}
    /\ UNCHANGED <<phase, paid>>

Next == \E b \in Bookings : Charge(b) \/ Pay(b) \/ ReportPaid(b) \/ Refuse(b)

Spec == Init /\ [][Next]_idealVars

\* Money that left the guest arrives and is reported.
Fairness == \A b \in Bookings : WF_idealVars(Pay(b)) /\ WF_idealVars(ReportPaid(b))

FairSpec == Spec /\ Fairness
=============================================================================
