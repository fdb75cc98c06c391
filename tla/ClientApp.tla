------------------------------ MODULE ClientApp ------------------------------
(***************************************************************************)
(* The web client as a whole: the session, the booking wizard, and what    *)
(* goes on around the page.  The services settle payments; an operator     *)
(* changes a role, a token expires, a request or its answer is lost, the   *)
(* page is reloaded.                                                       *)
(***************************************************************************)
EXTENDS ClientWizard

CONSTANTS
    NewRoles,   \* roles an operator gives
    MaxEvents   \* bound: role changes, expiries, lost requests, reloads, outcomes written
                \* over others, and edits of the inventory behind a running handler

ASSUME RolesAssumption == NewRoles \subseteq Roles

VARIABLE events

vars == <<sessionVars, wizardVars, events>>

Init == SessionInit /\ WizardInit /\ events = 0

-----------------------------------------------------------------------------
(***************************************************************************)
(* The services and the network, as the client meets them.                 *)
(***************************************************************************)
Event == events < MaxEvents /\ events' = events + 1

\* The update of handlePaymentEvent or markPaymentFailedBySystem: by id alone, whatever
\* the booking has become since it was read.
SettlePayment(e) ==
    /\ SetStatus(e.booking, e.to)
    /\ IF booking[e.booking].status \in {"PENDING_PAYMENT", e.to}
       THEN UNCHANGED <<overwritten, events>>
       ELSE Event /\ overwritten' = overwritten \cup {e.booking}
    /\ UNCHANGED <<sessionVars, outcomes, flow, confirmedPopup, failedPopup, abandoned>>

ChangeRole(g, r) ==
    /\ Event
    /\ role[g] # r /\ role' = [role EXCEPT ![g] = r]
    /\ UNCHANGED <<token, user, loading, task, strayed, unlocked, wizardVars>>

ExpireToken(s) ==
    /\ Event
    /\ s.live
    /\ token' = IF token = s THEN [s EXCEPT !.live = FALSE] ELSE token
    /\ task' = [t \in Tasks |-> IF task[t].session = s THEN [task[t] EXCEPT !.session.live = FALSE] ELSE task[t]]
    /\ UNCHANGED <<role, user, loading, strayed, unlocked, wizardVars>>

\* The request of a handler is lost.
Unreachable(t) ==
    /\ Event
    /\ \/ /\ task[t].kind \in {"auth", "load", "save", "topUp", "unpaid", "cancel", "popupCancel"}
          /\ Finish(t)
          /\ UNCHANGED <<role, token, user, strayed, wizardVars>>
       \/ ConfirmFails(t)
       \/ task[t].kind \in {"proceed", "paid"} /\ ProceedFails(t, FALSE) /\ UNCHANGED <<booking, outcomes>>

\* The answer to the POST of a booking or of its payment is lost.
AnswerLost(t) ==
    /\ Event
    /\ \/ /\ task[t].kind = "confirm" /\ task[t].pc = "create" /\ Live(t)
          /\ \E b \in Bookings :
                /\ NextBooking(b)
                /\ booking' = [booking EXCEPT ![b] = [status |-> "PENDING_PAYMENT", owner |-> Caller(t)]]
                /\ abandoned' = abandoned \cup InFlow \cup {b}
          /\ flow' = Idle
          /\ Finish(t)
          /\ UNCHANGED <<role, token, user, strayed, outcomes, overwritten, confirmedPopup, failedPopup>>
       \/ /\ Asking(t) /\ Mine(t) /\ StatusIs(task[t].booking, "PENDING_PAYMENT")
          /\ outcomes' = outcomes \cup Updates(task[t].booking)
          /\ failedPopup' = [booking |-> task[t].booking, settled |-> FALSE]
          /\ Concludes(t, "unpaid")
          /\ UNCHANGED <<booking, overwritten, flow, confirmedPopup, abandoned>>

\* The page starts again from localStorage; its handlers are gone.
ReloadPage ==
    /\ Event
    /\ task' = [t \in Tasks |-> IF t = 1 /\ token # NoToken
                                THEN [NoTask EXCEPT !.kind = "load", !.pc = "profile", !.session = token]
                                ELSE NoTask]
    /\ loading' = FALSE /\ unlocked' = FALSE
    /\ flow' = Idle /\ confirmedPopup' = 0 /\ failedPopup' = NoPopup
    /\ abandoned' = abandoned \cup InFlow \cup ({task[t].booking : t \in Tasks} \ {0})
    /\ UNCHANGED <<role, token, user, strayed, booking, outcomes, overwritten>>

EditBehind(t) == Event /\ ManageInventory(t) /\ UNCHANGED wizardVars

-----------------------------------------------------------------------------
HandlerStep(t) ==
    \/ task[t].kind \in SessionKinds /\ SessionStep(t) /\ UNCHANGED wizardVars
    \/ task[t].kind \in WizardKinds /\ WizardStep(t)
    \/ LoadProfile(t) /\ UNCHANGED wizardVars

\* A popup's backdrop covers the page.
Press ==
    \/ /\ confirmedPopup = 0 /\ failedPopup = NoPopup
       /\ \/ Logout /\ UNCHANGED wizardVars
          \/ StartBookingFlow \/ CancelFlow
          \/ \E t \in Tasks : (SessionClick(t) /\ UNCHANGED wizardVars) \/ WizardClick(t)
    \/ PopupButton

Next ==
    \/ (Press \/ \E t \in Tasks : HandlerStep(t)) /\ UNCHANGED events
    \/ \E e \in outcomes : SettlePayment(e)
    \/ \E g \in Guests, r \in NewRoles : ChangeRole(g, r)
    \/ \E s \in {token} \cup {task[t].session : t \in Tasks} : ExpireToken(s)
    \/ \E t \in Tasks : Unreachable(t) \/ AnswerLost(t)
    \/ ReloadPage
    \/ \E t \in Tasks : EditBehind(t)

\* A request is answered or fails: fetch settles its promise.
Fairness == \A t \in Tasks : WF_vars(HandlerStep(t) /\ UNCHANGED events)

Spec == Init /\ [][Next]_vars /\ Fairness

-----------------------------------------------------------------------------
Tokens == {NoToken} \cup [user : Guests, role : Roles, live : BOOLEAN]

Kinds == {"none"} \cup SessionKinds \cup WizardKinds

Awaits == {"idle", "sent", "profile", "bookings", "create", "confirm", "ask", "poll", "cancel",
           "cancelling"}

\* The state of the page, its handlers and the histories.
TypeOK ==
    /\ role \in [Guests -> Roles]
    /\ token \in Tokens
    /\ user \in {Nobody} \cup Profiles
    /\ loading \in BOOLEAN /\ strayed \in BOOLEAN /\ unlocked \in BOOLEAN
    /\ task \in [Tasks -> [kind : Kinds, pc : Awaits, session : Tokens,
                            booking : 0..MaxBookings, profile : {Nobody} \cup Profiles]]
    /\ booking \in [Bookings -> [status : Statuses, owner : Guests \cup {Nobody}]]
    /\ outcomes \subseteq [booking : Bookings, to : {"CONFIRMED", "FAILED"}]
    /\ overwritten \subseteq Bookings /\ abandoned \subseteq Bookings
    /\ flow \in [step : {"idle", "confirm", "payment"}, booking : 0..MaxBookings]
    /\ (flow.booking # 0) = (flow.step = "payment")
    /\ confirmedPopup \in 0..MaxBookings
    /\ failedPopup \in [booking : 0..MaxBookings, settled : BOOLEAN]
    /\ (failedPopup.booking = 0) = (failedPopup = NoPopup)

\* The user on the page is the account its token was issued to, whatever logins,
\* logouts and late answers came before; the one excuse is a handler of an earlier
\* session that finished after it and called setUser (loadPrivateData, saveProfile).
ShownUserIsSignedIn ==
    user # Nobody /\ ~strayed => token # NoToken /\ user.id = token.user

\* loadBookingsForRole asks the API of the role just read from the services, so
\* the gateway refuses it only when that role differs from the one in the token.
ForbiddenOnlyAfterRoleChange ==
    \A t \in Tasks :
        LoadForbidden(t) => task[t].profile.role # task[t].session.role

\* While a popup is open the booking has the status it was opened for, or is
\* cancelled since, though other handlers, late events and other calls go on: a
\* confirmation is shown for a confirmed booking, a failure that waitForBookingConfirmation
\* has read for a failed one.  The one excuse is a booking whose outcome was written
\* over another one by a handler of the booking service that had read it before.  Of
\* the guest's money the popups, and this property, say nothing: the 402 of a second
\* call may come after the debit of the first.
PopupsAreTrue ==
    /\ confirmedPopup \notin {0} \cup overwritten =>
          booking[confirmedPopup].status \in {"CONFIRMED", "CANCELLED"}
    /\ failedPopup.settled /\ failedPopup.booking \notin overwritten =>
          booking[failedPopup.booking].status \in {"FAILED", "CANCELLED"}

\* The loading flag keeps two handlers of disabled buttons apart, so a booking is
\* not paid or confirmed twice at once; the excuse is another handler's finally
\* block that cleared the flag under a running one.
OneGuardedHandler ==
    unlocked \/ Cardinality(Working(LoadingKinds \ {"inventory"})) <= 1

\* Every unpaid booking of this page can still be paid from its wizard, or is in a
\* handler that will put it there, unless the guest left it or an error reset it:
\* a failed payment keeps the wizard at its step.
WizardKeepsItsBooking ==
    \A b \in Bookings :
        StatusIs(b, "PENDING_PAYMENT") =>
            \/ b \in abandoned
            \/ flow.booking = b
            \/ \E t \in Working({"confirm"}) : task[t].booking = b

\* The buttons come back: every handler ends and clears the flag, since requests
\* are answered or fail and waitForBookingConfirmation counts its rounds.
LoadingEnds == loading ~> ~loading
=============================================================================
