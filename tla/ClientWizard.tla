---------------------------- MODULE ClientWizard ----------------------------
(***************************************************************************)
(* The booking wizard of the web client: choose, confirm, pay, and the     *)
(* popups at the end, over the booking and payment APIs.  Of the services  *)
(* it keeps the status of a booking, and the outcomes that the booking     *)
(* service may write to it, whatever the booking has become since its      *)
(* handler has read it.                                                    *)
(***************************************************************************)
EXTENDS ClientSession

VARIABLES
    booking,        \* [Bookings -> [status, owner]]
    outcomes,       \* [booking, to]: what handlers of the booking service may write, which
                    \* have read the booking as pending; they may be late, and repeated
    overwritten,    \* history: bookings whose outcome was written over another one
    flow,           \* bookingFlow, [step, booking]
    confirmedPopup, \* a booking or 0
    failedPopup,    \* [booking, settled] or NoPopup; settled: because the booking is
                    \* was read as FAILED or CANCELLED, not for an error, a 402 or a timeout
    abandoned       \* history: bookings the guest or an error has taken out of the wizard

wizardVars == <<booking, outcomes, overwritten, flow, confirmedPopup, failedPopup, abandoned>>

Bookings == 1..MaxBookings

Statuses == {"NONE", "PENDING_PAYMENT", "CONFIRMED", "FAILED", "CANCELLED"}

Idle == [step |-> "idle", booking |-> 0]

NoPopup == [booking |-> 0, settled |-> FALSE]

StatusIs(b, s) == b # 0 /\ booking[b].status = s

SetStatus(b, s) == booking' = [booking EXCEPT ![b].status = s]

Updates(b) == {[booking |-> b, to |-> "CONFIRMED"], [booking |-> b, to |-> "FAILED"]}

Mine(t) == Live(t) /\ task[t].booking # 0 /\ booking[task[t].booking].owner = Caller(t)

\* getBookingForUser and cancelBookingForUser admit moderators too.
Visible(t) == Mine(t) \/ (Live(t) /\ task[t].session.role \in InventoryRoles)

InFlow == {flow.booking} \ {0}

WizardInit ==
    /\ booking = [b \in Bookings |-> [status |-> "NONE", owner |-> Nobody]]
    /\ outcomes = {} /\ overwritten = {}
    /\ flow = Idle
    /\ confirmedPopup = 0 /\ failedPopup = NoPopup
    /\ abandoned = {}

-----------------------------------------------------------------------------
(***************************************************************************)
(* Choosing a room and confirming the booking.                             *)
(***************************************************************************)
StartBookingFlow ==
    /\ token # NoToken /\ ~loading
    /\ flow' = [step |-> "confirm", booking |-> 0]
    /\ abandoned' = abandoned \cup InFlow
    /\ UNCHANGED <<sessionVars, booking, outcomes, overwritten, confirmedPopup, failedPopup>>

CancelFlow ==
    /\ token # NoToken /\ flow.step = "confirm" /\ ~loading
    /\ flow' = Idle
    /\ UNCHANGED <<sessionVars, booking, outcomes, overwritten, confirmedPopup, failedPopup, abandoned>>

ConfirmBookingStep(t) ==
    /\ token # NoToken /\ flow.step = "confirm"
    /\ Click(t, "confirm", "create", 0)
    /\ UNCHANGED wizardVars

NextBooking(b) == StatusIs(b, "NONE") /\ \A c \in 1..(b - 1) : ~StatusIs(c, "NONE")

\* POST /api/bookings.
CreateBooking(t) ==
    /\ task[t].kind = "confirm" /\ task[t].pc = "create"
    /\ Live(t)
    /\ \E b \in Bookings :
          /\ NextBooking(b)
          /\ booking' = [booking EXCEPT ![b] = [status |-> "PENDING_PAYMENT", owner |-> Caller(t)]]
          /\ task' = [task EXCEPT ![t].pc = "confirm", ![t].booking = b]
    /\ UNCHANGED <<role, token, user, loading, strayed, unlocked>>
    /\ UNCHANGED <<outcomes, overwritten, flow, confirmedPopup, failedPopup, abandoned>>

\* Mutant of BookingConfirmed: the wizard moves on without the booking's id.
BookingConfirmedWithoutId(t) ==
    /\ task[t].kind = "confirm" /\ task[t].pc = "confirm"
    /\ Mine(t) /\ StatusIs(task[t].booking, "PENDING_PAYMENT")
    /\ flow' = [step |-> "payment", booking |-> 0]
    /\ abandoned' = abandoned \cup InFlow
    /\ Finish(t)
    /\ UNCHANGED <<role, token, user, strayed>>
    /\ UNCHANGED <<booking, outcomes, overwritten, confirmedPopup, failedPopup>>

\* POST /confirm, and the wizard goes on to the payment.
BookingConfirmed(t) ==
    /\ task[t].kind = "confirm" /\ task[t].pc = "confirm"
    /\ Mine(t) /\ StatusIs(task[t].booking, "PENDING_PAYMENT")
    /\ flow' = [step |-> "payment", booking |-> task[t].booking]
    /\ abandoned' = abandoned \cup InFlow
    /\ Finish(t)
    /\ UNCHANGED <<role, token, user, strayed>>
    /\ UNCHANGED <<booking, outcomes, overwritten, confirmedPopup, failedPopup>>

\* Any error resets the wizard, a booking that was created included.
ConfirmFails(t) ==
    /\ task[t].kind = "confirm"
    /\ flow' = Idle
    /\ abandoned' = abandoned \cup InFlow \cup ({task[t].booking} \ {0})
    /\ Finish(t)
    /\ UNCHANGED <<role, token, user, strayed>>
    /\ UNCHANGED <<booking, outcomes, overwritten, confirmedPopup, failedPopup>>

ConfirmRefused(t) ==
    /\ \/ ~Live(t)
       \/ task[t].pc = "confirm" /\ ~StatusIs(task[t].booking, "PENDING_PAYMENT")
       \/ task[t].pc = "create"    \* no such room, taken, or too many guests
    /\ ConfirmFails(t)

-----------------------------------------------------------------------------
(***************************************************************************)
(* Paying: proceed, poll, reload, popup.  The task is of kind "proceed"    *)
(* until the outcome is known, then of kind "paid" or "unpaid".            *)
(***************************************************************************)
\* Mutant of ProceedPaymentStep: the button does not look at loading.
ProceedAgain(t) ==
    /\ token # NoToken /\ flow.step = "payment"
    /\ loading' = TRUE
    /\ Begin(t, "proceed", "ask", flow.booking)
    /\ UNCHANGED <<role, token, user, strayed, unlocked>>
    /\ UNCHANGED wizardVars

ProceedPaymentStep(t) ==
    /\ token # NoToken /\ flow.step = "payment"
    /\ Click(t, "proceed", "ask", flow.booking)
    /\ UNCHANGED wizardVars

Asking(t) == task[t].kind = "proceed" /\ task[t].pc = "ask"

Polling(t) == task[t].kind = "proceed" /\ task[t].pc = "poll"

\* proceedBookingPayment answers 202, or 200 for a paid booking.
ProceedAccepted(t) ==
    /\ Asking(t) /\ Mine(t)
    /\ \/ StatusIs(task[t].booking, "PENDING_PAYMENT") /\ outcomes' = outcomes \cup Updates(task[t].booking)
       \/ StatusIs(task[t].booking, "CONFIRMED") /\ UNCHANGED outcomes
    /\ GoOn(t, "poll")
    /\ UNCHANGED <<role, token, user, loading, strayed, unlocked>>
    /\ UNCHANGED <<booking, overwritten, flow, confirmedPopup, failedPopup, abandoned>>

\* The outcome is known: loadPrivateData comes next.
Concludes(t, kind) ==
    /\ task' = [task EXCEPT ![t].kind = kind, ![t].pc = "profile", ![t].profile = Nobody]
    /\ UNCHANGED <<role, token, user, loading, strayed, unlocked>>

\* Mutant of ProceedFails: the wizard is reset as after a success.
ProceedFailsReset(t, settled) ==
    /\ failedPopup' = [booking |-> task[t].booking, settled |-> settled]
    /\ Concludes(t, "unpaid")
    /\ flow' = Idle
    /\ UNCHANGED <<overwritten, confirmedPopup, abandoned>>

\* The catch block: the popup; the wizard stays at its step.
ProceedFails(t, settled) ==
    /\ failedPopup' = [booking |-> task[t].booking, settled |-> settled]
    /\ Concludes(t, "unpaid")
    /\ UNCHANGED <<overwritten, flow, confirmedPopup, abandoned>>

\* 402, the wallet does not cover the booking, or the event could not be published:
\* the wallet service has the booking marked FAILED if it is still pending by then,
\* swallows the failure of that call, and answers the error.
ProceedUnpaid(t) ==
    /\ Asking(t) /\ Mine(t) /\ StatusIs(task[t].booking, "PENDING_PAYMENT")
    /\ \/ outcomes' = outcomes \cup {[booking |-> task[t].booking, to |-> "FAILED"]}
       \/ UNCHANGED outcomes
    /\ ProceedFails(t, FALSE)
    /\ UNCHANGED booking

\* 400 for a booking that is settled, be it since the wallet service has read it.
ProceedRefused(t) ==
    /\ Asking(t)
    /\ ~Mine(t) \/ booking[task[t].booking].status \in {"CONFIRMED", "FAILED", "CANCELLED"}
    /\ ProceedFails(t, FALSE)
    /\ UNCHANGED <<booking, outcomes>>

\* Mutant of Confirmed: any booking whose payment has been asked for.
PaymentAccepted(b) == booking[b].status \in {"PENDING_PAYMENT", "CONFIRMED"}

Confirmed(b) == StatusIs(b, "CONFIRMED")

\* waitForBookingConfirmation, the round that ends it: the twentieth has seen
\* PENDING_PAYMENT.
Poll(t) ==
    LET b == task[t].booking
    IN  /\ Polling(t) /\ Visible(t)
        /\ \/ /\ Confirmed(b)
              /\ Concludes(t, "paid")
              /\ UNCHANGED <<overwritten, flow, confirmedPopup, failedPopup, abandoned>>
           \/ booking[b].status \in {"FAILED", "CANCELLED"} /\ ProceedFails(t, TRUE)
        /\ UNCHANGED <<booking, outcomes>>

\* Mutant of PollsExhausted: the rounds have no limit.
PollsForever(t) == Polling(t) /\ FALSE /\ UNCHANGED <<sessionVars, wizardVars>>

PollsExhausted(t) ==
    /\ Polling(t) /\ Visible(t) /\ StatusIs(task[t].booking, "PENDING_PAYMENT")
    /\ ProceedFails(t, FALSE)
    /\ UNCHANGED <<booking, outcomes>>

PollRefused(t) ==
    /\ Polling(t) /\ ~Visible(t)
    /\ ProceedFails(t, FALSE)
    /\ UNCHANGED <<booking, outcomes>>

\* The page is loaded again: the confirmation is shown, and the wizard is reset
\* whatever booking it has come to.
PaidLoads(t) ==
    /\ task[t].kind = "paid"
    /\ Loads(t)
    /\ confirmedPopup' = task[t].booking
    /\ flow' = Idle
    /\ abandoned' = abandoned \cup (InFlow \ {task[t].booking})
    /\ Finish(t)
    /\ UNCHANGED <<role, token, booking, outcomes, overwritten, failedPopup>>

\* The catch block covers that load too.
PaidLoadRefused(t) ==
    /\ task[t].kind = "paid"
    /\ LoadForbidden(t) \/ LoadUnauthorized(t)
    /\ ProceedFails(t, FALSE)
    /\ UNCHANGED <<booking, outcomes>>

\* The load of the catch block, and that of cancelBooking.
UnpaidLoads(t) ==
    /\ task[t].kind \in {"unpaid", "cancel"}
    /\ \/ Loads(t)
       \/ (LoadForbidden(t) \/ LoadUnauthorized(t)) /\ UNCHANGED <<user, strayed>>
    /\ Finish(t)
    /\ UNCHANGED <<role, token, wizardVars>>

-----------------------------------------------------------------------------
(***************************************************************************)
(* Cancelling, from the bookings page or from the popup of a failure.      *)
(***************************************************************************)
\* The status in the list may be an old one.
CancelBooking(t) ==
    /\ token # NoToken
    /\ \E b \in Bookings :
          /\ booking[b].status # "NONE"
          /\ booking[b].owner = token.user
          /\ Click(t, "cancel", "cancel", b)
    /\ UNCHANGED wizardVars

\* "Cancel Booking" of the popup looks at no flag and sets none.
PopupCancel(t) ==
    /\ failedPopup # NoPopup
    /\ Begin(t, "popupCancel", "cancel", failedPopup.booking)
    /\ failedPopup' = NoPopup
    /\ UNCHANGED <<role, token, user, loading, strayed, unlocked>>
    /\ UNCHANGED <<booking, outcomes, overwritten, flow, confirmedPopup, abandoned>>

\* cancelBookingForUser has read the booking; a cancelled one is answered as it is.
CancelDecided(t) ==
    LET b == task[t].booking
    IN  /\ task[t].pc = "cancel" /\ Visible(t)
        /\ \/ booking[b].status \in {"PENDING_PAYMENT", "CONFIRMED"} /\ GoOn(t, "cancelling")
           \/ StatusIs(b, "CANCELLED") /\ GoOn(t, "profile")
        /\ UNCHANGED <<role, token, user, loading, strayed, unlocked, wizardVars>>

\* Its update, by id alone too, and the answer.
Cancelled(t) ==
    /\ task[t].pc = "cancelling"
    /\ SetStatus(task[t].booking, "CANCELLED")
    /\ GoOn(t, "profile")
    /\ UNCHANGED <<role, token, user, loading, strayed, unlocked>>
    /\ UNCHANGED <<outcomes, overwritten, flow, confirmedPopup, failedPopup, abandoned>>

CancelRefused(t) ==
    /\ task[t].pc = "cancel"
    /\ ~Visible(t) \/ StatusIs(task[t].booking, "FAILED")
    /\ Finish(t)
    /\ UNCHANGED <<role, token, user, strayed, wizardVars>>

\* The popup's handler loads, then resets the wizard.
PopupCancelLoads(t) ==
    /\ task[t].kind = "popupCancel"
    /\ \/ /\ Loads(t)
          /\ flow' = Idle
          /\ abandoned' = abandoned \cup InFlow
       \/ (LoadForbidden(t) \/ LoadUnauthorized(t)) /\ UNCHANGED <<user, strayed, flow, abandoned>>
    /\ Finish(t)
    /\ UNCHANGED <<role, token, booking, outcomes, overwritten, confirmedPopup, failedPopup>>

CloseConfirmed ==
    /\ confirmedPopup # 0
    /\ confirmedPopup' = 0
    /\ UNCHANGED <<sessionVars, booking, outcomes, overwritten, flow, failedPopup, abandoned>>

TopUpInstead ==
    /\ failedPopup # NoPopup
    /\ failedPopup' = NoPopup
    /\ UNCHANGED <<sessionVars, booking, outcomes, overwritten, flow, confirmedPopup, abandoned>>

TryAgain ==
    /\ failedPopup # NoPopup
    /\ failedPopup' = NoPopup
    /\ flow' = Idle
    /\ abandoned' = abandoned \cup InFlow
    /\ UNCHANGED <<sessionVars, booking, outcomes, overwritten, confirmedPopup>>

WizardStep(t) ==
    \/ CreateBooking(t) \/ BookingConfirmed(t) \/ ConfirmRefused(t)
    \/ ProceedAccepted(t) \/ ProceedUnpaid(t) \/ ProceedRefused(t)
    \/ Poll(t) \/ PollsExhausted(t) \/ PollRefused(t)
    \/ PaidLoads(t) \/ PaidLoadRefused(t) \/ UnpaidLoads(t)
    \/ CancelDecided(t) \/ Cancelled(t) \/ CancelRefused(t) \/ PopupCancelLoads(t)

WizardClick(t) == ConfirmBookingStep(t) \/ ProceedPaymentStep(t) \/ CancelBooking(t)

PopupButton ==
    \/ CloseConfirmed \/ TopUpInstead \/ TryAgain
    \/ \E t \in Tasks : PopupCancel(t)
=============================================================================
