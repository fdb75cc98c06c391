--------------------------- MODULE ClientAppProofs ---------------------------
(***************************************************************************)
(* The safety properties of the client for any accounts, bookings,         *)
(* handlers in flight and outside events.                                  *)
(*                                                                         *)
(* What a handler still relies on at each of its awaits is stated by       *)
(* TaskHolds; that the loading flag keeps guarded handlers apart, by       *)
(* FlagHolds.                                                              *)
(***************************************************************************)
EXTENDS ClientApp, FiniteSetTheorems, TLAPS

-----------------------------------------------------------------------------
(***************************************************************************)
(* The invariant.                                                          *)
(***************************************************************************)
Settled == {"CONFIRMED", "FAILED", "CANCELLED"}

\* Once confirmed, or failed, and not changed but by a cancellation or a late outcome.
PaidFor(b) ==
    /\ booking[b].status \in Settled
    /\ b \in overwritten \/ booking[b].status # "FAILED"

Failed(b) ==
    /\ booking[b].status \in Settled
    /\ b \in overwritten \/ booking[b].status # "CONFIRMED"

TaskHolds(t) ==
    /\ task[t].pc = "bookings" =>
          task[t].profile \in Profiles /\ task[t].profile.id = Caller(t)
    /\ task[t].kind \in {"proceed", "paid", "unpaid"} => task[t].booking # 0
    /\ task[t].pc \in {"cancel", "cancelling"} => task[t].booking # 0 /\ task[t].kind # "confirm"
    /\ task[t].pc = "create" => task[t].booking = 0
    /\ task[t].kind = "paid" => PaidFor(task[t].booking)

Typed == TypeOK /\ \A t \in Tasks : TaskHolds(t)

\* Handlers that look at the flag before they start.
Guarded == LoadingKinds \ {"inventory"}

FlagHolds ==
    /\ ~unlocked =>
          /\ ~loading => Working(LoadingKinds) = {}
          /\ \A s, t \in Working(Guarded) : s = t
    /\ loading => Working(LoadingKinds) # {}

Inv == Typed /\ ShownUserIsSignedIn /\ PopupsAreTrue /\ FlagHolds /\ WizardKeepsItsBooking

-----------------------------------------------------------------------------
(***************************************************************************)
(* Types.                                                                  *)
(***************************************************************************)
SessionTyped ==
    /\ role \in [Guests -> Roles] /\ token \in Tokens /\ user \in {Nobody} \cup Profiles
    /\ loading \in BOOLEAN /\ strayed \in BOOLEAN /\ unlocked \in BOOLEAN

Task == [kind : Kinds, pc : Awaits, session : Tokens, booking : 0..MaxBookings,
         profile : {Nobody} \cup Profiles]

TasksTyped == task \in [Tasks -> Task] /\ \A t \in Tasks : TaskHolds(t)

BookingTyped == booking \in [Bookings -> [status : Statuses, owner : Guests \cup {Nobody}]]

Outcomes == [booking : Bookings, to : {"CONFIRMED", "FAILED"}]

WizardTyped ==
    /\ outcomes \subseteq Outcomes /\ overwritten \subseteq Bookings /\ abandoned \subseteq Bookings
    /\ flow \in [step : {"idle", "confirm", "payment"}, booking : 0..MaxBookings]
    /\ (flow.booking # 0) = (flow.step = "payment")
    /\ confirmedPopup \in 0..MaxBookings
    /\ failedPopup \in [booking : 0..MaxBookings, settled : BOOLEAN]
    /\ (failedPopup.booking = 0) = (failedPopup = NoPopup)

LEMMA TypedIs == Typed <=> SessionTyped /\ TasksTyped /\ BookingTyped /\ WizardTyped
BY DEF Typed, TypeOK, SessionTyped, TasksTyped, Task, BookingTyped, WizardTyped, Outcomes

\* Whoever has a live token is an account.
LEMMA LiveCaller ==
    ASSUME TasksTyped, NEW t \in Tasks, Live(t)
    PROVE  Caller(t) \in Guests /\ task[t].session.role \in Roles /\ task[t].session # NoToken
<1>1. task[t].session \in Tokens
  BY DEF TasksTyped, Task
<1>2. CASE task[t].session = NoToken
  BY <1>2 DEF NoToken, Live
<1>3. CASE task[t].session \in [user : Guests, role : Roles, live : BOOLEAN]
  <2>1. task[t].session.user # Nobody
    BY <1>3, ClientAssumption
  <2>. QED
    BY <1>3, <2>1 DEF Caller, NoToken
<1>. QED
  BY <1>1, <1>2, <1>3 DEF Tokens

LEMMA NoTaskTyped ==
    /\ NoTask \in Task
    /\ \A s \in Tokens : [NoTask EXCEPT !.kind = "load", !.pc = "profile", !.session = s] \in Task
<1>1. NoToken \in Tokens
  BY DEF Tokens
<1>2. 0 \in 0..MaxBookings
  BY ClientAssumption
<1>3. {"none", "load"} \subseteq Kinds /\ {"idle", "profile"} \subseteq Awaits
  BY DEF Kinds, Awaits, SessionKinds
<1>. QED
  BY <1>1, <1>2, <1>3 DEF NoTask, Task

-----------------------------------------------------------------------------
(***************************************************************************)
(* The bookings: what any step may do to their statuses.                   *)
(***************************************************************************)
MovesBooking ==
    /\ overwritten \subseteq overwritten'
    /\ \/ UNCHANGED booking
       \/ \E b \in Bookings, g \in Guests :
             StatusIs(b, "NONE") /\ booking' = [booking EXCEPT ![b] = [status |-> "PENDING_PAYMENT", owner |-> g]]
       \/ \E b \in Bookings, s \in {"CONFIRMED", "FAILED"} :
             SetStatus(b, s) /\ (booking[b].status \in {"PENDING_PAYMENT", s} \/ b \in overwritten')
       \/ \E b \in Bookings : SetStatus(b, "CANCELLED")

LEMMA BookingOf ==
    ASSUME TasksTyped, NEW t \in Tasks, task[t].booking # 0
    PROVE  task[t].booking \in Bookings
BY ClientAssumption DEF TasksTyped, Task, Bookings

LEMMA WizardMovesBooking ==
    ASSUME TasksTyped, NEW t \in Tasks, WizardStep(t)
    PROVE  MovesBooking
<1>1. CASE CreateBooking(t)
  BY <1>1, LiveCaller DEF CreateBooking, NextBooking, MovesBooking
<1>2. CASE ProceedUnpaid(t)
  BY <1>2 DEF ProceedUnpaid, ProceedFails, MovesBooking
<1>3. CASE Cancelled(t)
  BY <1>3, BookingOf DEF Cancelled, TasksTyped, TaskHolds, MovesBooking
<1>. QED
  BY <1>1, <1>2, <1>3
  DEF WizardStep, MovesBooking, BookingConfirmed, ConfirmRefused, ConfirmFails, ProceedAccepted,
      ProceedRefused, ProceedFails, Poll, PollsExhausted, PollRefused, PaidLoads, PaidLoadRefused, UnpaidLoads,
      CancelDecided, CancelRefused, PopupCancelLoads, wizardVars

LEMMA NextMovesBooking == Typed /\ [Next]_vars => MovesBooking
<1>. SUFFICES ASSUME Typed, [Next]_vars PROVE MovesBooking
  OBVIOUS
<1>0. TasksTyped
  BY TypedIs
<1>1. CASE Press \/ UNCHANGED vars \/ ReloadPage
  BY <1>1
  DEF Press, MovesBooking, vars, wizardVars, StartBookingFlow, CancelFlow, WizardClick, ConfirmBookingStep,
      ProceedPaymentStep, CancelBooking, PopupButton, CloseConfirmed, TopUpInstead, TryAgain, PopupCancel,
      ReloadPage
<1>2. ASSUME NEW t \in Tasks, HandlerStep(t) PROVE MovesBooking
  BY <1>0, <1>2, WizardMovesBooking DEF HandlerStep, MovesBooking, wizardVars
<1>3. ASSUME NEW e \in outcomes, SettlePayment(e) PROVE MovesBooking
  BY <1>3, TypedIs DEF SettlePayment, MovesBooking, WizardTyped, Outcomes
<1>4. ASSUME NEW t \in Tasks, AnswerLost(t) PROVE MovesBooking
  BY <1>0, <1>4, LiveCaller DEF AnswerLost, NextBooking, MovesBooking
<1>5. ASSUME NEW t \in Tasks, Unreachable(t) \/ EditBehind(t) PROVE MovesBooking
  BY <1>5 DEF Unreachable, ConfirmFails, ProceedFails, EditBehind, MovesBooking, wizardVars
<1>6. ASSUME NEW g, NEW r, ChangeRole(g, r) \/ ExpireToken(r) PROVE MovesBooking
  BY <1>6 DEF ChangeRole, ExpireToken, MovesBooking, wizardVars
<1>. QED
  BY <1>1, <1>2, <1>3, <1>4, <1>5, <1>6 DEF Next

LEMMA BookingsKept ==
    ASSUME BookingTyped, MovesBooking
    PROVE  BookingTyped' /\ \A b \in Bookings : (PaidFor(b) => PaidFor(b)') /\ (Failed(b) => Failed(b)')
BY DEF BookingTyped, MovesBooking, PaidFor, Failed, Settled, SetStatus, StatusIs, Statuses

-----------------------------------------------------------------------------
(***************************************************************************)
(* The page: whose token and user it shows.                                *)
(***************************************************************************)
SignsOut == token' = NoToken /\ user' = Nobody /\ strayed' = FALSE

MovesPage ==
    \/ UNCHANGED <<token, user, strayed>>
    \/ SignsOut
    \/ \E t \in Tasks, p \in Profiles : Live(t) /\ p.id = Caller(t) /\ ShowUser(t, p) /\ UNCHANGED token
    \/ \E g \in Guests : /\ token' = [user |-> g, role |-> role[g], live |-> TRUE]
                         /\ user' = Profile(g) /\ strayed' = FALSE
    \/ /\ token' = [token EXCEPT !.live = FALSE] /\ token.live
       /\ UNCHANGED <<user, strayed>>

LEMMA LoadsMovesPage ==
    ASSUME TasksTyped, NEW t \in Tasks, Loads(t), UNCHANGED token
    PROVE  MovesPage
BY DEF Loads, MovesPage, TasksTyped, TaskHolds

LEMMA SessionMovesPage ==
    ASSUME Typed, NEW t \in Tasks, SessionStep(t)
    PROVE  MovesPage
<1>0. TasksTyped /\ SessionTyped
  BY TypedIs
<1>1. CASE \E g \in Guests : SignIn(t, g)
  BY <1>1 DEF SignIn, MovesPage
<1>2. CASE LoadOnSignIn(t) \/ ToppedUp(t)
  BY <1>0, <1>2, LoadsMovesPage DEF LoadOnSignIn, ToppedUp, MovesPage, SignsOut
<1>3. CASE ProfileSaved(t)
  <2>1. Live(t) => Profile(Caller(t)) \in Profiles /\ Profile(Caller(t)).id = Caller(t)
    BY <1>0, LiveCaller DEF SessionTyped, Profile, Profiles
  <2>. QED
    BY <1>3, <2>1 DEF ProfileSaved, MovesPage
<1>. QED
  BY <1>1, <1>2, <1>3 DEF SessionStep, AuthRefused, InventoryManaged, MovesPage

LEMMA WizardMovesPage ==
    ASSUME TasksTyped, NEW t \in Tasks, WizardStep(t)
    PROVE  MovesPage
<1>1. CASE PaidLoads(t) \/ UnpaidLoads(t) \/ PopupCancelLoads(t)
  BY <1>1, LoadsMovesPage DEF PaidLoads, UnpaidLoads, PopupCancelLoads, MovesPage
<1>. QED
  BY <1>1
  DEF WizardStep, MovesPage, CreateBooking, BookingConfirmed, ConfirmRefused, ConfirmFails,
      ProceedAccepted, ProceedUnpaid, ProceedRefused, ProceedFails, Concludes, Poll, PollsExhausted,
      PollRefused, PaidLoadRefused, CancelDecided, Cancelled, CancelRefused

LEMMA NextMovesPage == Typed /\ [Next]_vars => MovesPage
<1>. SUFFICES ASSUME Typed, [Next]_vars PROVE MovesPage
  OBVIOUS
<1>0. TasksTyped
  BY TypedIs
<1>1. CASE Press \/ UNCHANGED vars \/ ReloadPage \/ \E e \in outcomes : SettlePayment(e)
  BY <1>1
  DEF Press, MovesPage, SignsOut, vars, sessionVars, Logout, StartBookingFlow, CancelFlow, SessionClick, SubmitAuth,
      SaveProfile, TopUp, CreateInventory, Click, WizardClick, ConfirmBookingStep, ProceedPaymentStep,
      CancelBooking, PopupButton, CloseConfirmed, TopUpInstead, TryAgain, PopupCancel, ReloadPage,
      SettlePayment
<1>2. ASSUME NEW t \in Tasks, HandlerStep(t) PROVE MovesPage
  BY <1>0, <1>2, WizardMovesPage, SessionMovesPage DEF HandlerStep, LoadProfile, MovesPage
<1>3. ASSUME NEW t \in Tasks, AnswerLost(t) \/ Unreachable(t) \/ EditBehind(t) PROVE MovesPage
  BY <1>3
  DEF AnswerLost, Unreachable, ConfirmFails, ProceedFails, Concludes, EditBehind, ManageInventory, MovesPage
<1>4. ASSUME NEW g, NEW r, ChangeRole(g, r) \/ ExpireToken(r) PROVE MovesPage
  BY <1>4 DEF ChangeRole, ExpireToken, MovesPage
<1>. QED
  BY <1>1, <1>2, <1>3, <1>4 DEF Next

LEMMA PageKept ==
    ASSUME SessionTyped, TasksTyped, ShownUserIsSignedIn, MovesPage
    PROVE  /\ token' \in Tokens /\ user' \in {Nobody} \cup Profiles /\ strayed' \in BOOLEAN
           /\ ShownUserIsSignedIn'
<1>1. CASE UNCHANGED <<token, user, strayed>>
  BY <1>1 DEF SessionTyped, ShownUserIsSignedIn
<1>2. CASE SignsOut
  BY <1>2 DEF SignsOut, ShownUserIsSignedIn, Tokens
<1>3. ASSUME NEW t \in Tasks, NEW p \in Profiles,
             Live(t), p.id = Caller(t), ShowUser(t, p), UNCHANGED token
      PROVE  /\ token' \in Tokens /\ user' \in {Nobody} \cup Profiles /\ strayed' \in BOOLEAN
             /\ ShownUserIsSignedIn'
  BY <1>3, LiveCaller DEF SessionTyped, ShowUser, ShownUserIsSignedIn, Caller
<1>4. ASSUME NEW g \in Guests, token' = [user |-> g, role |-> role[g], live |-> TRUE],
             user' = Profile(g), strayed' = FALSE
      PROVE  /\ token' \in Tokens /\ user' \in {Nobody} \cup Profiles /\ strayed' \in BOOLEAN
             /\ ShownUserIsSignedIn'
  <2>1. token'.user # Nobody
    BY <1>4, ClientAssumption
  <2>. QED
    BY <1>4, <2>1 DEF SessionTyped, Profile, Profiles, Tokens, NoToken, ShownUserIsSignedIn
<1>5. CASE token' = [token EXCEPT !.live = FALSE] /\ token.live /\ UNCHANGED <<user, strayed>>
  <2>1. token \in [user : Guests, role : Roles, live : BOOLEAN]
    BY <1>5 DEF SessionTyped, Tokens, NoToken
  <2>2. token' \in Tokens /\ token'.user = token.user /\ token'.user \in Guests
    BY <1>5, <2>1 DEF Tokens
  <2>3. token' # NoToken
    BY <2>2, ClientAssumption DEF NoToken
  <2>. QED
    BY <1>5, <2>2, <2>3 DEF SessionTyped, ShownUserIsSignedIn
<1>. QED
  BY <1>1, <1>2, <1>3, <1>4, <1>5 DEF MovesPage

-----------------------------------------------------------------------------
(***************************************************************************)
(* The handlers: one record moves at a time, except when the page is       *)
(* reloaded or a token expires.                                            *)
(***************************************************************************)
\* What the record of a handler must say of itself.
Holds(r) ==
    /\ r \in Task
    /\ r.pc = "bookings" => r.profile \in Profiles /\ r.profile.id = r.session.user
    /\ r.kind \in {"proceed", "paid", "unpaid"} => r.booking # 0
    /\ r.pc \in {"cancel", "cancelling"} => r.booking # 0 /\ r.kind # "confirm"
    /\ r.pc = "create" => r.booking = 0
    /\ r.kind = "paid" => PaidFor(r.booking)'

MovesTask == UNCHANGED task \/ \E t \in Tasks, r \in Task : Holds(r) /\ task' = [task EXCEPT ![t] = r]

LEMMA RecordHolds ==
    ASSUME TasksTyped, NEW t \in Tasks
    PROVE  task[t] \in Task /\ TaskHolds(t)
BY DEF TasksTyped

LEMMA NoTaskHolds == Holds(NoTask)
BY NoTaskTyped DEF Holds, NoTask

LEMMA FinishMovesTask ==
    ASSUME NEW t \in Tasks, Finish(t)
    PROVE  MovesTask
BY NoTaskHolds, NoTaskTyped DEF Finish, MovesTask

LEMMA BeginMovesTask ==
    ASSUME Typed, NEW t \in Tasks, NEW kind \in Kinds \ {"paid"}, NEW pc \in Awaits \ {"bookings"},
           NEW b \in 0..MaxBookings, Begin(t, kind, pc, b),
           kind \in {"proceed", "unpaid"} => b # 0,
           pc \in {"cancel", "cancelling"} => b # 0 /\ kind # "confirm",
           pc = "create" => b = 0
    PROVE  MovesTask
<1>1. PICK r : r = [kind |-> kind, pc |-> pc, session |-> token, booking |-> b, profile |-> Nobody]
  OBVIOUS
<1>2. r \in Task
  BY <1>1, TypedIs DEF SessionTyped, Task
<1>3. Holds(r)
  BY <1>1, <1>2 DEF Holds
<1>. QED
  BY <1>1, <1>2, <1>3 DEF Begin, MovesTask

LEMMA LoadProfileMovesTask ==
    ASSUME Typed, NEW t \in Tasks, LoadProfile(t), \A b \in Bookings : PaidFor(b) => PaidFor(b)'
    PROVE  MovesTask
<1>r. PICK r : r = [task[t] EXCEPT !.pc = "bookings", !.profile = Profile(Caller(t))]
  OBVIOUS
<1>0. TasksTyped /\ SessionTyped /\ task[t] \in Task /\ TaskHolds(t)
  BY TypedIs DEF TasksTyped
<1>1. Profile(Caller(t)) \in Profiles /\ Profile(Caller(t)).id = Caller(t)
  BY <1>0, LiveCaller DEF LoadProfile, SessionTyped, Profile, Profiles
<1>2. r \in Task /\ r.session = task[t].session /\ r.kind = task[t].kind /\ r.pc = "bookings"
      /\ r.booking = task[t].booking /\ r.profile = Profile(Caller(t))
  BY <1>r, <1>0, <1>1 DEF Task, Awaits
<1>3. r.kind = "paid" => PaidFor(r.booking)'
  BY <1>0, <1>2, BookingOf DEF TaskHolds
<1>4. Holds(r)
  BY <1>0, <1>1, <1>2, <1>3 DEF Holds, TaskHolds, Caller
<1>5. task' = [task EXCEPT ![t] = r]
  BY <1>r DEF LoadProfile
<1>. QED
  BY <1>2, <1>4, <1>5 DEF MovesTask

\* A step that moves the record of one handler on to another await.
LEMMA GoOnMovesTask ==
    ASSUME TasksTyped, NEW t \in Tasks, NEW pc \in Awaits \ {"bookings", "cancel", "cancelling", "create"},
           GoOn(t, pc), \A b \in Bookings : PaidFor(b) => PaidFor(b)'
    PROVE  MovesTask
<1>r. PICK r : r = [task[t] EXCEPT !.pc = pc]
  OBVIOUS
<1>0. task[t] \in Task /\ TaskHolds(t)
  BY RecordHolds
<1>1. r \in Task /\ r.kind = task[t].kind /\ r.booking = task[t].booking /\ r.pc = pc
  BY <1>r, <1>0 DEF Task
<1>2. r.kind = "paid" => PaidFor(r.booking)'
  BY <1>0, <1>1, BookingOf DEF TaskHolds
<1>3. Holds(r)
  BY <1>0, <1>1, <1>2 DEF Holds, TaskHolds
<1>. QED
  BY <1>r, <1>1, <1>3 DEF GoOn, MovesTask

LEMMA ConcludesMovesTask ==
    ASSUME TasksTyped, NEW t \in Tasks, NEW kind \in {"paid", "unpaid"}, Concludes(t, kind),
           NEW b, b = task[t].booking, b # 0, kind = "paid" => PaidFor(b)'
    PROVE  MovesTask
<1>r. PICK r : r = [task[t] EXCEPT !.kind = kind, !.pc = "profile", !.profile = Nobody]
  OBVIOUS
<1>0. task[t] \in Task /\ TaskHolds(t)
  BY RecordHolds
<1>1. r \in Task /\ r.kind = kind /\ r.booking = b /\ r.pc = "profile"
  BY <1>r, <1>0 DEF Task, Kinds, WizardKinds, Awaits
<1>2. Holds(r)
  BY <1>0, <1>1 DEF Holds
<1>3. task' = [task EXCEPT ![t] = r]
  BY <1>r DEF Concludes
<1>. QED
  BY <1>1, <1>2, <1>3 DEF MovesTask

\* A failed proceed, and the booking its popup is about.
LEMMA FailsMovesTask ==
    ASSUME TasksTyped, NEW t \in Tasks, NEW settled, ProceedFails(t, settled),
           task[t].kind \in {"proceed", "paid"}
    PROVE  MovesTask
BY RecordHolds, ConcludesMovesTask DEF ProceedFails, TaskHolds

LEMMA SignInMovesTask ==
    ASSUME Typed, NEW t \in Tasks, NEW g \in Guests, SignIn(t, g)
    PROVE  MovesTask
<1>1. PICK s \in Tokens : s = token'
  BY TypedIs DEF SignIn, SessionTyped, Tokens
<1>r. PICK r : r = [NoTask EXCEPT !.kind = "load", !.pc = "profile", !.session = s]
  OBVIOUS
<1>2. r \in Task /\ r.kind = "load" /\ r.pc = "profile"
  BY <1>r, <1>1, NoTaskTyped DEF NoTask
<1>3. Holds(r)
  BY <1>2 DEF Holds
<1>. QED
  BY <1>r, <1>1, <1>2, <1>3 DEF SignIn, MovesTask

LEMMA WizardMovesTask ==
    ASSUME Typed, NEW t \in Tasks, WizardStep(t), \A b \in Bookings : PaidFor(b) => PaidFor(b)'
    PROVE  MovesTask
<1>0. TasksTyped /\ task[t] \in Task /\ TaskHolds(t)
  BY TypedIs, RecordHolds
<1>1. CASE CreateBooking(t)
  <2>1. PICK b \in Bookings : task' = [task EXCEPT ![t].pc = "confirm", ![t].booking = b]
    BY <1>1 DEF CreateBooking
  <2>r. PICK r : r = [task[t] EXCEPT !.pc = "confirm", !.booking = b]
    OBVIOUS
  <2>b. b \in 0..MaxBookings
    BY ClientAssumption DEF Bookings
  <2>2. r \in Task /\ r.pc = "confirm" /\ r.kind = "confirm" /\ r.booking = b
    BY <2>r, <2>b, <1>0, <1>1 DEF Task, Awaits, CreateBooking
  <2>3. Holds(r)
    BY <2>2 DEF Holds
  <2>4. task' = [task EXCEPT ![t] = r]
    BY <2>r, <2>1
  <2>. QED
    BY <2>2, <2>3, <2>4 DEF MovesTask
<1>2. CASE ProceedAccepted(t)
  BY <1>0, <1>2, GoOnMovesTask DEF ProceedAccepted, Awaits
<1>3. CASE ProceedUnpaid(t) \/ ProceedRefused(t) \/ PollsExhausted(t) \/ PollRefused(t) \/ PaidLoadRefused(t)
  BY <1>0, <1>3, FailsMovesTask
  DEF ProceedUnpaid, ProceedRefused, PollsExhausted, PollRefused, PaidLoadRefused, Asking, Polling
<1>4. CASE Poll(t)
  <2>1. CASE Confirmed(task[t].booking) /\ Concludes(t, "paid")
    <3>1. PICK b : b = task[t].booking
      OBVIOUS
    <3>2. PaidFor(b)' /\ b # 0
      BY <1>4, <2>1, <3>1 DEF Poll, Confirmed, StatusIs, PaidFor, Settled
    <3>. QED
      BY <1>0, <2>1, <3>1, <3>2, ConcludesMovesTask
  <2>2. CASE ProceedFails(t, TRUE)
    BY <1>0, <1>4, <2>2, FailsMovesTask DEF Poll, Polling
  <2>. QED
    BY <1>4, <2>1, <2>2 DEF Poll
<1>5. CASE Cancelled(t) \/ (CancelDecided(t) /\ GoOn(t, "profile"))
  BY <1>0, <1>5, GoOnMovesTask DEF Cancelled, Awaits
<1>6. CASE CancelDecided(t) /\ GoOn(t, "cancelling")
  <2>r. PICK r : r = [task[t] EXCEPT !.pc = "cancelling"]
    OBVIOUS
  <2>1. r \in Task /\ r.kind = task[t].kind /\ r.booking = task[t].booking /\ r.pc = "cancelling"
    BY <2>r, <1>0 DEF Task, Awaits
  <2>2. r.kind = "paid" => PaidFor(r.booking)'
    BY <1>0, <2>1, BookingOf DEF TaskHolds
  <2>3. Holds(r)
    BY <1>0, <1>6, <2>1, <2>2 DEF Holds, TaskHolds, CancelDecided
  <2>. QED
    BY <1>6, <2>r, <2>1, <2>3 DEF GoOn, MovesTask
<1>7. CASE CancelDecided(t)
  BY <1>5, <1>6, <1>7 DEF CancelDecided
<1>. QED
  BY <1>1, <1>2, <1>3, <1>4, <1>5, <1>7, FinishMovesTask
  DEF WizardStep, BookingConfirmed, ConfirmRefused, ConfirmFails, PaidLoads, UnpaidLoads, CancelRefused,
      PopupCancelLoads

LEMMA HandlerMovesTask ==
    ASSUME Typed, NEW t \in Tasks, HandlerStep(t), \A b \in Bookings : PaidFor(b) => PaidFor(b)'
    PROVE  MovesTask
<1>1. CASE SessionStep(t)
  BY <1>1, FinishMovesTask, SignInMovesTask
  DEF SessionStep, AuthRefused, LoadOnSignIn, ProfileSaved, ToppedUp, InventoryManaged
<1>. QED
  BY <1>1, WizardMovesTask, LoadProfileMovesTask DEF HandlerStep

LEMMA PressMovesTask ==
    ASSUME Typed, Press
    PROVE  MovesTask
<1>0. 0 \in 0..MaxBookings
  BY ClientAssumption
<1>1. ASSUME NEW t \in Tasks, SessionClick(t) PROVE MovesTask
  BY <1>0, <1>1, BeginMovesTask
  DEF SessionClick, SubmitAuth, SaveProfile, TopUp, CreateInventory, Click, Kinds, SessionKinds, Awaits
<1>2. ASSUME NEW t \in Tasks, WizardClick(t) PROVE MovesTask
  <2>1. CASE ConfirmBookingStep(t)
    BY <1>0, <2>1, BeginMovesTask DEF ConfirmBookingStep, Click, Kinds, WizardKinds, Awaits
  <2>2. CASE ProceedPaymentStep(t)
    BY <2>2, BeginMovesTask, TypedIs DEF ProceedPaymentStep, Click, Kinds, WizardKinds, Awaits, WizardTyped
  <2>3. CASE CancelBooking(t)
    <3>1. PICK b \in Bookings : Begin(t, "cancel", "cancel", b)
      BY <2>3 DEF CancelBooking, Click
    <3>2. b \in 0..MaxBookings /\ b # 0
      BY ClientAssumption DEF Bookings
    <3>. QED
      BY <3>1, <3>2, BeginMovesTask DEF Kinds, WizardKinds, Awaits
  <2>. QED
    BY <1>2, <2>1, <2>2, <2>3 DEF WizardClick
<1>3. ASSUME NEW t \in Tasks, PopupCancel(t) PROVE MovesTask
  BY <1>3, BeginMovesTask, TypedIs DEF PopupCancel, Kinds, WizardKinds, Awaits, WizardTyped
<1>. QED
  BY <1>1, <1>2, <1>3
  DEF Press, MovesTask, Logout, StartBookingFlow, CancelFlow, PopupButton, CloseConfirmed, TopUpInstead,
      TryAgain, sessionVars

LEMMA TasksKept ==
    ASSUME TasksTyped, MovesTask, \A b \in Bookings : PaidFor(b) => PaidFor(b)'
    PROVE  TasksTyped'
<1>1. ASSUME NEW s \in Tasks, UNCHANGED task[s] PROVE task'[s] \in Task /\ TaskHolds(s)'
  <2>1. task[s] \in Task /\ TaskHolds(s)
    BY RecordHolds
  <2>2. PICK b : b = task[s].booking
    OBVIOUS
  <2>3. task[s].kind = "paid" => PaidFor(b)'
    BY <2>1, <2>2, BookingOf DEF TaskHolds
  <2>4. TaskHolds(s)'
    BY <1>1, <2>1, <2>2, <2>3 DEF TaskHolds, Caller
  <2>. QED
    BY <1>1, <2>1, <2>4
<1>2. CASE UNCHANGED task
  BY <1>1, <1>2 DEF TasksTyped
<1>3. ASSUME NEW t \in Tasks, NEW r \in Task, Holds(r), task' = [task EXCEPT ![t] = r]
      PROVE  TasksTyped'
  <2>1. task' \in [Tasks -> Task] /\ task'[t] = r /\ \A s \in Tasks : s # t => UNCHANGED task[s]
    BY <1>3 DEF TasksTyped
  <2>2. TaskHolds(t)'
    BY <1>3, <2>1 DEF Holds, TaskHolds, Caller
  <2>. QED
    BY <1>1, <2>1, <2>2 DEF TasksTyped
<1>. QED
  BY <1>2, <1>3 DEF MovesTask

LEMMA ReloadTasks ==
    ASSUME Typed, ReloadPage
    PROVE  TasksTyped'
<1>1. PICK r : r = [NoTask EXCEPT !.kind = "load", !.pc = "profile", !.session = token]
  OBVIOUS
<1>2. r \in Task /\ r.kind = "load" /\ r.pc = "profile"
  BY <1>1, NoTaskTyped, TypedIs DEF NoTask, SessionTyped
<1>3. NoTask \in Task /\ NoTask.kind = "none" /\ NoTask.pc = "idle"
  BY NoTaskTyped DEF NoTask
<1>4. task' \in [Tasks -> Task] /\ \A s \in Tasks : task'[s] \in {r, NoTask}
  BY <1>1, <1>2, <1>3 DEF ReloadPage
<1>5. ASSUME NEW s \in Tasks PROVE TaskHolds(s)'
  BY <1>2, <1>3, <1>4 DEF TaskHolds
<1>. QED
  BY <1>4, <1>5 DEF TasksTyped

LEMMA ExpireTasks ==
    ASSUME Typed, NEW x, ExpireToken(x)
    PROVE  TasksTyped'
<1>1. ASSUME NEW s \in Tasks PROVE task'[s] \in Task /\ TaskHolds(s)'
  <2>1. task[s] \in Task /\ TaskHolds(s)
    BY TypedIs, RecordHolds
  <2>2. CASE task[s].session # x
    <3>1. UNCHANGED <<task[s], booking, overwritten>>
      BY <2>2 DEF ExpireToken, wizardVars
    <3>. QED
      BY <2>1, <3>1 DEF TaskHolds, Caller, PaidFor
  <2>3. CASE task[s].session = x
    <3>1. task'[s] = [task[s] EXCEPT !.session.live = FALSE] /\ Live(s) /\ UNCHANGED <<booking, overwritten>>
      BY <2>3 DEF ExpireToken, Live, wizardVars
    <3>2. task[s].session \in [user : Guests, role : Roles, live : BOOLEAN]
      BY <2>1, <3>1 DEF Task, Tokens, NoToken, Live
    <3>3. PICK y \in [user : Guests, role : Roles, live : BOOLEAN] :
             y = [task[s].session EXCEPT !.live = FALSE]
      BY <3>2
    <3>4. y \in Tokens /\ y.user = Caller(s)
      BY <3>2, <3>3 DEF Tokens, Caller
    <3>5. task'[s] = [task[s] EXCEPT !.session = y]
      BY <3>1, <3>3
    <3>6. /\ task'[s] \in Task /\ task'[s].pc = task[s].pc /\ task'[s].kind = task[s].kind
          /\ task'[s].profile = task[s].profile /\ task'[s].booking = task[s].booking
          /\ task'[s].session.user = Caller(s)
      BY <2>1, <3>4, <3>5 DEF Task
    <3>. QED
      BY <2>1, <3>1, <3>6 DEF TaskHolds, Caller, PaidFor
  <2>. QED
    BY <2>2, <2>3
<1>2. task' \in [Tasks -> Task]
  BY <1>1 DEF ExpireToken
<1>. QED
  BY <1>1, <1>2 DEF TasksTyped

LEMMA NextTasksTyped == Typed /\ [Next]_vars => TasksTyped'
<1>. SUFFICES ASSUME Typed, [Next]_vars PROVE TasksTyped'
  OBVIOUS
<1>1. TasksTyped /\ \A b \in Bookings : PaidFor(b) => PaidFor(b)'
  BY TypedIs, NextMovesBooking, BookingsKept
<1>2. CASE Press
  BY <1>1, <1>2, PressMovesTask, TasksKept
<1>3. ASSUME NEW t \in Tasks, HandlerStep(t) PROVE TasksTyped'
  BY <1>1, <1>3, HandlerMovesTask, TasksKept
<1>4. ASSUME NEW t \in Tasks, Unreachable(t) PROVE MovesTask
  BY <1>1, <1>4, FinishMovesTask, FailsMovesTask DEF Unreachable, ConfirmFails
<1>5. ASSUME NEW t \in Tasks, AnswerLost(t) PROVE MovesTask
  <2>1. CASE Finish(t)
    BY <2>1, FinishMovesTask
  <2>2. CASE Asking(t) /\ Concludes(t, "unpaid")
    BY <1>1, <2>2, ConcludesMovesTask, RecordHolds DEF Asking, TaskHolds
  <2>. QED
    BY <1>5, <2>1, <2>2 DEF AnswerLost
<1>6. ASSUME NEW t \in Tasks, EditBehind(t) PROVE MovesTask
  <2>1. 0 \in 0..MaxBookings
    BY ClientAssumption
  <2>. QED
    BY <1>6, <2>1, BeginMovesTask DEF EditBehind, ManageInventory, Kinds, SessionKinds, Awaits
<1>7. CASE UNCHANGED vars \/ (\E e \in outcomes : SettlePayment(e)) \/ \E g \in Guests, r \in NewRoles : ChangeRole(g, r)
  <2>1. MovesTask
    BY <1>7 DEF vars, sessionVars, SettlePayment, ChangeRole, MovesTask
  <2>. QED
    BY <1>1, <2>1, TasksKept
<1>8. ASSUME NEW x, ExpireToken(x) PROVE TasksTyped'
  BY <1>8, ExpireTasks
<1>. QED
  BY <1>1, <1>2, <1>3, <1>4, <1>5, <1>6, <1>7, <1>8, ReloadTasks, TasksKept DEF Next

-----------------------------------------------------------------------------
(***************************************************************************)
(* The loading flag: how it moves with the handlers that look at it.       *)
(***************************************************************************)
\* No handler takes on the duty to clear the flag, or one that wants it clear.
NoNewDuty(kinds) == \A s \in Tasks : task'[s].kind \in kinds => task[s].kind \in kinds

\* No handler drops the duty to clear the flag.
DutyStays == \A s \in Tasks : task[s].kind \in LoadingKinds => task'[s].kind \in LoadingKinds

MovesFlag ==
    \/ /\ UNCHANGED <<loading, unlocked>>
       /\ NoNewDuty(LoadingKinds) /\ NoNewDuty(Guarded) /\ DutyStays
    \/ \E t \in Tasks : /\ loading' = TRUE /\ UNCHANGED unlocked
                       /\ NoNewDuty(Guarded) /\ task'[t].kind \in LoadingKinds
    \/ \E t \in Tasks : Finish(t)
    \/ \E t \in Tasks : /\ ~loading /\ loading' = TRUE /\ UNCHANGED unlocked
                       /\ task'[t].kind \in LoadingKinds
                       /\ \A s \in Tasks \ {t} : UNCHANGED task[s]
    \/ \E t \in Tasks : /\ loading' = FALSE /\ unlocked' = (Working(LoadingKinds) # {t})
                       /\ task'[t].kind = "load" /\ \A s \in Tasks \ {t} : UNCHANGED task[s]
    \/ loading' = FALSE /\ unlocked' = FALSE /\ \A s \in Tasks : task'[s].kind \notin LoadingKinds

LEMMA BeginOne ==
    ASSUME TasksTyped, NEW t \in Tasks, NEW kind, NEW pc, NEW b, Begin(t, kind, pc, b)
    PROVE  /\ task[t].kind = "none" /\ task'[t].kind = kind
           /\ \A s \in Tasks \ {t} : UNCHANGED task[s]
BY DEF Begin, TasksTyped, NoTask

LEMMA ClickMovesFlag ==
    ASSUME TasksTyped, NEW t \in Tasks, NEW kind \in LoadingKinds, NEW pc, NEW b,
           Click(t, kind, pc, b)
    PROVE  MovesFlag
<1>1. task'[t].kind \in LoadingKinds /\ \A s \in Tasks \ {t} : UNCHANGED task[s]
  BY BeginOne DEF Click
<1>. QED
  BY <1>1 DEF Click, MovesFlag

\* The record of a handler gets on, with duties it had.
LEMMA GetsOnMovesFlag ==
    ASSUME TasksTyped, NEW t \in Tasks, NEW r, task' = [task EXCEPT ![t] = r],
           r.kind \in LoadingKinds <=> task[t].kind \in LoadingKinds,
           r.kind \in Guarded => task[t].kind \in Guarded,
           UNCHANGED <<loading, unlocked>>
    PROVE  MovesFlag
BY DEF TasksTyped, MovesFlag, NoNewDuty, DutyStays

LEMMA GoOnMovesFlag ==
    ASSUME TasksTyped, NEW t \in Tasks, NEW pc, GoOn(t, pc), UNCHANGED <<loading, unlocked>>
    PROVE  MovesFlag
<1>1. PICK r : r = [task[t] EXCEPT !.pc = pc]
  OBVIOUS
<1>2. r.kind = task[t].kind
  BY <1>1, RecordHolds DEF Task
<1>. QED
  BY <1>1, <1>2, GetsOnMovesFlag DEF GoOn

LEMMA ConcludesMovesFlag ==
    ASSUME TasksTyped, NEW t \in Tasks, NEW kind \in {"paid", "unpaid"},
           Concludes(t, kind), task[t].kind \in {"proceed", "paid"}
    PROVE  MovesFlag
<1>1. PICK r : r = [task[t] EXCEPT !.kind = kind, !.pc = "profile", !.profile = Nobody]
  OBVIOUS
<1>2. task[t].kind \in LoadingKinds /\ task[t].kind \in Guarded /\ kind \in LoadingKinds
  BY DEF LoadingKinds, Guarded
<1>3. task' = [task EXCEPT ![t] = r] /\ UNCHANGED <<loading, unlocked>>
  BY <1>1 DEF Concludes
<1>4. r.kind = kind
  BY <1>1, RecordHolds DEF Task
<1>. QED
  BY <1>2, <1>3, <1>4, GetsOnMovesFlag

LEMMA WizardMovesFlag ==
    ASSUME TasksTyped, NEW t \in Tasks, WizardStep(t)
    PROVE  MovesFlag
<1>1. CASE CreateBooking(t)
  <2>1. PICK b \in Bookings : task' = [task EXCEPT ![t].pc = "confirm", ![t].booking = b]
    BY <1>1 DEF CreateBooking
  <2>2. PICK r : r = [task[t] EXCEPT !.pc = "confirm", !.booking = b]
    OBVIOUS
  <2>3. r.kind = task[t].kind
    BY <2>2, RecordHolds DEF Task
  <2>4. task' = [task EXCEPT ![t] = r] /\ UNCHANGED <<loading, unlocked>>
    BY <1>1, <2>1, <2>2 DEF CreateBooking
  <2>. QED
    BY <2>3, <2>4, GetsOnMovesFlag
<1>2. CASE ProceedAccepted(t) \/ CancelDecided(t) \/ Cancelled(t)
  BY <1>2, GoOnMovesFlag DEF ProceedAccepted, CancelDecided, Cancelled
<1>3. CASE ProceedUnpaid(t) \/ ProceedRefused(t) \/ PollsExhausted(t) \/ PollRefused(t) \/ PaidLoadRefused(t)
           \/ Poll(t)
  BY <1>3, ConcludesMovesFlag
  DEF ProceedUnpaid, ProceedRefused, PollsExhausted, PollRefused, PaidLoadRefused, Poll, ProceedFails,
      Asking, Polling
<1>. QED
  BY <1>1, <1>2, <1>3
  DEF WizardStep, BookingConfirmed, ConfirmRefused, ConfirmFails, PaidLoads, UnpaidLoads, CancelRefused,
      PopupCancelLoads, MovesFlag

LEMMA HandlerMovesFlag ==
    ASSUME TasksTyped, NEW t \in Tasks, HandlerStep(t)
    PROVE  MovesFlag
<1>1. ASSUME NEW g \in Guests, SignIn(t, g) PROVE MovesFlag
  <2>1. task'[t].kind = "load" /\ \A s \in Tasks \ {t} : UNCHANGED task[s]
    BY <1>1 DEF SignIn, NoTask, TasksTyped
  <2>. QED
    BY <1>1, <2>1 DEF SignIn, MovesFlag
<1>2. CASE LoadProfile(t)
  <2>1. PICK r : r = [task[t] EXCEPT !.pc = "bookings", !.profile = Profile(Caller(t))]
    OBVIOUS
  <2>2. r.kind = task[t].kind /\ task' = [task EXCEPT ![t] = r]
    BY <1>2, <2>1, RecordHolds DEF Task, LoadProfile
  <2>. QED
    BY <1>2, <2>2, GetsOnMovesFlag DEF LoadProfile
<1>. QED
  BY <1>1, <1>2, WizardMovesFlag
  DEF HandlerStep, SessionStep, AuthRefused, LoadOnSignIn, ProfileSaved, ToppedUp, InventoryManaged, MovesFlag

LEMMA NextMovesFlag == Typed /\ [Next]_vars => MovesFlag
<1>. SUFFICES ASSUME Typed, [Next]_vars PROVE MovesFlag
  OBVIOUS
<1>1. TasksTyped
  BY TypedIs
<1>2. CASE UNCHANGED <<task, loading, unlocked>>
  BY <1>2 DEF MovesFlag, NoNewDuty, DutyStays
<1>3. CASE Press
  <2>1. ASSUME NEW t \in Tasks, SaveProfile(t) \/ PopupCancel(t) PROVE MovesFlag
    <3>1. PICK kind \in {"save", "popupCancel"} : \E pc, b : Begin(t, kind, pc, b)
      BY <2>1 DEF SaveProfile, PopupCancel
    <3>2. NoNewDuty(LoadingKinds) /\ NoNewDuty(Guarded) /\ DutyStays
      BY <1>1, <3>1, BeginOne DEF NoNewDuty, LoadingKinds, Guarded, DutyStays
    <3>. QED
      BY <2>1, <3>2 DEF SaveProfile, PopupCancel, MovesFlag
  <2>2. ASSUME NEW t \in Tasks, SubmitAuth(t) \/ TopUp(t) \/ CreateInventory(t) \/ WizardClick(t) PROVE MovesFlag
    BY <1>1, <2>2, ClickMovesFlag
    DEF LoadingKinds, SubmitAuth, TopUp, CreateInventory, WizardClick, ConfirmBookingStep, ProceedPaymentStep, CancelBooking
  <2>. QED
    BY <1>2, <1>3, <2>1, <2>2
    DEF Press, SessionClick, PopupButton, Logout, StartBookingFlow, CancelFlow, CloseConfirmed, TopUpInstead,
        TryAgain, sessionVars
<1>4. ASSUME NEW t \in Tasks, HandlerStep(t) PROVE MovesFlag
  BY <1>1, <1>4, HandlerMovesFlag
<1>5. ASSUME NEW t \in Tasks, Unreachable(t) \/ AnswerLost(t) PROVE MovesFlag
  <2>1. CASE Finish(t)
    BY <2>1 DEF MovesFlag
  <2>. QED
    BY <1>1, <1>5, <2>1, ConcludesMovesFlag DEF Unreachable, AnswerLost, ConfirmFails, ProceedFails, Asking
<1>6. ASSUME NEW t \in Tasks, EditBehind(t) PROVE MovesFlag
  <2>1. NoNewDuty(Guarded) /\ task'[t].kind \in LoadingKinds
    BY <1>1, <1>6, BeginOne DEF EditBehind, ManageInventory, NoNewDuty, Guarded, LoadingKinds
  <2>. QED
    BY <1>6, <2>1 DEF EditBehind, ManageInventory, MovesFlag
<1>7. ASSUME NEW x, ExpireToken(x) PROVE MovesFlag
  <2>1. \A s \in Tasks : task'[s].kind = task[s].kind
    BY <1>1, <1>7, RecordHolds DEF ExpireToken, Task
  <2>. QED
    BY <1>7, <2>1 DEF ExpireToken, MovesFlag, NoNewDuty, DutyStays
<1>8. CASE ReloadPage
  <2>1. \A s \in Tasks : task'[s].kind \in {"load", "none"}
    BY <1>8 DEF ReloadPage, NoTask
  <2>. QED
    BY <1>8, <2>1 DEF ReloadPage, MovesFlag, LoadingKinds
<1>. QED
  BY <1>2, <1>3, <1>4, <1>5, <1>6, <1>7, <1>8 DEF Next, vars, sessionVars, SettlePayment, ChangeRole

LEMMA FlagKept ==
    ASSUME TasksTyped, loading \in BOOLEAN, unlocked \in BOOLEAN, FlagHolds, MovesFlag
    PROVE  loading' \in BOOLEAN /\ unlocked' \in BOOLEAN /\ FlagHolds'
<1>1. CASE /\ UNCHANGED <<loading, unlocked>>
           /\ NoNewDuty(LoadingKinds) /\ NoNewDuty(Guarded) /\ DutyStays
  <2>1. ~unlocked => /\ ~loading => Working(LoadingKinds)' = {}
                     /\ \A s, t \in Working(Guarded)' : s = t
    BY <1>1 DEF NoNewDuty, FlagHolds, Working
  <2>2. loading => Working(LoadingKinds)' # {}
    BY <1>1 DEF DutyStays, FlagHolds, Working
  <2>. QED
    BY <1>1, <2>1, <2>2 DEF FlagHolds
<1>2. ASSUME NEW t \in Tasks, loading' = TRUE, UNCHANGED unlocked, NoNewDuty(Guarded),
             task'[t].kind \in LoadingKinds
      PROVE  loading' \in BOOLEAN /\ unlocked' \in BOOLEAN /\ FlagHolds'
  BY <1>2 DEF NoNewDuty, FlagHolds, Working
<1>3. ASSUME NEW t \in Tasks, Finish(t)
      PROVE  loading' \in BOOLEAN /\ unlocked' \in BOOLEAN /\ FlagHolds'
  <2>1. task'[t] = NoTask /\ \A s \in Tasks \ {t} : UNCHANGED task[s]
    BY <1>3 DEF Finish, TasksTyped
  <2>2. Working(LoadingKinds)' = Working(LoadingKinds) \ {t} /\ Working(Guarded)' = Working(Guarded) \ {t}
    BY <2>1 DEF Working, NoTask, LoadingKinds, Guarded
  <2>3. loading' \in BOOLEAN /\ unlocked' \in BOOLEAN
    BY <1>3 DEF Finish
  <2>4. ASSUME ~unlocked'
        PROVE  /\ ~loading' => Working(LoadingKinds)' = {}
               /\ \A s, u \in Working(Guarded)' : s = u
    <3>1. CASE Working(LoadingKinds) \ {t} = {}
      <4>1. Working(Guarded) \subseteq Working(LoadingKinds)
        BY DEF Working, Guarded
      <4>. QED
        BY <2>2, <3>1, <4>1
    <3>2. CASE Working(LoadingKinds) \ {t} # {}
      <4>1. ~unlocked /\ task[t].kind \notin LoadingKinds
        BY <1>3, <2>4, <3>2 DEF Finish
      <4>2. loading' = loading
        BY <1>3, <4>1 DEF Finish
      <4>. QED
        BY <2>2, <4>1, <4>2 DEF FlagHolds
    <3>. QED
      BY <3>1, <3>2
  <2>5. loading' => Working(LoadingKinds)' # {}
    BY <1>3, <2>2 DEF Finish, FlagHolds, Working
  <2>. QED
    BY <2>3, <2>4, <2>5 DEF FlagHolds
<1>4. ASSUME NEW t \in Tasks, ~loading, loading' = TRUE, UNCHANGED unlocked,
             task'[t].kind \in LoadingKinds,
             \A s \in Tasks \ {t} : UNCHANGED task[s]
      PROVE  FlagHolds'
  BY <1>4 DEF FlagHolds, Working, Guarded
<1>5. ASSUME NEW t \in Tasks, loading' = FALSE, unlocked' = (Working(LoadingKinds) # {t}),
             task'[t].kind = "load", \A s \in Tasks \ {t} : UNCHANGED task[s]
      PROVE  FlagHolds'
  BY <1>5 DEF FlagHolds, Working, Guarded, LoadingKinds
<1>6. CASE loading' = FALSE /\ unlocked' = FALSE /\ \A s \in Tasks : task'[s].kind \notin LoadingKinds
  BY <1>6 DEF FlagHolds, Working, Guarded
<1>. QED
  BY <1>1, <1>2, <1>3, <1>4, <1>5, <1>6 DEF MovesFlag

-----------------------------------------------------------------------------
(***************************************************************************)
(* The wizard and the popups.                                              *)
(***************************************************************************)
MovesFlow ==
    \/ flow' \in {flow, Idle, [step |-> "confirm", booking |-> 0]}
    \/ \E b \in Bookings : flow' = [step |-> "payment", booking |-> b]

MovesPopups ==
    /\ \/ confirmedPopup' \in {confirmedPopup, 0}
       \/ \E b \in Bookings : confirmedPopup' = b /\ PaidFor(b)'
    /\ \/ failedPopup' \in {failedPopup, NoPopup}
       \/ \E b \in Bookings, s \in BOOLEAN :
             failedPopup' = [booking |-> b, settled |-> s] /\ (s => Failed(b)')

MovesWizard ==
    /\ outcomes' \subseteq Outcomes /\ overwritten' \subseteq Bookings
    /\ abandoned \subseteq abandoned' /\ abandoned' \subseteq Bookings
    /\ MovesFlow /\ MovesPopups

LEMMA InFlowBooking ==
    ASSUME WizardTyped
    PROVE  InFlow \subseteq Bookings
BY ClientAssumption DEF WizardTyped, InFlow, Bookings

LEMMA FailsMovesWizard ==
    ASSUME Typed, NEW t \in Tasks, NEW settled \in BOOLEAN, ProceedFails(t, settled),
           task[t].kind \in {"proceed", "paid"}, NEW b, b = task[t].booking, settled => Failed(b)',
           UNCHANGED outcomes \/ outcomes' \subseteq Outcomes
    PROVE  MovesWizard
<1>1. b \in Bookings
  BY TypedIs, RecordHolds, BookingOf DEF TaskHolds
<1>. QED
  BY <1>1, TypedIs DEF ProceedFails, MovesWizard, MovesFlow, MovesPopups, WizardTyped

LEMMA WizardMovesWizard ==
    ASSUME Typed, NEW t \in Tasks, WizardStep(t)
    PROVE  MovesWizard
<1>1. TasksTyped /\ WizardTyped /\ BookingTyped /\ InFlow \subseteq Bookings /\ TaskHolds(t)
  BY TypedIs, InFlowBooking, RecordHolds
<1>2. PICK b : b = task[t].booking
  OBVIOUS
<1>3. b # 0 => b \in Bookings
  BY <1>1, <1>2, BookingOf
<1>4. CASE UNCHANGED <<outcomes, overwritten, flow, confirmedPopup, failedPopup, abandoned>>
  BY <1>1, <1>4 DEF MovesWizard, MovesFlow, MovesPopups, WizardTyped
<1>5. CASE BookingConfirmed(t)
  BY <1>1, <1>2, <1>3, <1>5
  DEF BookingConfirmed, StatusIs, MovesWizard, MovesFlow, MovesPopups, WizardTyped
<1>6. CASE ConfirmFails(t)
  BY <1>1, <1>2, <1>3, <1>6 DEF ConfirmFails, MovesWizard, MovesFlow, MovesPopups, WizardTyped
<1>7. CASE ProceedAccepted(t)
  BY <1>1, <1>2, <1>3, <1>7
  DEF ProceedAccepted, Asking, TaskHolds, Updates, Outcomes, MovesWizard, MovesFlow, MovesPopups, WizardTyped
<1>8. CASE ProceedUnpaid(t)
  <2>1. outcomes' \subseteq Outcomes
    BY <1>1, <1>2, <1>3, <1>8 DEF ProceedUnpaid, Asking, TaskHolds, Outcomes, WizardTyped
  <2>. QED
    BY <1>2, <1>8, <2>1, FailsMovesWizard DEF ProceedUnpaid, Asking
<1>9. CASE Poll(t)
  <2>1. CASE ProceedFails(t, TRUE) /\ booking[b].status \in {"FAILED", "CANCELLED"}
    <3>1. Failed(b)'
      BY <1>9, <2>1 DEF Poll, ProceedFails, Failed, Settled
    <3>. QED
      BY <1>2, <1>9, <2>1, <3>1, FailsMovesWizard DEF Poll, Polling
  <2>. QED
    BY <1>2, <1>4, <1>9, <2>1 DEF Poll
<1>10. CASE ProceedRefused(t) \/ PollsExhausted(t) \/ PollRefused(t) \/ PaidLoadRefused(t)
  BY <1>2, <1>10, FailsMovesWizard
  DEF ProceedRefused, PollsExhausted, PollRefused, PaidLoadRefused, Asking, Polling
<1>11. CASE PaidLoads(t)
  <2>1. b \in Bookings /\ PaidFor(b)' /\ confirmedPopup' = b
    BY <1>1, <1>2, <1>3, <1>11 DEF PaidLoads, TaskHolds, PaidFor
  <2>. QED
    BY <1>1, <1>11, <2>1 DEF PaidLoads, MovesWizard, MovesFlow, MovesPopups, WizardTyped
<1>12. CASE PopupCancelLoads(t)
  BY <1>1, <1>12 DEF PopupCancelLoads, MovesWizard, MovesFlow, MovesPopups, WizardTyped
<1>. QED
  BY <1>4, <1>5, <1>6, <1>7, <1>8, <1>9, <1>10, <1>11, <1>12
  DEF WizardStep, CreateBooking, ConfirmRefused, UnpaidLoads, CancelDecided, Cancelled, CancelRefused, wizardVars

LEMMA NextMovesWizard == Typed /\ [Next]_vars => MovesWizard
<1>. SUFFICES ASSUME Typed, [Next]_vars PROVE MovesWizard
  OBVIOUS
<1>1. WizardTyped /\ TasksTyped /\ InFlow \subseteq Bookings
  BY TypedIs, InFlowBooking
<1>2. CASE UNCHANGED <<outcomes, overwritten, flow, confirmedPopup, failedPopup, abandoned>>
  BY <1>1, <1>2 DEF MovesWizard, MovesFlow, MovesPopups, WizardTyped
<1>3. CASE Press
  BY <1>1, <1>2, <1>3
  DEF Press, StartBookingFlow, CancelFlow, WizardClick, ConfirmBookingStep, ProceedPaymentStep, CancelBooking,
      PopupButton, CloseConfirmed, TopUpInstead, TryAgain, PopupCancel, wizardVars,
      MovesWizard, MovesFlow, MovesPopups, WizardTyped
<1>4. ASSUME NEW t \in Tasks, HandlerStep(t) PROVE MovesWizard
  BY <1>2, <1>4, WizardMovesWizard DEF HandlerStep, wizardVars
<1>5. ASSUME NEW t \in Tasks, ConfirmFails(t) PROVE MovesWizard
  BY <1>1, <1>5, BookingOf DEF ConfirmFails, MovesWizard, MovesFlow, MovesPopups, WizardTyped
<1>6. ASSUME NEW t \in Tasks, Unreachable(t) PROVE MovesWizard
  BY <1>2, <1>5, <1>6, FailsMovesWizard DEF Unreachable, wizardVars
<1>7. ASSUME NEW t \in Tasks, AnswerLost(t) PROVE MovesWizard
  <2>1. CASE task[t].kind = "confirm"
    BY <1>1, <1>7, <2>1 DEF AnswerLost, Asking, MovesWizard, MovesFlow, MovesPopups, WizardTyped
  <2>2. CASE Asking(t)
    <3>1. task[t].booking \in Bookings
      BY <1>1, <2>2, RecordHolds, BookingOf DEF Asking, TaskHolds
    <3>2. PICK b \in Bookings : b = task[t].booking
      BY <3>1
    <3>3. /\ outcomes' = outcomes \cup Updates(b)
          /\ failedPopup' = [booking |-> b, settled |-> FALSE]
          /\ UNCHANGED <<overwritten, flow, confirmedPopup, abandoned>>
      BY <1>7, <2>2, <3>2 DEF AnswerLost, Asking
    <3>4. outcomes' \subseteq Outcomes
      BY <1>1, <3>3 DEF Updates, Outcomes, WizardTyped
    <3>5. MovesFlow /\ MovesPopups
      BY <3>3 DEF MovesFlow, MovesPopups
    <3>. QED
      BY <1>1, <3>3, <3>4, <3>5 DEF MovesWizard, WizardTyped
  <2>. QED
    BY <1>7, <2>1, <2>2 DEF AnswerLost
<1>8. CASE ReloadPage
  <2>1. {task[t].booking : t \in Tasks} \ {0} \subseteq Bookings
    BY <1>1, BookingOf
  <2>. QED
    BY <1>1, <1>8, <2>1 DEF ReloadPage, MovesWizard, MovesFlow, MovesPopups, WizardTyped
<1>9. ASSUME NEW e \in outcomes, SettlePayment(e) PROVE MovesWizard
  BY <1>1, <1>9 DEF SettlePayment, Outcomes, MovesWizard, MovesFlow, MovesPopups, WizardTyped
<1>. QED
  BY <1>2, <1>3, <1>4, <1>6, <1>7, <1>8, <1>9 DEF Next, ChangeRole, ExpireToken, EditBehind, vars, wizardVars

LEMMA WizardTypedKept ==
    ASSUME WizardTyped, MovesWizard
    PROVE  WizardTyped'
<1>1. Bookings \subseteq 0..MaxBookings /\ 0 \notin Bookings /\ 0 \in 0..MaxBookings
  BY ClientAssumption DEF Bookings
<1>2. /\ flow' \in [step : {"idle", "confirm", "payment"}, booking : 0..MaxBookings]
      /\ (flow'.booking # 0) = (flow'.step = "payment")
  BY <1>1 DEF WizardTyped, MovesWizard, MovesFlow, Idle
<1>3. confirmedPopup' \in 0..MaxBookings
  BY <1>1 DEF WizardTyped, MovesWizard, MovesPopups
<1>4. /\ failedPopup' \in [booking : 0..MaxBookings, settled : BOOLEAN]
      /\ (failedPopup'.booking = 0) = (failedPopup' = NoPopup)
  <2>1. CASE failedPopup' \in {failedPopup, NoPopup}
    <3>1. CASE UNCHANGED failedPopup
      BY <3>1 DEF WizardTyped
    <3>2. CASE failedPopup' = NoPopup
      BY <1>1, <3>2 DEF NoPopup
    <3>. QED
      BY <2>1, <3>1, <3>2
  <2>2. ASSUME NEW b \in Bookings, NEW s \in BOOLEAN, failedPopup' = [booking |-> b, settled |-> s]
        PROVE  /\ failedPopup' \in [booking : 0..MaxBookings, settled : BOOLEAN]
               /\ failedPopup'.booking = b
    BY <1>1, <2>2
  <2>3. ASSUME NEW b \in Bookings, NEW s \in BOOLEAN, failedPopup' = [booking |-> b, settled |-> s]
        PROVE  failedPopup'.booking # 0 /\ failedPopup' # NoPopup
    <3>1. NoPopup.booking = 0
      BY DEF NoPopup
    <3>. QED
      BY <1>1, <2>2, <2>3, <3>1
  <2>. QED
    BY <2>1, <2>2, <2>3 DEF MovesWizard, MovesPopups
<1>. QED
  BY <1>2, <1>3, <1>4 DEF WizardTyped, MovesWizard

LEMMA PopupsKept ==
    ASSUME WizardTyped, BookingTyped, PopupsAreTrue, MovesPopups, overwritten \subseteq overwritten',
           BookingTyped',
           \A b \in Bookings : (PaidFor(b) => PaidFor(b)') /\ (Failed(b) => Failed(b)')
    PROVE  PopupsAreTrue'
<1>1. ASSUME confirmedPopup' \notin {0} \cup overwritten'
      PROVE  booking'[confirmedPopup'].status \in {"CONFIRMED", "CANCELLED"}
  <2>1. PICK b : b = confirmedPopup'
    OBVIOUS
  <2>2. PaidFor(b)'
    <3>1. CASE confirmedPopup' = confirmedPopup
      <4>1. b \in Bookings /\ b \notin overwritten
        BY <1>1, <2>1, <3>1, ClientAssumption DEF WizardTyped, Bookings
      <4>2. PaidFor(b)
        BY <1>1, <2>1, <3>1, <4>1 DEF PopupsAreTrue, PaidFor, Settled
      <4>. QED
        BY <4>1, <4>2
    <3>. QED
      BY <1>1, <2>1, <3>1 DEF MovesPopups
  <2>. QED
    BY <1>1, <2>1, <2>2 DEF PaidFor, Settled
<1>2. ASSUME failedPopup'.settled, failedPopup'.booking \notin overwritten'
      PROVE  booking'[failedPopup'.booking].status \in {"FAILED", "CANCELLED"}
  <2>1. PICK b : b = failedPopup'.booking
    OBVIOUS
  <2>2. Failed(b)'
    <3>1. CASE failedPopup' = failedPopup
      <4>1. failedPopup # NoPopup
        BY <1>2, <3>1 DEF NoPopup
      <4>2. b \in Bookings /\ b \notin overwritten
        BY <1>2, <2>1, <3>1, <4>1, ClientAssumption DEF WizardTyped, Bookings
      <4>3. Failed(b)
        BY <1>2, <2>1, <3>1, <4>2 DEF PopupsAreTrue, Failed, Settled
      <4>. QED
        BY <4>2, <4>3
    <3>2. CASE failedPopup' = NoPopup
      BY <1>2, <3>2 DEF NoPopup
    <3>. QED
      BY <1>2, <2>1, <3>1, <3>2 DEF MovesPopups
  <2>. QED
    BY <1>2, <2>1, <2>2 DEF Failed, Settled
<1>. QED
  BY <1>1, <1>2 DEF PopupsAreTrue

-----------------------------------------------------------------------------
(***************************************************************************)
(* The bookings that the page can still pay.                               *)
(***************************************************************************)
Unpaid(b) == StatusIs(b, "PENDING_PAYMENT")

\* Handlers of "confirm" keep their booking, and no booking becomes payable.
ConfirmsKept == \A s \in Working({"confirm"}) : task'[s].kind = "confirm" /\ UNCHANGED task[s].booking

NoneUnpaid == \A b \in Bookings : Unpaid(b)' => Unpaid(b)

FlowKept == \A b \in Bookings : flow.booking = b /\ Unpaid(b)' => b \in abandoned' \/ flow'.booking = b

Kept ==
    \/ NoneUnpaid /\ FlowKept /\ ConfirmsKept /\ abandoned \subseteq abandoned'
    \/ \E b \in Bookings, t \in Tasks :
          /\ task[t].booking = 0 /\ task'[t].kind = "confirm" /\ task'[t].booking = b
          /\ \A c \in Bookings \ {b} : Unpaid(c)' => Unpaid(c)
          /\ \A s \in Tasks \ {t} : UNCHANGED task[s]
          /\ UNCHANGED <<flow, abandoned>>
    \/ \E t \in Tasks, gone \in SUBSET Bookings :
          /\ \A c \in Bookings \ gone : Unpaid(c)' => Unpaid(c)
          /\ \A s \in Tasks \ {t} : UNCHANGED task[s]
          /\ abandoned' = abandoned \cup InFlow \cup gone
          /\ task[t].booking \in gone \cup {0, flow'.booking}
    \/ NoneUnpaid /\ abandoned' = abandoned \cup InFlow \cup ({task[t].booking : t \in Tasks} \ {0})

LEMMA BookingsKeptPayable ==
    ASSUME TasksTyped, WizardKeepsItsBooking, Kept
    PROVE  WizardKeepsItsBooking'
<1>. SUFFICES ASSUME NEW b \in Bookings, Unpaid(b)', b \notin abandoned'
              PROVE  flow'.booking = b \/ \E t \in Tasks : task'[t].kind = "confirm" /\ task'[t].booking = b
  BY DEF WizardKeepsItsBooking, Unpaid, Working
<1>0. b # 0
  BY ClientAssumption DEF Bookings
<1>1. Unpaid(b) => \/ b \in abandoned \/ flow.booking = b
                  \/ \E t \in Tasks : task[t].kind = "confirm" /\ task[t].booking = b
  BY DEF WizardKeepsItsBooking, Unpaid, Working
<1>2. CASE NoneUnpaid /\ FlowKept /\ ConfirmsKept /\ abandoned \subseteq abandoned'
  BY <1>1, <1>2 DEF NoneUnpaid, FlowKept, ConfirmsKept, Working
<1>3. ASSUME NEW c \in Bookings, NEW t \in Tasks,
             task[t].booking = 0, task'[t].kind = "confirm", task'[t].booking = c,
             \A d \in Bookings \ {c} : Unpaid(d)' => Unpaid(d),
             \A s \in Tasks \ {t} : UNCHANGED task[s],
             UNCHANGED <<flow, abandoned>>
      PROVE  flow'.booking = b \/ \E s \in Tasks : task'[s].kind = "confirm" /\ task'[s].booking = b
  BY <1>0, <1>1, <1>3
<1>4. ASSUME NEW t \in Tasks, NEW gone \in SUBSET Bookings,
             \A c \in Bookings \ gone : Unpaid(c)' => Unpaid(c),
             \A s \in Tasks \ {t} : UNCHANGED task[s],
             abandoned' = abandoned \cup InFlow \cup gone,
             task[t].booking \in gone \cup {0, flow'.booking}
      PROVE  flow'.booking = b \/ \E s \in Tasks : task'[s].kind = "confirm" /\ task'[s].booking = b
  BY <1>0, <1>1, <1>4 DEF InFlow
<1>5. CASE NoneUnpaid /\ abandoned' = abandoned \cup InFlow \cup ({task[t].booking : t \in Tasks} \ {0})
  BY <1>0, <1>1, <1>5 DEF NoneUnpaid, InFlow
<1>. QED
  BY <1>2, <1>3, <1>4, <1>5 DEF Kept

LEMMA StatusesKept ==
    ASSUME BookingTyped,
           \/ UNCHANGED booking
           \/ \E b \in Bookings, x \in {"CONFIRMED", "FAILED", "CANCELLED"} : SetStatus(b, x)
    PROVE  NoneUnpaid
BY DEF BookingTyped, NoneUnpaid, Unpaid, StatusIs, SetStatus

LEMMA FlowIsKept ==
    ASSUME UNCHANGED flow \/ InFlow \subseteq abandoned'
    PROVE  FlowKept
BY ClientAssumption DEF FlowKept, InFlow, Bookings

\* Confirmations are kept by every step of another handler.
LEMMA OthersKept ==
    ASSUME TasksTyped, NEW t \in Tasks, task[t].kind # "confirm",
           \/ \E r : task' = [task EXCEPT ![t] = r]
           \/ \E kind, pc, b : Begin(t, kind, pc, b)
           \/ Finish(t)
           \/ \E kind : Concludes(t, kind)
    PROVE  ConfirmsKept
BY DEF TasksTyped, ConfirmsKept, Working, Begin, Finish, Concludes

LEMMA GoOnKept ==
    ASSUME TasksTyped, NEW t \in Tasks, NEW pc, GoOn(t, pc)
    PROVE  ConfirmsKept
<1>1. task'[t].kind = task[t].kind /\ task'[t].booking = task[t].booking
  BY RecordHolds DEF GoOn, TasksTyped, Task
<1>. QED
  BY <1>1 DEF GoOn, TasksTyped, ConfirmsKept, Working

LEMMA BeginKept ==
    ASSUME TasksTyped, NEW t \in Tasks, NEW kind, NEW pc, NEW b, Begin(t, kind, pc, b)
    PROVE  ConfirmsKept
<1>1. task[t].kind # "confirm"
  BY DEF Begin, NoTask
<1>. QED
  BY <1>1, OthersKept

LEMMA FailsKept ==
    ASSUME Typed, NEW t \in Tasks, NEW settled, ProceedFails(t, settled), task[t].kind \in {"proceed", "paid"},
           \/ UNCHANGED booking
           \/ \E b \in Bookings, x \in {"CONFIRMED", "FAILED", "CANCELLED"} : SetStatus(b, x)
    PROVE  Kept
<1>1. ConfirmsKept
  BY TypedIs, OthersKept DEF ProceedFails
<1>2. NoneUnpaid
  BY TypedIs, StatusesKept
<1>. QED
  BY <1>1, <1>2, FlowIsKept DEF ProceedFails, Kept

LEMMA CreateKept ==
    ASSUME Typed, NEW t \in Tasks, CreateBooking(t)
    PROVE  Kept
<1>1. PICK b \in Bookings :
         /\ booking' = [booking EXCEPT ![b] = [status |-> "PENDING_PAYMENT", owner |-> Caller(t)]]
         /\ task' = [task EXCEPT ![t].pc = "confirm", ![t].booking = b]
  BY DEF CreateBooking
<1>2. task[t] \in Task /\ task[t].booking = 0 /\ task[t].kind = "confirm"
  BY TypedIs, RecordHolds DEF CreateBooking, TaskHolds
<1>3. task'[t].kind = "confirm" /\ task'[t].booking = b /\ \A s \in Tasks \ {t} : UNCHANGED task[s]
  BY <1>1, <1>2, TypedIs DEF Task, TasksTyped
<1>4. \A c \in Bookings \ {b} : Unpaid(c)' => Unpaid(c)
  BY <1>1, TypedIs DEF BookingTyped, Unpaid, StatusIs
<1>. QED
  BY <1>2, <1>3, <1>4 DEF CreateBooking, Kept

LEMMA ConfirmedKept ==
    ASSUME Typed, NEW t \in Tasks, BookingConfirmed(t)
    PROVE  Kept
<1>1. NoneUnpaid
  BY TypedIs, StatusesKept DEF BookingConfirmed
<1>2. \A s \in Tasks \ {t} : UNCHANGED task[s]
  BY TypedIs DEF BookingConfirmed, Finish, TasksTyped
<1>3. PICK gone \in SUBSET Bookings : gone = {}
  OBVIOUS
<1>4. abandoned' = abandoned \cup InFlow \cup gone /\ task[t].booking \in gone \cup {0, flow'.booking}
  BY <1>3 DEF BookingConfirmed
<1>. QED
  BY <1>1, <1>2, <1>4 DEF Kept, NoneUnpaid

LEMMA ConfirmFailsKept ==
    ASSUME Typed, NEW t \in Tasks, ConfirmFails(t)
    PROVE  Kept
<1>1. PICK gone \in SUBSET Bookings : gone = {task[t].booking} \ {0}
  BY TypedIs, BookingOf
<1>2. NoneUnpaid
  BY TypedIs, StatusesKept DEF ConfirmFails
<1>3. \A s \in Tasks \ {t} : UNCHANGED task[s]
  BY TypedIs DEF ConfirmFails, Finish, TasksTyped
<1>4. abandoned' = abandoned \cup InFlow \cup gone /\ task[t].booking \in gone \cup {0, flow'.booking}
  BY <1>1 DEF ConfirmFails
<1>. QED
  BY <1>2, <1>3, <1>4 DEF Kept, NoneUnpaid

LEMMA WizardStepKept ==
    ASSUME Typed, NEW t \in Tasks, WizardStep(t)
    PROVE  Kept
<1>1. TasksTyped /\ BookingTyped /\ TaskHolds(t) /\ task[t] \in Task
  BY TypedIs, RecordHolds
<1>2. CASE ConfirmRefused(t)
  BY <1>2, ConfirmFailsKept DEF ConfirmRefused
<1>4. CASE ProceedUnpaid(t) \/ ProceedRefused(t) \/ PollsExhausted(t) \/ PollRefused(t) \/ PaidLoadRefused(t)
  BY <1>4, FailsKept DEF ProceedUnpaid, ProceedRefused, PollsExhausted, PollRefused, PaidLoadRefused, Asking, Polling
<1>5. CASE ProceedAccepted(t)
  <2>1. NoneUnpaid /\ FlowKept /\ ConfirmsKept
    BY <1>1, <1>5, StatusesKept, FlowIsKept, GoOnKept DEF ProceedAccepted
  <2>. QED
    BY <1>5, <2>1 DEF ProceedAccepted, Kept
<1>6. CASE Poll(t)
  <2>1. CASE Concludes(t, "paid") /\ UNCHANGED <<flow, abandoned>>
    <3>1. NoneUnpaid /\ FlowKept /\ ConfirmsKept
      BY <1>1, <1>6, <2>1, StatusesKept, FlowIsKept, OthersKept DEF Poll, Polling
    <3>. QED
      BY <2>1, <3>1 DEF Kept
  <2>2. CASE ProceedFails(t, TRUE)
    BY <1>6, <2>2, FailsKept DEF Poll, Polling
  <2>. QED
    BY <1>6, <2>1, <2>2 DEF Poll
<1>7. CASE PaidLoads(t)
  <2>1. PICK b : b = task[t].booking
    OBVIOUS
  <2>2. NoneUnpaid /\ ConfirmsKept
    BY <1>1, <1>7, StatusesKept, OthersKept DEF PaidLoads
  <2>3. ~Unpaid(b)'
    BY <1>1, <1>7, <2>1 DEF PaidLoads, TaskHolds, PaidFor, Settled, Unpaid, StatusIs
  <2>4. FlowKept
    BY <1>7, <2>1, <2>3, ClientAssumption DEF PaidLoads, FlowKept, InFlow, Bookings
  <2>. QED
    BY <1>7, <2>2, <2>4 DEF PaidLoads, Kept
<1>8. CASE UnpaidLoads(t) \/ PopupCancelLoads(t)
  <2>1. NoneUnpaid /\ ConfirmsKept
    BY <1>1, <1>8, StatusesKept, OthersKept DEF UnpaidLoads, PopupCancelLoads, wizardVars
  <2>2. FlowKept /\ abandoned \subseteq abandoned'
    BY <1>8, FlowIsKept DEF UnpaidLoads, PopupCancelLoads, wizardVars
  <2>. QED
    BY <2>1, <2>2 DEF Kept
<1>9. CASE Cancelled(t)
  <2>1. NoneUnpaid
    BY <1>1, <1>9, StatusesKept, BookingOf DEF Cancelled, TaskHolds
  <2>2. FlowKept /\ ConfirmsKept
    BY <1>1, <1>9, FlowIsKept, GoOnKept DEF Cancelled
  <2>. QED
    BY <1>9, <2>1, <2>2 DEF Cancelled, Kept
<1>11. CASE CancelDecided(t)
  <2>1. NoneUnpaid /\ FlowKept /\ ConfirmsKept
    BY <1>1, <1>11, StatusesKept, FlowIsKept, GoOnKept DEF CancelDecided, wizardVars
  <2>. QED
    BY <1>11, <2>1 DEF CancelDecided, Kept, wizardVars
<1>10. CASE CancelRefused(t)
  <2>1. NoneUnpaid /\ ConfirmsKept /\ FlowKept
    BY <1>1, <1>10, StatusesKept, FlowIsKept, OthersKept DEF CancelRefused, TaskHolds, wizardVars
  <2>. QED
    BY <1>10, <2>1 DEF CancelRefused, Kept, wizardVars
<1>. QED
  BY <1>2, <1>4, <1>5, <1>6, <1>7, <1>8, <1>9, <1>10, <1>11, CreateKept, ConfirmedKept DEF WizardStep

LEMMA HandlerStepKept ==
    ASSUME Typed, NEW t \in Tasks, HandlerStep(t)
    PROVE  Kept
<1>1. TasksTyped /\ BookingTyped
  BY TypedIs
<1>2. CASE SessionStep(t) /\ task[t].kind \in SessionKinds /\ UNCHANGED wizardVars
  <2>1. task[t].kind # "confirm"
    BY <1>2 DEF SessionKinds
  <2>2. ConfirmsKept
    BY <1>1, <1>2, <2>1, OthersKept
    DEF SessionStep, SignIn, AuthRefused, LoadOnSignIn, ProfileSaved, ToppedUp, InventoryManaged
  <2>3. NoneUnpaid /\ FlowKept
    BY <1>1, <1>2, StatusesKept, FlowIsKept DEF wizardVars
  <2>. QED
    BY <1>2, <2>2, <2>3 DEF Kept, wizardVars
<1>3. CASE LoadProfile(t) /\ UNCHANGED wizardVars
  <2>1. task'[t].kind = task[t].kind /\ task'[t].booking = task[t].booking
    BY <1>1, <1>3, RecordHolds DEF LoadProfile, TasksTyped, Task
  <2>2. ConfirmsKept
    BY <1>1, <1>3, <2>1 DEF LoadProfile, TasksTyped, ConfirmsKept, Working
  <2>3. NoneUnpaid /\ FlowKept
    BY <1>1, <1>3, StatusesKept, FlowIsKept DEF wizardVars
  <2>. QED
    BY <1>3, <2>2, <2>3 DEF Kept, wizardVars
<1>. QED
  BY <1>2, <1>3, WizardStepKept DEF HandlerStep

LEMMA NextKept == Typed /\ [Next]_vars => Kept
<1>. SUFFICES ASSUME Typed, [Next]_vars PROVE Kept
  OBVIOUS
<1>1. TasksTyped /\ BookingTyped /\ WizardTyped
  BY TypedIs
<1>2. CASE UNCHANGED task /\ UNCHANGED wizardVars
  <2>1. NoneUnpaid /\ FlowKept /\ ConfirmsKept
    BY <1>1, <1>2, StatusesKept, FlowIsKept DEF wizardVars, ConfirmsKept, Working
  <2>. QED
    BY <1>2, <2>1 DEF Kept, wizardVars
<1>3. ASSUME NEW t \in Tasks, NEW kind, NEW pc, NEW b, Begin(t, kind, pc, b), UNCHANGED <<booking, flow, abandoned>>
      PROVE  Kept
  <2>1. NoneUnpaid /\ FlowKept /\ ConfirmsKept
    BY <1>1, <1>3, StatusesKept, FlowIsKept, BeginKept
  <2>. QED
    BY <1>3, <2>1 DEF Kept
<1>4. CASE Press
  <2>1. CASE StartBookingFlow \/ CancelFlow \/ CloseConfirmed \/ TopUpInstead \/ TryAgain
    <3>1. NoneUnpaid /\ ConfirmsKept /\ abandoned \subseteq abandoned'
      BY <1>1, <2>1, StatusesKept
      DEF StartBookingFlow, CancelFlow, CloseConfirmed, TopUpInstead, TryAgain, ConfirmsKept, Working, sessionVars
    <3>2. CASE CancelFlow
      <4>1. InFlow = {}
        BY <1>1, <3>2 DEF CancelFlow, InFlow, WizardTyped
      <4>. QED
        BY <3>1, <4>1, FlowIsKept DEF Kept
    <3>3. CASE ~CancelFlow
      BY <2>1, <3>1, <3>3, FlowIsKept DEF StartBookingFlow, CloseConfirmed, TopUpInstead, TryAgain, Kept
    <3>. QED
      BY <3>2, <3>3
  <2>2. ASSUME NEW t \in Tasks, (SessionClick(t) /\ UNCHANGED wizardVars) \/ WizardClick(t) \/ PopupCancel(t)
        PROVE  Kept
    BY <1>3, <2>2
    DEF SessionClick, SubmitAuth, SaveProfile, TopUp, CreateInventory, Click, WizardClick, ConfirmBookingStep,
        ProceedPaymentStep, CancelBooking, PopupCancel, wizardVars
  <2>. QED
    BY <1>2, <1>4, <2>1, <2>2 DEF Press, PopupButton, Logout
<1>5. ASSUME NEW t \in Tasks, Unreachable(t) PROVE Kept
  <2>1. CASE Finish(t) /\ UNCHANGED wizardVars /\ task[t].kind # "confirm"
    <3>1. NoneUnpaid /\ FlowKept /\ ConfirmsKept
      BY <1>1, <2>1, StatusesKept, FlowIsKept, OthersKept DEF wizardVars
    <3>. QED
      BY <2>1, <3>1 DEF Kept, wizardVars
  <2>. QED
    BY <1>5, <2>1, ConfirmFailsKept, FailsKept DEF Unreachable
<1>6. ASSUME NEW t \in Tasks, AnswerLost(t) PROVE Kept
  <2>1. CASE Asking(t) /\ Concludes(t, "unpaid") /\ UNCHANGED <<booking, flow, abandoned>>
    <3>1. NoneUnpaid /\ FlowKept /\ ConfirmsKept
      BY <1>1, <2>1, StatusesKept, FlowIsKept, OthersKept DEF Asking
    <3>. QED
      BY <2>1, <3>1 DEF Kept
  <2>2. ASSUME NEW b \in Bookings, task[t].pc = "create", Finish(t),
               booking' = [booking EXCEPT ![b] = [status |-> "PENDING_PAYMENT", owner |-> Caller(t)]],
               abandoned' = abandoned \cup InFlow \cup {b}
        PROVE  Kept
    <3>1. PICK gone \in SUBSET Bookings : gone = {b}
      OBVIOUS
    <3>2. \A c \in Bookings \ gone : Unpaid(c)' => Unpaid(c)
      BY <1>1, <2>2, <3>1 DEF BookingTyped, Unpaid, StatusIs
    <3>3. task[t].booking = 0 /\ \A s \in Tasks \ {t} : UNCHANGED task[s]
      BY <1>1, <2>2, RecordHolds DEF TaskHolds, Finish, TasksTyped
    <3>. QED
      BY <2>2, <3>1, <3>2, <3>3 DEF Kept
  <2>. QED
    BY <1>6, <2>1, <2>2 DEF AnswerLost
<1>7. CASE ReloadPage
  BY <1>1, <1>7, StatusesKept DEF ReloadPage, Kept
<1>8. ASSUME NEW t \in Tasks, EditBehind(t) PROVE Kept
  BY <1>3, <1>8 DEF EditBehind, ManageInventory, wizardVars
<1>9. ASSUME NEW x, ExpireToken(x) PROVE Kept
  <2>1. ConfirmsKept
    BY <1>1, <1>9, RecordHolds DEF ExpireToken, ConfirmsKept, Working, Task
  <2>2. NoneUnpaid /\ FlowKept
    BY <1>1, <1>9, StatusesKept, FlowIsKept DEF ExpireToken, wizardVars
  <2>. QED
    BY <1>9, <2>1, <2>2 DEF ExpireToken, Kept, wizardVars
<1>10. ASSUME NEW e \in outcomes, SettlePayment(e) PROVE Kept
  <2>1. NoneUnpaid /\ FlowKept /\ ConfirmsKept
    BY <1>1, <1>10, StatusesKept, FlowIsKept
    DEF SettlePayment, WizardTyped, Outcomes, ConfirmsKept, Working, sessionVars
  <2>. QED
    BY <1>10, <2>1 DEF SettlePayment, Kept
<1>. QED
  BY <1>2, <1>4, <1>5, <1>6, <1>7, <1>8, <1>9, <1>10, HandlerStepKept DEF Next, ChangeRole, vars, sessionVars

-----------------------------------------------------------------------------
(***************************************************************************)
(* The theorems.                                                           *)
(***************************************************************************)
\* Only an operator changes a role.
LEMMA NextMovesRole ==
    ASSUME [Next]_vars
    PROVE  UNCHANGED role \/ \E g \in Guests, r \in NewRoles : ChangeRole(g, r)
<1>1. ASSUME NEW t \in Tasks, HandlerStep(t) PROVE UNCHANGED role
  BY <1>1
  DEF HandlerStep, SessionStep, SignIn, AuthRefused, LoadOnSignIn, ProfileSaved, ToppedUp, InventoryManaged,
      LoadProfile, WizardStep, CreateBooking, BookingConfirmed, ConfirmRefused, ConfirmFails,
      ProceedAccepted, ProceedUnpaid, ProceedRefused, ProceedFails, Concludes, Poll, PollsExhausted,
      PollRefused, PaidLoads, PaidLoadRefused, UnpaidLoads, CancelDecided, Cancelled, CancelRefused,
      PopupCancelLoads
<1>2. CASE Press
  BY <1>2
  DEF Press, Logout, StartBookingFlow, CancelFlow, SessionClick, SubmitAuth, SaveProfile, TopUp,
      CreateInventory, Click, WizardClick, ConfirmBookingStep, ProceedPaymentStep, CancelBooking,
      PopupButton, CloseConfirmed, TopUpInstead, TryAgain, PopupCancel, sessionVars
<1>3. ASSUME NEW t \in Tasks, AnswerLost(t) \/ Unreachable(t) \/ EditBehind(t) PROVE UNCHANGED role
  BY <1>3
  DEF AnswerLost, Unreachable, ConfirmFails, ProceedFails, Concludes, EditBehind, ManageInventory
<1>. QED
  BY <1>1, <1>2, <1>3 DEF Next, ExpireToken, ReloadPage, SettlePayment, vars, sessionVars

LEMMA InitInv == Init => Inv
<1>. SUFFICES ASSUME Init PROVE Inv
  OBVIOUS
<1>1. SessionTyped
  BY ClientAssumption DEF Init, SessionInit, SessionTyped, Tokens
<1>2. TasksTyped
  BY NoTaskTyped DEF Init, SessionInit, TasksTyped, TaskHolds, NoTask
<1>3. BookingTyped /\ WizardTyped
  BY ClientAssumption DEF Init, WizardInit, BookingTyped, WizardTyped, Statuses, Idle, NoPopup
<1>4. ShownUserIsSignedIn /\ PopupsAreTrue
  BY DEF Init, SessionInit, WizardInit, ShownUserIsSignedIn, PopupsAreTrue, NoPopup
<1>5. FlagHolds
  BY DEF Init, SessionInit, FlagHolds, Working, Guarded, LoadingKinds, NoTask
<1>6. WizardKeepsItsBooking
  BY DEF Init, WizardInit, WizardKeepsItsBooking, StatusIs
<1>. QED
  BY <1>1, <1>2, <1>3, <1>4, <1>5, <1>6, TypedIs DEF Inv

LEMMA NextInv == Inv /\ [Next]_vars => Inv'
<1>. SUFFICES ASSUME Inv, [Next]_vars PROVE Inv'
  OBVIOUS
<1>1. Typed /\ SessionTyped /\ TasksTyped /\ BookingTyped /\ WizardTyped
  BY TypedIs DEF Inv
<1>2. MovesBooking /\ MovesPage /\ MovesFlag /\ MovesWizard /\ Kept /\ TasksTyped'
  BY <1>1, NextMovesBooking, NextMovesPage, NextMovesFlag, NextMovesWizard, NextKept, NextTasksTyped
<1>3. role' \in [Guests -> Roles]
  <2>1. CASE UNCHANGED role
    BY <1>1, <2>1 DEF SessionTyped
  <2>2. ASSUME NEW g \in Guests, NEW r \in NewRoles, ChangeRole(g, r) PROVE role' \in [Guests -> Roles]
    BY <1>1, <2>2, RolesAssumption DEF ChangeRole, SessionTyped
  <2>. QED
    BY <2>1, <2>2, NextMovesRole
<1>4. SessionTyped' /\ ShownUserIsSignedIn' /\ FlagHolds'
  BY <1>1, <1>2, <1>3, PageKept, FlagKept DEF SessionTyped, Inv
<1>5. BookingTyped' /\ WizardTyped' /\ PopupsAreTrue'
  BY <1>1, <1>2, BookingsKept, WizardTypedKept, PopupsKept DEF MovesWizard, MovesBooking, Inv
<1>6. WizardKeepsItsBooking'
  BY <1>1, <1>2, BookingsKeptPayable DEF Inv
<1>7. Typed'
  BY <1>2, <1>4, <1>5 DEF Typed, TypeOK, SessionTyped, TasksTyped, Task, BookingTyped, WizardTyped, Outcomes
<1>. QED
  BY <1>4, <1>5, <1>6, <1>7 DEF Inv

\* The invariant of the client.
THEOREM AlwaysInv == Spec => []Inv
BY InitInv, NextInv, PTL DEF Spec

\* Type correctness of the page, its handlers and what it knows of the services.
THEOREM TypeCorrect == Spec => []TypeOK
<1>1. Inv => TypeOK
  BY DEF Inv, Typed
<1>. QED
  BY <1>1, AlwaysInv, PTL

\* The user shown is the one signed in, except after a handler of an earlier session.
THEOREM PageShowsItsUser == Spec => []ShownUserIsSignedIn
<1>1. Inv => ShownUserIsSignedIn
  BY DEF Inv
<1>. QED
  BY <1>1, AlwaysInv, PTL

\* A popup gives the status of its booking for as long as it is open, unless an outcome is
\* written over another one.
THEOREM PopupsTellTheTruth == Spec => []PopupsAreTrue
<1>1. Inv => PopupsAreTrue
  BY DEF Inv
<1>. QED
  BY <1>1, AlwaysInv, PTL

\* An unpaid booking stays payable from the wizard, unless it was abandoned.
THEOREM UnpaidBookingsStay == Spec => []WizardKeepsItsBooking
<1>1. Inv => WizardKeepsItsBooking
  BY DEF Inv
<1>. QED
  BY <1>1, AlwaysInv, PTL

\* Two handlers of disabled buttons run together only after a finally block that cleared
\* the flag for another handler.
THEOREM HandlersTakeTurns == Spec => []OneGuardedHandler
<1>1. Inv => OneGuardedHandler
  <2>. SUFFICES ASSUME Inv, ~unlocked PROVE Cardinality(Working(Guarded)) <= 1
    BY DEF OneGuardedHandler, Guarded
  <2>1. CASE Working(Guarded) = {}
    BY <2>1, FS_EmptySet
  <2>2. CASE Working(Guarded) # {}
    <3>1. PICK t \in Working(Guarded) : Working(Guarded) = {t}
      BY <2>2 DEF Inv, FlagHolds
    <3>2. Cardinality({t}) = 1
      BY FS_Singleton
    <3>. QED
      BY <3>1, <3>2
  <2>. QED
    BY <2>1, <2>2
<1>. QED
  BY <1>1, AlwaysInv, PTL

\* The buttons are disabled only while some handler is in flight whose finally block will
\* enable them: nothing is left to clear a flag that nobody owns.
THEOREM DisabledButtonsHaveAHandler == Spec => [](loading => Working(LoadingKinds) # {})
<1>1. Inv => (loading => Working(LoadingKinds) # {})
  BY DEF Inv, FlagHolds
<1>. QED
  BY <1>1, AlwaysInv, PTL

\* The gateway refuses the bookings of a load only when the role in the token is out of date.
THEOREM RefusalsMeanNewRoles == Spec => []ForbiddenOnlyAfterRoleChange
<1>1. Inv => ForbiddenOnlyAfterRoleChange
  <2>. SUFFICES ASSUME Inv, NEW t \in Tasks, LoadForbidden(t), task[t].profile.role = task[t].session.role
                PROVE  FALSE
    BY DEF ForbiddenOnlyAfterRoleChange
  <2>1. TasksTyped /\ Live(t) /\ TaskHolds(t)
    BY TypedIs, RecordHolds DEF Inv, LoadForbidden
  <2>2. task[t].session.role \in Roles
    BY <2>1, LiveCaller
  <2>. QED
    BY <2>2 DEF LoadForbidden, LoadBookingsForRole, BookingsApi, Admits, ApiRoles, InventoryRoles, Roles
<1>. QED
  BY <1>1, AlwaysInv, PTL
=============================================================================
