---------------------------- MODULE ClientSession ----------------------------
(***************************************************************************)
(* The session of the web client (App in main.jsx): the token and the user *)
(* of the page, and the handlers in flight.  A handler is a task: it keeps *)
(* the token of the page it was started from (domainApi closes over it),   *)
(* goes on over awaits, and sets the state of whatever page it finds at    *)
(* the end.  localStorage is written together with the state everywhere    *)
(* and needs no variable.  Navigation, lists and forms are left out.       *)
(***************************************************************************)
EXTENDS Rbac, Naturals, FiniteSets

CONSTANTS
    Guests,         \* accounts
    FirstRole,      \* [Guests -> Roles]
    MaxTasks,       \* bound: handlers in flight at the same time
    MaxBookings,    \* bound: bookings created
    Nobody

\* What GET /api/users/me answers with.
Profiles == [id : Guests, role : Roles]

ASSUME ClientAssumption ==
    /\ FirstRole \in [Guests -> Roles]
    /\ Nobody \notin Guests /\ Nobody \notin Profiles
    /\ MaxTasks \in Nat /\ MaxBookings \in Nat

VARIABLES
    role,       \* [Guests -> Roles], the accounts as the services have them
    token,      \* of the page, [user, role, live] or NoToken; tokens with the same
                \* content are not told apart
    user,       \* the user of the page, [id, role] or Nobody
    loading,    \* the flag that disables the buttons of guarded handlers
    task,       \* [Tasks -> [kind, pc, session, booking, profile]]
    strayed,    \* history: a handler of an earlier session set the user
    unlocked    \* history: loading was cleared under a running handler

sessionVars == <<role, token, user, loading, task, strayed, unlocked>>

Tasks == 1..MaxTasks

\* Handlers that set loading and clear it in their finally block.
LoadingKinds == {"auth", "topUp", "confirm", "proceed", "paid", "unpaid", "cancel", "inventory"}

SessionKinds == {"auth", "load", "save", "topUp", "inventory"}

WizardKinds == {"confirm", "proceed", "paid", "unpaid", "cancel", "popupCancel"}

NoToken == [user |-> Nobody, role |-> "USER", live |-> FALSE]

NoTask == [kind |-> "none", pc |-> "idle", session |-> NoToken, booking |-> 0, profile |-> Nobody]

Working(kinds) == {t \in Tasks : task[t].kind \in kinds}

Live(t) == task[t].session.live

Caller(t) == task[t].session.user

\* The answer of GET or PATCH /api/users/me.
Profile(g) == [id |-> g, role |-> role[g]]

SessionInit ==
    /\ role = FirstRole
    /\ token = NoToken /\ user = Nobody
    /\ loading = FALSE
    /\ task = [t \in Tasks |-> NoTask]
    /\ strayed = FALSE /\ unlocked = FALSE

-----------------------------------------------------------------------------
Begin(t, kind, pc, b) ==
    /\ task[t] = NoTask
    /\ \A s \in 1..(t - 1) : task[s] # NoTask
    /\ task' = [task EXCEPT ![t] = [kind |-> kind, pc |-> pc, session |-> token,
                                    booking |-> b, profile |-> Nobody]]

\* A button that is disabled while loading.
Click(t, kind, pc, b) ==
    /\ ~loading
    /\ loading' = TRUE
    /\ Begin(t, kind, pc, b)
    /\ UNCHANGED <<role, token, user, strayed, unlocked>>

GoOn(t, pc) == task' = [task EXCEPT ![t].pc = pc]

\* The handler ends; finally clears the flag whoever else has set it.
Finish(t) ==
    LET others == Working(LoadingKinds) \ {t}
        ends == task[t].kind \in LoadingKinds
    IN  /\ task' = [task EXCEPT ![t] = NoTask]
        /\ loading' = (loading /\ ~ends)
        /\ unlocked' = (others # {} /\ (unlocked \/ ends))

\* setUser by a handler.
ShowUser(t, profile) ==
    /\ user' = profile
    /\ strayed' = (task[t].session # token)

-----------------------------------------------------------------------------
(***************************************************************************)
(* Signing in and out.                                                     *)
(***************************************************************************)
SubmitAuth(t) == token = NoToken /\ Click(t, "auth", "sent", 0)

\* The answer of login or signup, and the effect on the new token: loadPrivateData.
SignIn(t, g) ==
    /\ task[t].kind = "auth"
    /\ token' = [user |-> g, role |-> role[g], live |-> TRUE]
    /\ user' = Profile(g)
    /\ strayed' = FALSE
    /\ task' = [task EXCEPT ![t] = [NoTask EXCEPT !.kind = "load", !.pc = "profile", !.session = token']]
    /\ loading' = FALSE
    /\ unlocked' = (Working(LoadingKinds) # {t})
    /\ UNCHANGED role

\* Wrong password, blocked, or an address that is taken.
AuthRefused(t) ==
    /\ task[t].kind = "auth"
    /\ Finish(t)
    /\ UNCHANGED <<role, token, user, strayed>>

\* Mutant of Logout: the user stays.
LogoutKeepsUser ==
    /\ user # Nobody
    /\ token' = NoToken
    /\ strayed' = FALSE
    /\ UNCHANGED <<role, user, loading, task, unlocked>>

\* Offered as long as a user is shown.  Handlers in flight go on.
Logout ==
    /\ user # Nobody
    /\ token' = NoToken /\ user' = Nobody
    /\ strayed' = FALSE
    /\ UNCHANGED <<role, loading, task, unlocked>>

-----------------------------------------------------------------------------
(***************************************************************************)
(* loadPrivateData: the profile, wallet and transactions together, then    *)
(* the bookings from the API of the role that the profile shows.           *)
(***************************************************************************)
BookingsApi(r) ==
    CASE r = "SUPERADMIN" -> "superadmin"
      [] r = "ADMIN" -> "admin"
      [] OTHER -> "bookings"

\* Mutant of LoadBookingsForRole: by the role of the user on the page.
LoadBookingsForShownRole(t) == IF user = Nobody THEN "bookings" ELSE BookingsApi(user.role)

LoadBookingsForRole(t) == BookingsApi(task[t].profile.role)

LoadProfile(t) ==
    /\ task[t].pc = "profile"
    /\ Live(t)
    /\ task' = [task EXCEPT ![t].pc = "bookings", ![t].profile = Profile(Caller(t))]
    /\ UNCHANGED <<role, token, user, loading, strayed, unlocked>>

\* The bookings arrive: loadPrivateData sets the page.
Loads(t) ==
    /\ task[t].pc = "bookings"
    /\ Live(t)
    /\ Admits(LoadBookingsForRole(t), task[t].session.role)
    /\ ShowUser(t, task[t].profile)

\* 403 of the gateway.
LoadForbidden(t) ==
    /\ task[t].pc = "bookings"
    /\ Live(t)
    /\ ~Admits(LoadBookingsForRole(t), task[t].session.role)

\* 401 for a token that is too old.
LoadUnauthorized(t) == task[t].pc \in {"profile", "bookings"} /\ ~Live(t)

\* The load after a sign-in, whose effect ends the session of the page on a 401
\* and leaves other errors to the notice.
LoadOnSignIn(t) ==
    /\ task[t].kind = "load"
    /\ \/ Loads(t) /\ UNCHANGED token
       \/ LoadForbidden(t) /\ UNCHANGED <<token, user, strayed>>
       \/ LoadUnauthorized(t) /\ token' = NoToken /\ user' = Nobody /\ strayed' = FALSE
    /\ Finish(t)
    /\ UNCHANGED role

-----------------------------------------------------------------------------
(***************************************************************************)
(* saveProfile, topUp, and the inventory handlers of the managers.         *)
(***************************************************************************)
SaveProfile(t) ==
    /\ token # NoToken /\ Working({"save"}) = {}
    /\ Begin(t, "save", "sent", 0)
    /\ UNCHANGED <<role, token, user, loading, strayed, unlocked>>

ProfileSaved(t) ==
    /\ task[t].kind = "save"
    /\ IF Live(t) THEN ShowUser(t, Profile(Caller(t))) ELSE UNCHANGED <<user, strayed>>
    /\ Finish(t)
    /\ UNCHANGED <<role, token>>

TopUp(t) == token # NoToken /\ Click(t, "topUp", "profile", 0)

\* The load of topUp; its errors end in the notice.
ToppedUp(t) ==
    /\ task[t].kind = "topUp"
    /\ \/ Loads(t)
       \/ (LoadForbidden(t) \/ LoadUnauthorized(t)) /\ UNCHANGED <<user, strayed>>
    /\ Finish(t)
    /\ UNCHANGED <<role, token>>

\* createHotel, createRoom, setHotelActive and setRoomActive: their buttons are
\* disabled while loading.
CreateInventory(t) ==
    /\ token # NoToken /\ user # Nobody /\ user.role \in InventoryRoles
    /\ Click(t, "inventory", "sent", 0)

\* saveHotelEdit, removeHotel, saveRoomEdit and removeRoom: their buttons do not
\* look at loading, their handlers set and clear it.
ManageInventory(t) ==
    /\ token # NoToken /\ user # Nobody /\ user.role \in InventoryRoles
    /\ loading' = TRUE
    /\ Begin(t, "inventory", "sent", 0)
    /\ UNCHANGED <<role, token, user, strayed, unlocked>>

InventoryManaged(t) ==
    /\ task[t].kind = "inventory"
    /\ Finish(t)
    /\ UNCHANGED <<role, token, user, strayed>>

SessionStep(t) ==
    \/ \E g \in Guests : SignIn(t, g)
    \/ AuthRefused(t) \/ LoadOnSignIn(t)
    \/ ProfileSaved(t) \/ ToppedUp(t) \/ InventoryManaged(t)

SessionClick(t) == SubmitAuth(t) \/ SaveProfile(t) \/ TopUp(t) \/ CreateInventory(t)
=============================================================================
