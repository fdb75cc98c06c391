--------------------------- MODULE AccountService ---------------------------
(***************************************************************************)
(* auth-service and the user administration of admin-service over one      *)
(* collection of users, with devices that sign in and refresh their        *)
(* tokens.  A token carries what was read when it was issued and is        *)
(* checked by its signature and age only.                                  *)
(***************************************************************************)
EXTENDS Accounts

CONSTANTS
    Devices,
    MaxFaults,      \* bound: failing calls and dying processes
    MaxRepairs      \* bound: runs of unblock-user.mjs

ASSUME AccountServiceAssumption == MaxFaults \in Nat /\ MaxRepairs \in Nat

VARIABLES
    device,     \* [Devices -> [pc, user, read, access, refresh]]
    boot,       \* [DevUsers -> point of ensureDevUsersActive]
    faults, repairs

vars == <<accountVars, device, boot, faults, repairs>>

\* auth-service answers requests only after its bootstrap.
Booted == \A u \in DevUsers : boot[u] = "done"

-----------------------------------------------------------------------------
(***************************************************************************)
(* Devices.  Signing in and refreshing read the user and answer after the  *)
(* awaits in between; both tokens are issued together.                     *)
(***************************************************************************)
SignedOut == [pc |-> "idle", user |-> Absent, read |-> Absent,
              access |-> FALSE, refresh |-> FALSE]

ReadForLogin(d, u) ==
    /\ device[d].pc = "idle"
    /\ ~device[d].access /\ ~device[d].refresh
    /\ Booted /\ Present(u)
    /\ device' = [device EXCEPT ![d] = [SignedOut EXCEPT !.pc = "issue", !.user = u, !.read = account[u]]]

\* verifyRefreshToken, and the user of the address the token names.
ReadForRefresh(d) ==
    /\ device[d].pc = "idle"
    /\ Booted /\ device[d].refresh
    /\ device' = [device EXCEPT ![d].pc = "issue", ![d].read = account[device[d].user]]

\* Mutant of Issue: the status is not looked at.
IssueUnchecked(d) ==
    /\ device[d].pc = "issue"
    /\ device' = [device EXCEPT ![d] = [@ EXCEPT !.pc = "idle", !.read = Absent,
                                                !.access = TRUE, !.refresh = TRUE]]

\* signToken and signRefreshToken, or ACCOUNT_BLOCKED.
Issue(d) ==
    /\ device[d].pc = "issue"
    /\ device' = [device EXCEPT ![d] =
          IF NormalizeStatus(@.read.status) = "ACTIVE"
          THEN [@ EXCEPT !.pc = "idle", !.read = Absent, !.access = TRUE, !.refresh = TRUE]
          ELSE IF @.refresh THEN [@ EXCEPT !.pc = "idle", !.read = Absent] ELSE SignedOut]

AccessExpires(d) == device[d].access /\ device' = [device EXCEPT ![d].access = FALSE]

RefreshExpires(d) ==
    /\ device[d].refresh /\ ~device[d].access
    /\ device' = [device EXCEPT ![d] = IF @.pc = "idle" THEN SignedOut ELSE [@ EXCEPT !.refresh = FALSE]]

DeviceStep(d) ==
    /\ \/ \E u \in Users : ReadForLogin(d, u)
       \/ ReadForRefresh(d) \/ Issue(d) \/ AccessExpires(d) \/ RefreshExpires(d)
    /\ UNCHANGED <<accountVars, boot, faults, repairs>>

-----------------------------------------------------------------------------
(***************************************************************************)
(* ensureDevUsersActive when auth-service starts.  migrateLegacyUserEnums  *)
(* before it changes nothing: normalizeRole is a setter of the field, so   *)
(* Mongoose applies it to the filter as well and the filter matches        *)
(* canonical values only.  A production start skips all of it.             *)
(***************************************************************************)
BootFind(u) ==
    /\ boot[u] = "find"
    /\ boot' = [boot EXCEPT ![u] = IF ByEmail(EmailOf[u]) = {} THEN "create" ELSE "patch"]
    /\ UNCHANGED <<accountVars, device>>

\* The start fails when somebody else has taken the address.
BootCreate(u) ==
    /\ boot[u] = "create"
    /\ \/ /\ CreateUser(u, DevRole[u])
          /\ boot' = [boot EXCEPT ![u] = "done"]
       \/ /\ ByEmail(EmailOf[u]) # {}
          /\ boot' = [boot EXCEPT ![u] = "failed"]
          /\ UNCHANGED account
    /\ UNCHANGED <<registration, op, trail, muddled, script, device>>

\* updateOne with the role and ACTIVE on the document found, which the address
\* still leads to, whatever was read.
BootPatch(u) ==
    /\ boot[u] = "patch"
    /\ boot' = [boot EXCEPT ![u] = "done"]
    /\ account' = [v \in Users |-> IF v \in ByEmail(EmailOf[u])
                                   THEN [role |-> DevRole[u], status |-> "ACTIVE"] ELSE account[v]]
    /\ Muddle(ByEmail(EmailOf[u]))
    /\ UNCHANGED <<registration, op, script, device>>

Boot == /\ \E u \in DevUsers : BootFind(u) \/ BootCreate(u) \/ BootPatch(u)
        /\ UNCHANGED <<faults, repairs>>

-----------------------------------------------------------------------------
Init ==
    /\ account \in [Users -> {Absent} \cup [role : {"owner"}, status : {"ACTIVE", "blocked"}]]
    /\ \A u \in Registrants : ~Present(u)
    /\ \A u, v \in Users : Present(u) /\ Present(v) /\ EmailOf[u] = EmailOf[v] => u = v
    /\ AccountsInit
    /\ device \in [Devices -> {SignedOut} \cup
          {[SignedOut EXCEPT !.user = u, !.access = TRUE, !.refresh = TRUE] :
              u \in {v \in Users : Present(v)}}]
    /\ boot \in {[u \in DevUsers |-> p] : p \in {"find", "done"}}
    /\ faults = 0 /\ repairs = 0

\* A request to auth-service is a signup, one to admin-service an admin's account.
Serve ==
    /\ \/ \E u \in Registrants : Registering(u) /\ (Booted \/ registration'[u].api = "admin")
       \/ \E o \in Ops : Administer(o)
    /\ UNCHANGED <<device, boot, faults, repairs>>

Disturb ==
    /\ faults < MaxFaults /\ faults' = faults + 1
    /\ \/ \E o \in Ops : OpFails(o)
       \/ \E u \in Registrants : RegistrationFails(u)
    /\ UNCHANGED <<device, boot, repairs>>

RepairStep ==
    /\ \/ /\ repairs < MaxRepairs /\ repairs' = repairs + 1
          /\ RunScript
       \/ UnblockFound /\ UNCHANGED repairs
    /\ UNCHANGED <<device, boot, faults>>

Next ==
    \/ Serve \/ Disturb \/ RepairStep \/ Boot
    \/ \E d \in Devices : DeviceStep(d)

\* Time passes for tokens, and a request that was received is answered.
Fairness ==
    \A d \in Devices :
        /\ WF_vars(AccessExpires(d) /\ DeviceStep(d))
        /\ WF_vars(RefreshExpires(d) /\ DeviceStep(d))
        /\ WF_vars(Issue(d) /\ DeviceStep(d))

Spec == Init /\ [][Next]_vars /\ Fairness

-----------------------------------------------------------------------------
PublicDocument == [role : Roles, status : UserStatuses]

\* Every variable has its type.
TypeOK ==
    /\ account \in [Users -> Document \cup {Absent}]
    /\ registration \in [Registrants -> [pc : {"new", "insert", "audit", "told", "refused", "failed"},
                                         api : {"none", "signup", "admin"}]]
    /\ op \in [Ops -> [pc : {"new", "update", "audit", "done"}, deed : Deeds \cup {"none"},
                       at : Users \cup {Absent}, old : PublicDocument \cup {Absent},
                       new : PublicDocument \cup {Absent}]]
    /\ trail \in [Users -> Seq([old : PublicDocument \cup {Absent}, new : PublicDocument])]
    /\ muddled \subseteq Users /\ script \in Users \cup {Absent}
    /\ device \in [Devices -> [pc : {"idle", "issue"}, user : Users \cup {Absent},
                               read : Document \cup {Absent}, access : BOOLEAN, refresh : BOOLEAN]]
    /\ boot \in [DevUsers -> {"find", "create", "patch", "done", "failed"}]
    /\ faults \in 0..MaxFaults /\ repairs \in 0..MaxRepairs

\* Who was told that an address is registered is the one the address leads to
\* (signup, createSuperAdminAdmin and ensureDevUsersActive all look first and
\* insert later, in three processes).
RegistrationStands ==
    \A u \in Registrants : registration[u].pc \in {"audit", "told"} => ByEmail(EmailOf[u]) = {u}

\* The audit log explains a user (blockUserById, unblockUserById,
\* updateUserRoleById, createSuperAdminAdmin): its last entry shows the account
\* as it is, and every entry starts where the one before ended, however the
\* changes of different users interleave.  Excepted are changes of one user
\* that overlap, a change that died before its entry, and the repair script and
\* the bootstrap, which write none.
AuditExplainsAccount ==
    \A u \in Users \ muddled :
        LET entries == trail[u]
            last == Len(entries)
        IN  InFlight(u) = {} /\ last > 0 =>
                /\ entries[last].new = Public(account[u])
                /\ \A i \in 2..last : entries[i].old = entries[i - 1].new

\* What an account may do changes only where somebody decided it: by an
\* administration request for this user, by the script for a blocked one, or by
\* the bootstrap for the address of a development account.  In particular
\* --normalize-legacy gives nobody another role or status.
ChangesAreDecided ==
    [][\A u \in Users : Present(u) /\ Public(account'[u]) # Public(account[u]) =>
          \/ \E o \in Ops : op[o].pc = "update" /\ op[o].at = u /\ op'[o] # op[o]
          \/ IsBlocked(u) /\ account'[u] = [account[u] EXCEPT !.status = "ACTIVE"]
          \/ \E v \in DevUsers : EmailOf[v] = EmailOf[u] /\ boot'[v] # boot[v]]_vars

\* A user who stays blocked is signed out everywhere in the end: no request that
\* read the account before it was blocked, and no refresh, keeps a device
\* signed in beyond the age of its tokens (login, refreshAuthToken; requireUser
\* never asks for the status).
BlockTakesEffect ==
    \A u \in Users :
        <>[]IsBlocked(u) => <>[](\A d \in Devices : device[d].user = u => ~device[d].access /\ ~device[d].refresh)
=============================================================================
