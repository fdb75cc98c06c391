------------------------------ MODULE Accounts ------------------------------
(***************************************************************************)
(* The collection users: registration (signup of auth-service and          *)
(* createSuperAdminAdmin of admin-service), the administration of users    *)
(* with its audit log, and the repair script and bootstrap that change     *)
(* accounts without one.  One step per await.  Names, phones and passwords *)
(* are left out: no step decides anything on them but bcrypt.              *)
(***************************************************************************)
EXTENDS Rbac, Naturals, FiniteSets, Sequences

CONSTANTS
    Users,          \* possible documents, named by their _id
    EmailOf,        \* [Users -> address]
    Registrants,    \* the documents a registration may create
    DevUsers,       \* DEFAULT_DEV_USERS, each a document and its address
    DevRole,        \* [DevUsers -> Roles]
    Ops,            \* administration requests, each sent at most once
    NewRoles,       \* the roles these requests give
    Absent

ASSUME AccountsAssumption ==
    /\ Registrants \subseteq Users /\ DevUsers \subseteq Users
    /\ NewRoles \subseteq Roles /\ DevRole \in [DevUsers -> Roles]
    /\ Absent \notin Users \cup [role : RawRoles, status : RawStatuses]

VARIABLES
    account,        \* [Users -> Absent or [role, status]], as stored
    registration,   \* [Registrants -> [pc, api]]
    op,             \* [Ops -> [pc, deed, at, old, new]]
    trail,          \* [Users -> Seq([old, new])], the audit log of a user
    muddled,        \* history: users whose audit log has an excuse, and is not followed
    script          \* the user unblock-user.mjs has found, or Absent

accountData == <<account, registration, op, trail, muddled>>

accountVars == <<accountData, script>>

Document == [role : RawRoles, status : RawStatuses]

\* The audit log of these users need not explain them any more.
Muddle(some) ==
    /\ muddled' = muddled \cup some
    /\ trail' = [u \in Users |-> IF u \in some THEN <<>> ELSE trail[u]]

Present(u) == account[u] # Absent

\* What serializeUser shows of a document.
Public(doc) == [role |-> NormalizeRole(doc.role), status |-> NormalizeStatus(doc.status)]

\* findUserByEmail.
ByEmail(address) == {u \in Users : Present(u) /\ EmailOf[u] = address}

IsBlocked(u) == Present(u) /\ NormalizeStatus(account[u].status) = "BLOCKED"

-----------------------------------------------------------------------------
(***************************************************************************)
(* Registration.                                                           *)
(***************************************************************************)
NewRegistration == [pc |-> "new", api |-> "none"]

Register(u, from, to) ==
    /\ registration[u].pc = from
    /\ registration' = [registration EXCEPT ![u] =
          [pc |-> to, api |-> IF to = "audit" THEN "admin" ELSE "none"]]

\* EMAIL_EXISTS, or on to hash the password.
FindByEmail(u) ==
    /\ registration[u].pc = "new"
    /\ \E api \in {"signup", "admin"} :
          registration' = [registration EXCEPT ![u] =
              IF ByEmail(EmailOf[u]) = {} THEN [pc |-> "insert", api |-> api]
              ELSE [NewRegistration EXCEPT !.pc = "refused"]]
    /\ UNCHANGED <<account, op, trail, muddled, script>>

\* Mutant of CreateUser: no unique index, what was found is trusted.
CreateUserUnindexed(u, role) == account' = [account EXCEPT ![u] = [role |-> role, status |-> "ACTIVE"]]

\* User.create against the unique index of the address.
CreateUser(u, role) ==
    /\ ByEmail(EmailOf[u]) = {}
    /\ account' = [account EXCEPT ![u] = [role |-> role, status |-> "ACTIVE"]]

\* A signup is a USER whatever the body says.
InsertSignup(u) ==
    /\ registration[u].api = "signup"
    /\ CreateUser(u, "USER")
    /\ Register(u, "insert", "told")
    /\ UNCHANGED <<op, trail, muddled, script>>

InsertAdmin(u) ==
    /\ registration[u].api = "admin"
    /\ CreateUser(u, "ADMIN")
    /\ Register(u, "insert", "audit")
    /\ UNCHANGED <<op, trail, muddled, script>>

\* The duplicate key error of an insert that was overtaken.
InsertRefused(u) ==
    /\ ByEmail(EmailOf[u]) # {}
    /\ Register(u, "insert", "refused")
    /\ UNCHANGED <<account, op, trail, muddled, script>>

AuditNewAdmin(u) ==
    /\ Register(u, "audit", "told")
    /\ trail' = IF u \in muddled THEN trail
                ELSE [trail EXCEPT ![u] = <<[old |-> Absent, new |-> [role |-> "ADMIN", status |-> "ACTIVE"]]>>]
    /\ UNCHANGED <<account, op, muddled, script>>

\* The request dies or an awaited call throws.
RegistrationFails(u) ==
    /\ registration[u].pc \in {"insert", "audit"}
    /\ Register(u, registration[u].pc, "failed")
    /\ Muddle(IF registration[u].pc = "audit" THEN {u} ELSE {})
    /\ UNCHANGED <<account, op, script>>

Registering(u) ==
    FindByEmail(u) \/ InsertSignup(u) \/ InsertAdmin(u) \/ InsertRefused(u) \/ AuditNewAdmin(u)

-----------------------------------------------------------------------------
(***************************************************************************)
(* Blocking, unblocking and the role of a user, by a superadmin.           *)
(***************************************************************************)
Deeds == {"block", "unblock"} \cup NewRoles

NewOp == [pc |-> "new", deed |-> "none", at |-> Absent, old |-> Absent, new |-> Absent]

\* Changes of this user that are still to be audited.
InFlight(u) ==
    {o \in Ops : op[o].at = u} \cup {r \in Registrants : r = u /\ registration[r].pc = "audit"}

\* Mutant of Patched: the word of the request is written as the status.
PatchedVerbatim(doc, deed) ==
    IF deed \in Roles THEN [doc EXCEPT !.role = deed] ELSE [doc EXCEPT !.status = deed]

\* The fields findByIdAndUpdate sets.
Patched(doc, deed) ==
    CASE deed = "block"   -> [doc EXCEPT !.status = "BLOCKED"]
      [] deed = "unblock" -> [doc EXCEPT !.status = "ACTIVE"]
      [] deed \in Roles   -> [doc EXCEPT !.role = deed]

FindUser(o, u, deed) ==
    /\ op[o].pc = "new"
    /\ Present(u)
    /\ op' = [op EXCEPT ![o] = [pc |-> "update", deed |-> deed, at |-> u,
                                old |-> Public(account[u]), new |-> Absent]]
    /\ Muddle(IF InFlight(u) = {} THEN {} ELSE {u})
    /\ UNCHANGED <<account, registration, script>>

\* Mutant of UpdateUser: findByIdAndUpdate without {new: true}.
UpdateUserShowsOld(o) ==
    LET u == op[o].at
    IN  /\ op[o].pc = "update"
        /\ account' = [account EXCEPT ![u] = Patched(@, op[o].deed)]
        /\ op' = [op EXCEPT ![o].pc = "audit", ![o].new = Public(account[u])]
        /\ UNCHANGED <<registration, trail, muddled, script>>

UpdateUser(o) ==
    LET u == op[o].at
    IN  /\ op[o].pc = "update"
        /\ account' = [account EXCEPT ![u] = Patched(@, op[o].deed)]
        /\ op' = [op EXCEPT ![o].pc = "audit", ![o].new = Public(account'[u])]
        /\ UNCHANGED <<registration, trail, muddled, script>>

WriteAudit(o) ==
    /\ op[o].pc = "audit"
    /\ trail' = IF op[o].at \in muddled THEN trail
                ELSE [trail EXCEPT ![op[o].at] = Append(@, [old |-> op[o].old, new |-> op[o].new])]
    /\ op' = [op EXCEPT ![o] = [NewOp EXCEPT !.pc = "done"]]
    /\ UNCHANGED <<account, registration, muddled, script>>

\* An awaited call throws or the process dies: the change may go without a trace.
OpFails(o) ==
    /\ op[o].pc \in {"update", "audit"}
    /\ Muddle(IF op[o].pc = "audit" THEN {op[o].at} ELSE {})
    /\ op' = [op EXCEPT ![o] = [NewOp EXCEPT !.pc = "done"]]
    /\ UNCHANGED <<account, registration, script>>

Administer(o) ==
    \/ \E u \in Users, deed \in Deeds : FindUser(o, u, deed)
    \/ UpdateUser(o) \/ WriteAudit(o)

-----------------------------------------------------------------------------
(***************************************************************************)
(* Changes without an audit entry.                                         *)
(***************************************************************************)
\* A write that leaves no audit entry and may fall between a change and its entry.
Reactivate(some) ==
    /\ account' = [u \in Users |-> IF u \in some THEN [account[u] EXCEPT !.status = "ACTIVE"]
                                   ELSE account[u]]
    /\ Muddle(some)

\* unblock-user.mjs --email: findOne, a look at the status, updateOne.
FindBlocked(u) ==
    /\ script = Absent
    /\ IsBlocked(u)
    /\ script' = u
    /\ UNCHANGED accountData

UnblockFound ==
    /\ script # Absent
    /\ script' = Absent
    /\ Reactivate({script})
    /\ UNCHANGED <<registration, op>>

\* unblock-user.mjs --all-blocked.
UnblockAll ==
    /\ \E u \in Users : IsBlocked(u)
    /\ Reactivate({u \in Users : IsBlocked(u)})
    /\ UNCHANGED <<registration, op, script>>

\* Mutant of LegacyPatch: owners become users.
LegacyPatchOwners(doc) ==
    [role |-> IF doc.role \in {"admin", "superadmin"} THEN LegacyRoleMap[doc.role]
              ELSE IF doc.role \in {"user", "guest", "owner"} THEN "USER" ELSE doc.role,
     status |-> NormalizeStatus(doc.status)]

\* The seven updates of unblock-user.mjs --normalize-legacy, as the documents
\* see them; the values with an underscore or a blank are not among them.
LegacyPatch(doc) ==
    [role |-> IF doc.role \in {"user", "admin", "superadmin", "owner", "guest"}
              THEN LegacyRoleMap[doc.role] ELSE doc.role,
     status |-> NormalizeStatus(doc.status)]

NormalizeLegacy ==
    /\ account' = [u \in Users |-> IF Present(u) THEN LegacyPatch(account[u]) ELSE Absent]
    /\ UNCHANGED <<registration, op, trail, muddled, script>>

RunScript == UnblockAll \/ NormalizeLegacy \/ \E u \in Users : FindBlocked(u)

AccountsInit ==
    /\ registration = [u \in Registrants |-> NewRegistration]
    /\ op = [o \in Ops |-> NewOp]
    /\ trail = [u \in Users |-> <<>>]
    /\ muddled = {}
    /\ script = Absent
=============================================================================
