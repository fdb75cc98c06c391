------------------------ MODULE AccountServiceProofs ------------------------
(***************************************************************************)
(* Users, their registration and their audit log are what AccountService   *)
(* says of them for every set of users, addresses, requests and devices.   *)
(*                                                                         *)
(* The properties are not inductive.  Accountable adds the types, what an  *)
(* administration request in flight has read (OpHolds), and for every user *)
(* whose log is followed that at most one change is in flight and that the *)
(* log ends where that change began (Followed).                            *)
(***************************************************************************)
EXTENDS AccountService, TLAPS

-----------------------------------------------------------------------------
(***************************************************************************)
(* Normalization.                                                          *)
(***************************************************************************)
LEMMA NormalRoles ==
    /\ \A v : NormalizeRole(v) \in Roles
    /\ \A r \in Roles : NormalizeRole(r) = r
BY DEF NormalizeRole, LegacyRoleMap, Roles

LEMMA NormalStatuses ==
    /\ \A v : NormalizeStatus(v) \in UserStatuses
    /\ \A s \in UserStatuses : NormalizeStatus(s) = s
BY DEF NormalizeStatus, LegacyStatusMap, UserStatuses

LEMMA LegacyPatchKeepsPublic ==
    ASSUME NEW doc \in Document
    PROVE  LegacyPatch(doc) \in Document /\ Public(LegacyPatch(doc)) = Public(doc)
BY NormalRoles, NormalStatuses
   DEF Document, RawRoles, RawStatuses, LegacyPatch, Public, NormalizeRole, LegacyRoleMap, Roles

LEMMA PublicTypes ==
    /\ \A doc : Public(doc) \in PublicDocument
    /\ PublicDocument \subseteq Document
    /\ \A doc \in PublicDocument : Public(doc) = doc
<1>1. \A doc : Public(doc) \in PublicDocument
    BY NormalRoles, NormalStatuses DEF Public, PublicDocument
<1>2. PublicDocument \subseteq Document
    BY DEF PublicDocument, Document, RawRoles, RawStatuses
<1>3. \A doc \in PublicDocument : Public(doc) = doc
    BY NormalRoles, NormalStatuses DEF Public, PublicDocument
<1> QED BY <1>1, <1>2, <1>3

LEMMA PatchedTypes ==
    ASSUME NEW doc \in Document, NEW deed \in Deeds
    PROVE  Patched(doc, deed) \in Document
<1>1. deed \in {"block", "unblock"} \cup Roles
    BY AccountsAssumption DEF Deeds
<1>2. CASE deed = "block"
    BY <1>2 DEF Patched, Document, RawStatuses, UserStatuses, Roles
<1>3. CASE deed = "unblock"
    BY <1>3 DEF Patched, Document, RawStatuses, UserStatuses, Roles
<1>4. CASE deed \in Roles
    <2>1. deed # "block" /\ deed # "unblock"
        BY <1>4 DEF Roles
    <2> QED BY <1>4, <2>1 DEF Patched, Document, RawRoles
<1> QED BY <1>1, <1>2, <1>3, <1>4

LEMMA AbsentIsNoDocument == Absent \notin Users /\ Absent \notin Document
BY AccountsAssumption DEF Document

-----------------------------------------------------------------------------
(***************************************************************************)
(* The invariant.                                                          *)
(***************************************************************************)
Entry == [old : PublicDocument \cup {Absent}, new : PublicDocument]

RegistrationRecord ==
    [pc : {"new", "insert", "audit", "told", "refused", "failed"}, api : {"none", "signup", "admin"}]

OpRecord ==
    [pc : {"new", "update", "audit", "done"}, deed : Deeds \cup {"none"}, at : Users \cup {Absent},
     old : PublicDocument \cup {Absent}, new : PublicDocument \cup {Absent}]

OpHolds(o) ==
    /\ op[o].pc \in {"new", "done"} => op[o].at = Absent
    /\ op[o].pc \in {"update", "audit"} =>
          /\ op[o].at \in Users /\ Present(op[o].at)
          /\ op[o].deed \in Deeds /\ op[o].old \in PublicDocument
    /\ op[o].pc = "audit" => op[o].new \in PublicDocument

\* The last entry of a log shows doc, if there is one.
EndsAt(u, doc) == trail[u] # <<>> => trail[u][Len(trail[u])].new = doc

Chained(u) == \A i \in 2..Len(trail[u]) : trail[u][i].old = trail[u][i - 1].new

NewAdmin(u) == u \in Registrants /\ registration[u].pc = "audit"

Followed(u) ==
    /\ ~Present(u) => trail[u] = <<>>
    /\ \A o, p \in Ops : op[o].at = u /\ op[p].at = u => o = p
    /\ NewAdmin(u) => /\ \A o \in Ops : op[o].at # u
                      /\ trail[u] = <<>>
                      /\ Present(u) /\ account[u] = [role |-> "ADMIN", status |-> "ACTIVE"]
    /\ \A o \in Ops : op[o].at = u /\ op[o].pc = "update" =>
          op[o].old = Public(account[u]) /\ EndsAt(u, op[o].old)
    /\ \A o \in Ops : op[o].at = u /\ op[o].pc = "audit" =>
          op[o].new = Public(account[u]) /\ EndsAt(u, op[o].old)
    /\ InFlight(u) = {} => EndsAt(u, Public(account[u]))
    /\ Chained(u)

AccountTypes ==
    /\ account \in [Users -> Document \cup {Absent}]
    /\ registration \in [Registrants -> RegistrationRecord]
    /\ op \in [Ops -> OpRecord]
    /\ trail \in [Users -> Seq(Entry)]
    /\ muddled \subseteq Users

Accountable ==
    /\ AccountTypes /\ RegistrationStands
    /\ \A o \in Ops : OpHolds(o)
    /\ \A u \in Users \ muddled : Followed(u)

\* No step deletes a user.
NobodyLeaves == \A v \in Users : Present(v) => account'[v] # Absent

\* Nothing about accounts and their administration changes.
LEMMA Unchanged ==
    ASSUME Accountable, UNCHANGED <<account, registration, op, trail, muddled>>
    PROVE  Accountable'
BY DEF Accountable, AccountTypes, RegistrationStands, ByEmail, Present, OpHolds, Followed, EndsAt,
       Chained, NewAdmin, InFlight

\* Neither does anything that concerns the log of v.
LEMMA OthersFollowed ==
    ASSUME NEW v \in Users, Followed(v),
           account'[v] = account[v], trail'[v] = trail[v], NewAdmin(v)' = NewAdmin(v),
           \A p \in Ops : op[p].at = v \/ op'[p].at = v => op'[p] = op[p]
    PROVE  Followed(v)'
<1>1. \A p \in Ops : op'[p].at = v <=> op[p].at = v
    OBVIOUS
<1>2. InFlight(v) = {} <=> InFlight(v)' = {}
    BY <1>1 DEF InFlight, NewAdmin
<1> QED BY <1>1, <1>2 DEF Followed, Present, EndsAt, Chained

-----------------------------------------------------------------------------
(***************************************************************************)
(* Registration.                                                           *)
(***************************************************************************)
LEMMA FindByEmailKeeps ==
    ASSUME Accountable, NEW u \in Registrants, FindByEmail(u)
    PROVE  Accountable'
<1>1. UNCHANGED <<account, op, trail, muddled>>
    BY DEF FindByEmail
<1>2. /\ AccountTypes'
      /\ \A r \in Registrants : r # u => registration'[r] = registration[r]
      /\ registration[u].pc = "new" /\ registration'[u].pc \in {"insert", "refused"}
    BY DEF Accountable, AccountTypes, FindByEmail, NewRegistration, RegistrationRecord
<1>3. RegistrationStands'
    BY <1>1, <1>2 DEF Accountable, RegistrationStands, ByEmail, Present
<1>4. ASSUME NEW v \in Users \ muddled PROVE Followed(v)'
    <2>1. Followed(v) /\ NewAdmin(v)' = NewAdmin(v) /\ (InFlight(v) = {} <=> InFlight(v)' = {})
        BY <1>1, <1>2 DEF Accountable, NewAdmin, InFlight
    <2> QED BY <1>1, <2>1 DEF Followed, Present, EndsAt, Chained
<1> QED BY <1>1, <1>2, <1>3, <1>4 DEF Accountable, OpHolds, Present

\* A document appears under an address that led to nobody.
LEMMA CreatedUser ==
    ASSUME Accountable, NEW u \in Users, NEW r \in Roles, CreateUser(u, r)
    PROVE  /\ account' \in [Users -> Document \cup {Absent}]
           /\ account'[u] = [role |-> r, status |-> "ACTIVE"]
           /\ \A v \in Users : v # u => account'[v] = account[v]
           /\ ~Present(u) /\ Present(u)'
           /\ ByEmail(EmailOf[u])' = {u}
           /\ \A a : a # EmailOf[u] => ByEmail(a)' = ByEmail(a)
           /\ \A o \in Ops : op[o].at # u
<1>1. [role |-> r, status |-> "ACTIVE"] \in Document
    BY DEF Document, RawRoles, RawStatuses, UserStatuses
<1>2. /\ account' \in [Users -> Document \cup {Absent}]
      /\ account'[u] = [role |-> r, status |-> "ACTIVE"]
      /\ \A v \in Users : v # u => account'[v] = account[v]
    BY <1>1 DEF CreateUser, Accountable, AccountTypes
<1>3. ~Present(u) /\ Present(u)'
    BY <1>1, <1>2, AbsentIsNoDocument DEF CreateUser, ByEmail, Present
<1>4. ByEmail(EmailOf[u]) = {}
    BY DEF CreateUser
<1>5. ByEmail(EmailOf[u])' = {u} /\ \A a : a # EmailOf[u] => ByEmail(a)' = ByEmail(a)
    BY <1>2, <1>3, <1>4 DEF ByEmail, Present
<1>6. ASSUME NEW o \in Ops PROVE op[o].at # u
    BY <1>3, AbsentIsNoDocument DEF Accountable, OpHolds, AccountTypes, OpRecord
<1> QED BY <1>2, <1>3, <1>5, <1>6

LEMMA InsertKeeps ==
    ASSUME Accountable, NEW u \in Registrants, InsertSignup(u) \/ InsertAdmin(u)
    PROVE  Accountable' /\ NobodyLeaves
<1> DEFINE r == IF InsertSignup(u) THEN "USER" ELSE "ADMIN"
<1>1. /\ u \in Users /\ r \in Roles
      /\ UNCHANGED <<op, trail, muddled>>
    BY AccountsAssumption DEF Roles, InsertSignup, InsertAdmin
<1>2. /\ CreateUser(u, r)
      /\ registration'[u].pc \in {"told", "audit"}
      /\ registration'[u].pc = "audit" => r = "ADMIN"
      /\ registration[u].pc = "insert"
      /\ \A v \in Registrants : v # u => registration'[v] = registration[v]
    BY DEF InsertSignup, InsertAdmin, Register, Accountable, AccountTypes
<1> HIDE DEF r
<1>3. /\ account' \in [Users -> Document \cup {Absent}]
      /\ account'[u] = [role |-> r, status |-> "ACTIVE"]
      /\ \A v \in Users : v # u => account'[v] = account[v]
      /\ ~Present(u) /\ Present(u)'
      /\ ByEmail(EmailOf[u])' = {u}
      /\ \A a : a # EmailOf[u] => ByEmail(a)' = ByEmail(a)
      /\ \A o \in Ops : op[o].at # u
    BY <1>1, <1>2, CreatedUser
<1>4. AccountTypes'
    <2>1. registration' = [registration EXCEPT ![u] = [pc |-> "told", api |-> "none"]]
          \/ registration' = [registration EXCEPT ![u] = [pc |-> "audit", api |-> "admin"]]
        BY DEF InsertSignup, InsertAdmin, Register
    <2>2. registration' \in [Registrants -> RegistrationRecord]
        BY <2>1 DEF Accountable, AccountTypes, RegistrationRecord
    <2> QED BY <1>1, <1>3, <2>2 DEF Accountable, AccountTypes
<1>5. RegistrationStands'
    <2>1. ByEmail(EmailOf[u]) = {}
        BY <1>2 DEF CreateUser
    <2> QED BY <1>2, <1>3, <2>1 DEF Accountable, RegistrationStands
<1>6. ASSUME NEW o \in Ops PROVE OpHolds(o)'
    BY <1>1, <1>3 DEF Accountable, OpHolds, Present
<1>7. ASSUME NEW v \in Users \ muddled PROVE Followed(v)'
    <2>1. CASE v # u
        <3>1. Followed(v) /\ NewAdmin(v)' = NewAdmin(v) /\ (InFlight(v) = {} <=> InFlight(v)' = {})
            BY <1>1, <1>2, <2>1 DEF Accountable, NewAdmin, InFlight
        <3> QED BY <1>1, <1>3, <2>1, <3>1 DEF Followed, Present, EndsAt, Chained
    <2>2. CASE v = u
        BY <1>1, <1>2, <1>3, <2>2 DEF Accountable, Followed, NewAdmin, EndsAt, Chained
    <2> QED BY <2>1, <2>2
<1>8. NobodyLeaves
    BY <1>3 DEF NobodyLeaves, Present
<1> QED BY <1>1, <1>4, <1>5, <1>6, <1>7, <1>8 DEF Accountable

LEMMA InsertRefusedKeeps ==
    ASSUME Accountable, NEW u \in Registrants, InsertRefused(u)
    PROVE  Accountable'
<1>1. UNCHANGED <<account, op, trail, muddled>>
    BY DEF InsertRefused
<1>2. /\ AccountTypes'
      /\ \A r \in Registrants : r # u => registration'[r] = registration[r]
      /\ registration[u].pc = "insert" /\ registration'[u].pc = "refused"
    BY DEF Accountable, AccountTypes, InsertRefused, Register, RegistrationRecord
<1>3. RegistrationStands'
    BY <1>1, <1>2 DEF Accountable, RegistrationStands, ByEmail, Present
<1>4. ASSUME NEW v \in Users \ muddled PROVE Followed(v)'
    <2>1. Followed(v) /\ NewAdmin(v)' = NewAdmin(v) /\ (InFlight(v) = {} <=> InFlight(v)' = {})
        BY <1>1, <1>2 DEF Accountable, NewAdmin, InFlight
    <2> QED BY <1>1, <2>1 DEF Followed, Present, EndsAt, Chained
<1> QED BY <1>1, <1>2, <1>3, <1>4 DEF Accountable, OpHolds, Present

LEMMA AuditNewAdminKeeps ==
    ASSUME Accountable, NEW u \in Registrants, AuditNewAdmin(u)
    PROVE  Accountable'
<1> DEFINE e == [old |-> Absent, new |-> [role |-> "ADMIN", status |-> "ACTIVE"]]
<1>1. /\ u \in Users /\ e \in Entry
      /\ UNCHANGED <<account, op, muddled>>
      /\ trail' = IF u \in muddled THEN trail ELSE [trail EXCEPT ![u] = <<e>>]
    BY AccountsAssumption DEF AuditNewAdmin, Entry, PublicDocument, Roles, UserStatuses
<1>2. e.new = [role |-> "ADMIN", status |-> "ACTIVE"] /\ e.new \in PublicDocument
    BY DEF PublicDocument, Roles, UserStatuses
<1> HIDE DEF e
<1>3. /\ registration' \in [Registrants -> RegistrationRecord]
      /\ \A r \in Registrants : r # u => registration'[r] = registration[r]
      /\ registration[u].pc = "audit" /\ registration'[u].pc = "told"
    BY DEF Accountable, AccountTypes, AuditNewAdmin, Register, RegistrationRecord
<1>4. AccountTypes'
    BY <1>1, <1>3 DEF Accountable, AccountTypes
<1>5. RegistrationStands'
    BY <1>1, <1>3 DEF Accountable, RegistrationStands, ByEmail, Present
<1>6. ASSUME NEW v \in Users \ muddled PROVE Followed(v)'
    <2>1. CASE v # u
        <3>1. /\ Followed(v) /\ NewAdmin(v)' = NewAdmin(v) /\ (InFlight(v) = {} <=> InFlight(v)' = {})
              /\ trail'[v] = trail[v]
            BY <1>1, <1>3, <2>1 DEF Accountable, AccountTypes, NewAdmin, InFlight
        <3> QED BY <1>1, <3>1 DEF Followed, Present, EndsAt, Chained
    <2>2. CASE v = u
        <3>1. /\ Followed(u) /\ NewAdmin(u) /\ ~NewAdmin(u)'
              /\ trail'[u] = <<e>>
            BY <1>1, <1>3, <1>6, <2>2 DEF Accountable, AccountTypes, NewAdmin
        <3>2. /\ Len(trail'[u]) = 1 /\ trail'[u][1] = e
            BY <3>1
        <3>3. Present(u) /\ Public(account[u]) = e.new /\ \A o \in Ops : op[o].at # u
            BY <1>2, <3>1, PublicTypes DEF Followed
        <3> QED BY <1>1, <2>2, <3>1, <3>2, <3>3 DEF Followed, Present, EndsAt, Chained
    <2> QED BY <2>1, <2>2
<1> QED BY <1>1, <1>4, <1>5, <1>6 DEF Accountable, OpHolds, Present

LEMMA RegistrationFailsKeeps ==
    ASSUME Accountable, NEW u \in Registrants, RegistrationFails(u)
    PROVE  Accountable'
<1>1. u \in Users /\ UNCHANGED <<account, op>> /\ muddled \subseteq muddled'
    BY AccountsAssumption DEF RegistrationFails, Muddle
<1>2. /\ registration' \in [Registrants -> RegistrationRecord]
      /\ \A r \in Registrants : r # u => registration'[r] = registration[r]
      /\ registration[u].pc \in {"insert", "audit"} /\ registration'[u].pc = "failed"
    BY DEF Accountable, AccountTypes, RegistrationFails, Register, RegistrationRecord
<1>3. muddled' \subseteq Users /\ trail' \in [Users -> Seq(Entry)]
      /\ \A v \in Users \ muddled' : trail'[v] = trail[v]
    BY <1>1 DEF Accountable, AccountTypes, RegistrationFails, Muddle
<1>4. NewAdmin(u) => u \in muddled'
    BY DEF RegistrationFails, Muddle, NewAdmin
<1>5. RegistrationStands'
    BY <1>1, <1>2 DEF Accountable, RegistrationStands, ByEmail, Present
<1>6. ASSUME NEW v \in Users \ muddled' PROVE Followed(v)'
    <2>1. /\ Followed(v) /\ NewAdmin(v)' = NewAdmin(v) /\ (InFlight(v) = {} <=> InFlight(v)' = {})
          /\ trail'[v] = trail[v]
        BY <1>1, <1>2, <1>3, <1>4, <1>6 DEF Accountable, NewAdmin, InFlight
    <2> QED BY <1>1, <2>1 DEF Followed, Present, EndsAt, Chained
<1> QED BY <1>1, <1>2, <1>3, <1>5, <1>6 DEF Accountable, AccountTypes, OpHolds, Present

-----------------------------------------------------------------------------
(***************************************************************************)
(* Administration.                                                         *)
(***************************************************************************)
\* Muddling users drops their logs and leaves the others alone.
LEMMA Muddled ==
    ASSUME AccountTypes, NEW some \in SUBSET Users, Muddle(some)
    PROVE  /\ trail' \in [Users -> Seq(Entry)]
           /\ muddled' \subseteq Users /\ muddled \subseteq muddled' /\ some \subseteq muddled'
           /\ \A v \in Users \ muddled' : v \notin muddled /\ trail'[v] = trail[v]
BY DEF AccountTypes, Muddle

LEMMA FindUserKeeps ==
    ASSUME Accountable, NEW o \in Ops, NEW u \in Users, NEW deed \in Deeds, FindUser(o, u, deed)
    PROVE  Accountable'
<1>1. /\ UNCHANGED <<account, registration>>
      /\ op[o].pc = "new" /\ op[o].at = Absent /\ Present(u)
    BY DEF FindUser, Accountable, OpHolds
<1>2. /\ \A p \in Ops : p # o => op'[p] = op[p]
      /\ op'[o] = [pc |-> "update", deed |-> deed, at |-> u, old |-> Public(account[u]), new |-> Absent]
      /\ op' \in [Ops -> OpRecord]
    BY PublicTypes DEF FindUser, Accountable, AccountTypes, OpRecord
<1>3. /\ trail' \in [Users -> Seq(Entry)]
      /\ muddled' \subseteq Users
      /\ \A v \in Users \ muddled' : v \notin muddled /\ trail'[v] = trail[v]
      /\ u \notin muddled' => InFlight(u) = {}
    <2>1. Muddle(IF InFlight(u) = {} THEN {} ELSE {u})
        BY DEF FindUser
    <2> QED BY <2>1, Muddled DEF Accountable
<1>4. \A p \in Ops : OpHolds(p)'
    BY <1>1, <1>2, PublicTypes DEF Accountable, OpHolds, Present
<1>5. ASSUME NEW v \in Users \ muddled' PROVE Followed(v)'
    <2>1. Followed(v) /\ trail'[v] = trail[v] /\ NewAdmin(v)' = NewAdmin(v)
        BY <1>1, <1>3, <1>5 DEF Accountable, NewAdmin
    <2>2. CASE v # u
        <3>1. InFlight(v) = {} <=> InFlight(v)' = {}
            BY <1>1, <1>2, <2>2, AbsentIsNoDocument DEF InFlight
        <3>2. \A p \in Ops : op'[p].at = v => p # o /\ op'[p] = op[p]
            BY <1>2, <2>2
        <3>3. \A p \in Ops : op'[p].at = v <=> op[p].at = v
            BY <1>1, <1>2, <2>2, AbsentIsNoDocument
        <3> QED BY <1>1, <2>1, <3>1, <3>2, <3>3 DEF Followed, Present, EndsAt, Chained
    <2>3. CASE v = u
        <3>1. (\A p \in Ops : op[p].at # u) /\ ~NewAdmin(u)
            BY <1>3, <1>5, <2>3 DEF InFlight, NewAdmin
        <3>2. EndsAt(u, Public(account[u])) /\ Chained(u)
            BY <1>3, <1>5, <2>1, <2>3 DEF Followed
        <3>3. \A p \in Ops : op'[p].at = u => p = o
            BY <1>2, <3>1
        <3>4. InFlight(u)' # {}
            BY <1>2 DEF InFlight
        <3> QED BY <1>1, <1>2, <2>1, <2>3, <3>1, <3>2, <3>3, <3>4 DEF Followed, Present, EndsAt, Chained
    <2> QED BY <2>2, <2>3
<1>6. RegistrationStands'
    BY <1>1 DEF Accountable, RegistrationStands, ByEmail, Present
<1> QED BY <1>1, <1>2, <1>3, <1>4, <1>5, <1>6 DEF Accountable, AccountTypes

LEMMA UpdateUserKeeps ==
    ASSUME Accountable, NEW o \in Ops, UpdateUser(o)
    PROVE  Accountable' /\ NobodyLeaves
<1> DEFINE u == op[o].at
<1>1. /\ op[o].pc = "update"
      /\ u \in Users /\ Present(u) /\ op[o].deed \in Deeds /\ op[o].old \in PublicDocument
      /\ account' = [account EXCEPT ![u] = Patched(account[u], op[o].deed)]
      /\ op' = [op EXCEPT ![o].pc = "audit", ![o].new = Public(account'[u])]
      /\ UNCHANGED <<registration, trail, muddled>>
    BY DEF UpdateUser, Accountable, OpHolds
<1> HIDE DEF u
<1>2. /\ account' \in [Users -> Document \cup {Absent}]
      /\ account'[u] \in Document
      /\ \A v \in Users : v # u => account'[v] = account[v]
      /\ \A v \in Users : Present(v)' = Present(v)
    <2>1. account[u] \in Document
        BY <1>1 DEF Present, Accountable, AccountTypes
    <2>2. Patched(account[u], op[o].deed) \in Document
        BY <1>1, <2>1, PatchedTypes
    <2>3. /\ account' \in [Users -> Document \cup {Absent}]
          /\ account'[u] \in Document
          /\ \A v \in Users : v # u => account'[v] = account[v]
        BY <1>1, <2>2 DEF Accountable, AccountTypes
    <2> QED BY <1>1, <2>3, AbsentIsNoDocument DEF Present
<1>3. /\ \A p \in Ops : p # o => op'[p] = op[p]
      /\ op'[o].pc = "audit" /\ op'[o].at = u /\ op'[o].deed = op[o].deed /\ op'[o].old = op[o].old
      /\ op'[o].new = Public(account'[u]) /\ op'[o].new \in PublicDocument
      /\ op' \in [Ops -> OpRecord]
    <2> DEFINE doc == Public(account'[u])
    <2>1. doc \in PublicDocument
        BY PublicTypes
    <2>2. op' = [op EXCEPT ![o].pc = "audit", ![o].new = doc]
        BY <1>1
    <2> HIDE DEF doc
    <2> DEFINE r == [op[o] EXCEPT !.pc = "audit", !.new = doc]
    <2>3. op \in [Ops -> OpRecord] /\ op[o] \in OpRecord
        BY DEF Accountable, AccountTypes
    <2>4. /\ r \in OpRecord
          /\ r.pc = "audit" /\ r.at = op[o].at /\ r.deed = op[o].deed /\ r.old = op[o].old /\ r.new = doc
        BY <2>1, <2>3 DEF OpRecord
    <2>5. op' = [op EXCEPT ![o] = r]
        BY <2>2, <2>3
    <2> HIDE DEF r
    <2>6. op' \in [Ops -> OpRecord] /\ op'[o] = r /\ \A p \in Ops : p # o => op'[p] = op[p]
        BY <2>3, <2>4, <2>5
    <2> QED BY <2>1, <2>4, <2>6 DEF u, doc
<1>4. \A p \in Ops : OpHolds(p)'
    BY <1>1, <1>2, <1>3 DEF Accountable, AccountTypes, OpHolds
<1>5. ASSUME NEW v \in Users \ muddled PROVE Followed(v)'
    <2>1. /\ Followed(v) /\ NewAdmin(v)' = NewAdmin(v)
          /\ \A p \in Ops : op'[p].at = op[p].at
          /\ InFlight(v)' = InFlight(v)
        BY <1>1, <1>3 DEF Accountable, NewAdmin, InFlight, u
    <2>2. CASE v # u
        <3>1. \A p \in Ops : op[p].at = v \/ op'[p].at = v => op'[p] = op[p]
            BY <1>3, <2>1, <2>2 DEF u
        <3> QED BY <1>1, <1>2, <2>1, <2>2, <3>1, OthersFollowed
    <2>3. CASE v = u
        <3>1. \A p \in Ops : op[p].at = u => p = o
            BY <2>1, <2>3 DEF Followed, u
        <3>2. ~NewAdmin(u) /\ EndsAt(u, op[o].old)
            BY <1>1, <2>1, <2>3 DEF Followed, u
        <3>3. InFlight(u) # {}
            BY DEF InFlight, u
        <3> QED BY <1>1, <1>2, <1>3, <2>1, <2>3, <3>1, <3>2, <3>3 DEF Followed, EndsAt, Chained
    <2> QED BY <2>2, <2>3
<1>6. RegistrationStands'
    BY <1>1, <1>2 DEF Accountable, RegistrationStands, ByEmail
<1>7. NobodyLeaves
    BY <1>2 DEF NobodyLeaves, Present
<1> QED BY <1>1, <1>2, <1>3, <1>4, <1>5, <1>6, <1>7 DEF Accountable, AccountTypes

LEMMA WriteAuditKeeps ==
    ASSUME Accountable, NEW o \in Ops, WriteAudit(o)
    PROVE  Accountable'
<1> DEFINE u == op[o].at
           e == [old |-> op[o].old, new |-> op[o].new]
<1>1. /\ op[o].pc = "audit"
      /\ u \in Users /\ Present(u) /\ op[o].old \in PublicDocument /\ op[o].new \in PublicDocument
      /\ trail' = IF u \in muddled THEN trail ELSE [trail EXCEPT ![u] = Append(trail[u], e)]
      /\ UNCHANGED <<account, registration, muddled>>
    BY DEF WriteAudit, Accountable, OpHolds
<1>2. e \in Entry /\ e.old = op[o].old /\ e.new = op[o].new
    BY <1>1 DEF Entry
<1>3. /\ \A p \in Ops : p # o => op'[p] = op[p]
      /\ op'[o].pc = "done" /\ op'[o].at = Absent
      /\ op' \in [Ops -> OpRecord]
    BY DEF WriteAudit, NewOp, Accountable, AccountTypes, OpRecord
<1>4. \A p \in Ops : OpHolds(p)'
    BY <1>1, <1>3 DEF Accountable, OpHolds, Present
<1> HIDE DEF u, e
<1>5. trail' \in [Users -> Seq(Entry)]
    BY <1>1, <1>2 DEF Accountable, AccountTypes
<1>6. ASSUME NEW v \in Users \ muddled PROVE Followed(v)'
    <2>1. Followed(v) /\ NewAdmin(v)' = NewAdmin(v) /\ trail \in [Users -> Seq(Entry)]
        BY <1>1 DEF Accountable, AccountTypes, NewAdmin
    <2>2. CASE v # u
        <3>1. \A p \in Ops : op[p].at = v \/ op'[p].at = v => op'[p] = op[p]
            BY <1>3, <2>2, AbsentIsNoDocument DEF u
        <3>2. trail'[v] = trail[v]
            BY <1>1, <2>1, <2>2
        <3> QED BY <1>1, <2>1, <3>1, <3>2, OthersFollowed
    <2>3. CASE v = u
        <3>1. /\ ~NewAdmin(u) /\ EndsAt(u, e.old) /\ e.new = Public(account[u]) /\ Chained(u)
              /\ \A p \in Ops : op[p].at = u => p = o
            BY <1>1, <1>2, <2>1, <2>3 DEF Followed, u
        <3>2. \A p \in Ops : op'[p].at # u
            BY <1>1, <1>3, <3>1, AbsentIsNoDocument DEF u
        <3>3. trail'[v] = Append(trail[v], e) /\ trail[v] \in Seq(Entry)
            BY <1>1, <1>6, <2>1, <2>3
        <3> DEFINE n == Len(trail[v])
        <3>4. /\ n \in Nat /\ Len(trail'[v]) = n + 1
              /\ trail'[v][n + 1] = e
              /\ \A i \in 1..n : trail'[v][i] = trail[v][i]
              /\ n > 0 => trail[v] # <<>>
            BY <1>2, <3>3
        <3>5. EndsAt(v, Public(account[v]))'
            <4>1. account'[v] = account[v]
                BY <1>1
            <4>2. trail'[v][Len(trail'[v])] = e
                BY <3>4
            <4> QED BY <2>3, <3>1, <4>1, <4>2 DEF EndsAt
        <3>6. Chained(v)'
            <4> SUFFICES ASSUME NEW i \in 2..n + 1
                         PROVE  trail'[v][i].old = trail'[v][i - 1].new
                BY <3>4 DEF Chained
            <4>1. CASE i = n + 1
                <5>1. i - 1 = n /\ n \in 1..n /\ n > 0
                    BY <3>4, <4>1
                <5>2. trail'[v][i - 1] = trail[v][n] /\ trail[v] # <<>>
                    BY <3>4, <5>1
                <5>3. trail[v][n].new = e.old
                    BY <2>3, <3>1, <5>2 DEF EndsAt
                <5> QED BY <3>4, <4>1, <5>2, <5>3
            <4>2. CASE i # n + 1
                <5>1. i \in 2..n /\ i \in 1..n /\ i - 1 \in 1..n
                    BY <3>4, <4>2
                <5>2. trail[v][i].old = trail[v][i - 1].new
                    BY <2>3, <3>1, <5>1 DEF Chained
                <5> QED BY <3>4, <5>1, <5>2
            <4> QED BY <4>1, <4>2
        <3>7. ~NewAdmin(v)' /\ Present(v)'
            BY <1>1, <2>1, <2>3, <3>1 DEF Present
        <3> QED BY <2>3, <3>2, <3>5, <3>6, <3>7 DEF Followed
    <2> QED BY <2>2, <2>3
<1>7. RegistrationStands'
    BY <1>1 DEF Accountable, RegistrationStands, ByEmail, Present
<1> QED BY <1>1, <1>3, <1>4, <1>5, <1>6, <1>7 DEF Accountable, AccountTypes

LEMMA OpFailsKeeps ==
    ASSUME Accountable, NEW o \in Ops, OpFails(o)
    PROVE  Accountable'
<1> DEFINE u == op[o].at
<1>1. /\ op[o].pc \in {"update", "audit"} /\ u \in Users
      /\ UNCHANGED <<account, registration>>
    BY DEF OpFails, Accountable, OpHolds
<1>2. /\ \A p \in Ops : p # o => op'[p] = op[p]
      /\ op'[o].pc = "done" /\ op'[o].at = Absent
      /\ op' \in [Ops -> OpRecord]
    BY DEF OpFails, NewOp, Accountable, AccountTypes, OpRecord
<1>3. \A p \in Ops : OpHolds(p)'
    BY <1>1, <1>2 DEF Accountable, OpHolds, Present
<1>4. /\ trail' \in [Users -> Seq(Entry)]
      /\ muddled' \subseteq Users
      /\ \A v \in Users \ muddled' : v \notin muddled /\ trail'[v] = trail[v]
      /\ op[o].pc = "audit" => u \in muddled'
    <2>1. Muddle(IF op[o].pc = "audit" THEN {u} ELSE {})
        BY DEF OpFails
    <2> QED BY <1>1, <2>1, Muddled DEF Accountable
<1> HIDE DEF u
<1>5. ASSUME NEW v \in Users \ muddled' PROVE Followed(v)'
    <2>1. Followed(v) /\ NewAdmin(v)' = NewAdmin(v) /\ trail'[v] = trail[v]
        BY <1>1, <1>4, <1>5 DEF Accountable, NewAdmin
    <2>2. CASE v # u
        <3>1. \A p \in Ops : op'[p].at = v <=> op[p].at = v
            BY <1>2, <2>2, AbsentIsNoDocument DEF u
        <3>2. \A p \in Ops : op[p].at = v => op'[p] = op[p]
            BY <1>2, <2>2 DEF u
        <3>3. InFlight(v) = {} <=> InFlight(v)' = {}
            BY <1>1, <3>1 DEF InFlight
        <3> QED BY <1>1, <2>1, <3>1, <3>2, <3>3 DEF Followed, Present, EndsAt, Chained
    <2>3. CASE v = u
        <3>1. op[o].pc = "update"
            BY <1>1, <1>4, <1>5, <2>3
        <3>2. /\ ~NewAdmin(u) /\ EndsAt(u, Public(account[u]))
              /\ \A p \in Ops : op[p].at = u => p = o
            BY <2>1, <2>3, <3>1 DEF Followed, u
        <3>3. \A p \in Ops : op'[p].at # u
            BY <1>1, <1>2, <3>2, AbsentIsNoDocument
        <3> QED BY <1>1, <2>1, <2>3, <3>2, <3>3 DEF Followed, Present, EndsAt, Chained
    <2> QED BY <2>2, <2>3
<1>6. RegistrationStands'
    BY <1>1 DEF Accountable, RegistrationStands, ByEmail, Present
<1> QED BY <1>1, <1>2, <1>3, <1>4, <1>5, <1>6 DEF Accountable, AccountTypes

-----------------------------------------------------------------------------
(***************************************************************************)
(* Changes without an audit entry.                                         *)
(***************************************************************************)
\* Statuses and roles of present accounts change, and who is changed in the eyes
\* of others is muddled.
LEMMA RewriteKeeps ==
    ASSUME Accountable, UNCHANGED <<registration, op>>,
           account' \in [Users -> Document \cup {Absent}],
           \A v \in Users : Present(v)' = Present(v),
           trail' \in [Users -> Seq(Entry)], muddled' \subseteq Users,
           \A v \in Users \ muddled' : /\ v \notin muddled /\ trail'[v] = trail[v]
                                       /\ Public(account'[v]) = Public(account[v])
                                       /\ NewAdmin(v) => account'[v] = account[v]
    PROVE  Accountable'
<1>1. \A p \in Ops : OpHolds(p)'
    BY DEF Accountable, AccountTypes, OpHolds
<1>2. RegistrationStands'
    BY DEF Accountable, RegistrationStands, ByEmail
<1>3. ASSUME NEW v \in Users \ muddled' PROVE Followed(v)'
    <2>1. /\ Followed(v) /\ NewAdmin(v)' = NewAdmin(v) /\ InFlight(v)' = InFlight(v)
          /\ Public(account[v])' = Public(account[v]) /\ trail'[v] = trail[v]
          /\ NewAdmin(v) => account'[v] = account[v]
          /\ Present(v)' = Present(v)
        BY <1>3 DEF Accountable, NewAdmin, InFlight
    <2> QED BY <2>1 DEF Followed, EndsAt, Chained
<1> QED BY <1>1, <1>2, <1>3 DEF Accountable, AccountTypes

LEMMA ReactivateKeeps ==
    ASSUME Accountable, NEW some \in SUBSET Users, \A v \in some : Present(v),
           Reactivate(some), UNCHANGED <<registration, op>>
    PROVE  Accountable' /\ NobodyLeaves
<1>1. /\ trail' \in [Users -> Seq(Entry)]
      /\ muddled' \subseteq Users /\ some \subseteq muddled'
      /\ \A v \in Users \ muddled' : v \notin muddled /\ trail'[v] = trail[v]
    BY Muddled DEF Accountable, Reactivate
<1>2. ASSUME NEW v \in some
      PROVE  account[v] \in Document /\ [account[v] EXCEPT !.status = "ACTIVE"] \in Document
    <2>1. account[v] \in Document
        BY DEF Accountable, AccountTypes, Present
    <2> QED BY <2>1 DEF Document, RawStatuses, UserStatuses
<1>3. account' \in [Users -> Document \cup {Absent}]
    BY <1>2 DEF Reactivate, Accountable, AccountTypes
<1>4. \A v \in Users : Present(v)' = Present(v)
    BY <1>2, AbsentIsNoDocument DEF Reactivate, Present
<1>5. \A v \in Users \ muddled' : account'[v] = account[v]
    BY <1>1 DEF Reactivate
<1>6. Accountable'
    BY <1>1, <1>3, <1>4, <1>5, RewriteKeeps
<1>7. NobodyLeaves
    BY <1>4 DEF NobodyLeaves, Present
<1> QED BY <1>6, <1>7

LEMMA NormalizeLegacyKeeps ==
    ASSUME Accountable, NormalizeLegacy
    PROVE  /\ Accountable' /\ NobodyLeaves
           /\ \A v \in Users : Present(v) => Public(account'[v]) = Public(account[v])
<1>1. /\ UNCHANGED <<registration, op, trail, muddled>>
      /\ account' = [u \in Users |-> IF Present(u) THEN LegacyPatch(account[u]) ELSE Absent]
    BY DEF NormalizeLegacy
<1>2. ASSUME NEW v \in Users, Present(v)
      PROVE  LegacyPatch(account[v]) \in Document /\ Public(LegacyPatch(account[v])) = Public(account[v])
    <2>1. account[v] \in Document
        BY <1>2 DEF Accountable, AccountTypes, Present
    <2> QED BY <2>1, LegacyPatchKeepsPublic
<1>3. account' \in [Users -> Document \cup {Absent}]
    BY <1>1, <1>2
<1>4. \A v \in Users : Present(v)' = Present(v)
    BY <1>1, <1>2, AbsentIsNoDocument DEF Present
<1>5. \A v \in Users : Public(account'[v]) = Public(account[v])
    BY <1>1, <1>2 DEF Present
<1>6. ASSUME NEW v \in Users \ muddled, NewAdmin(v) PROVE account'[v] = account[v]
    <2>1. Present(v) /\ account[v] = [role |-> "ADMIN", status |-> "ACTIVE"]
        BY <1>6 DEF Accountable, Followed
    <2>2. LegacyPatch([role |-> "ADMIN", status |-> "ACTIVE"]) = [role |-> "ADMIN", status |-> "ACTIVE"]
        BY NormalStatuses DEF LegacyPatch, UserStatuses
    <2> QED BY <1>1, <2>1, <2>2
<1>7. trail' \in [Users -> Seq(Entry)] /\ muddled' \subseteq Users
    BY <1>1 DEF Accountable, AccountTypes
<1>8. Accountable'
    BY <1>1, <1>3, <1>4, <1>5, <1>6, <1>7, RewriteKeeps
<1>9. NobodyLeaves
    BY <1>4 DEF NobodyLeaves, Present
<1> QED BY <1>5, <1>8, <1>9

LEMMA BootPatchKeeps ==
    ASSUME Accountable, NEW u \in DevUsers, BootPatch(u)
    PROVE  Accountable' /\ NobodyLeaves
<1> DEFINE some == ByEmail(EmailOf[u])
           doc == [role |-> DevRole[u], status |-> "ACTIVE"]
<1>1. some \in SUBSET Users /\ \A v \in some : Present(v)
    BY DEF ByEmail
<1>2. doc \in Document
    BY AccountsAssumption DEF Document, RawRoles, RawStatuses, UserStatuses
<1>3. /\ UNCHANGED <<registration, op>>
      /\ account' = [v \in Users |-> IF v \in some THEN doc ELSE account[v]]
      /\ Muddle(some)
    BY DEF BootPatch
<1> HIDE DEF some, doc
<1>4. /\ trail' \in [Users -> Seq(Entry)]
      /\ muddled' \subseteq Users /\ some \subseteq muddled'
      /\ \A v \in Users \ muddled' : v \notin muddled /\ trail'[v] = trail[v]
    BY <1>1, <1>3, Muddled DEF Accountable
<1>5. account' \in [Users -> Document \cup {Absent}]
    BY <1>2, <1>3 DEF Accountable, AccountTypes
<1>6. \A v \in Users : Present(v)' = Present(v)
    BY <1>1, <1>2, <1>3, AbsentIsNoDocument DEF Present
<1>7. \A v \in Users \ muddled' : account'[v] = account[v]
    BY <1>3, <1>4
<1>8. Accountable'
    BY <1>3, <1>4, <1>5, <1>6, <1>7, RewriteKeeps
<1>9. NobodyLeaves
    BY <1>6 DEF NobodyLeaves, Present
<1> QED BY <1>8, <1>9

\* The bootstrap creates a development account.
LEMMA BootCreateKeeps ==
    ASSUME Accountable, NEW u \in DevUsers, CreateUser(u, DevRole[u]),
           UNCHANGED <<registration, op, trail, muddled>>
    PROVE  Accountable' /\ NobodyLeaves
<1>1. u \in Users /\ DevRole[u] \in Roles
    BY AccountsAssumption
<1>2. /\ account' \in [Users -> Document \cup {Absent}]
      /\ \A v \in Users : v # u => account'[v] = account[v]
      /\ ~Present(u) /\ Present(u)'
      /\ \A a : a # EmailOf[u] => ByEmail(a)' = ByEmail(a)
      /\ \A o \in Ops : op[o].at # u
    BY <1>1, CreatedUser
<1>3. AccountTypes'
    BY <1>2 DEF Accountable, AccountTypes
<1>4. RegistrationStands'
    <2>1. ByEmail(EmailOf[u]) = {}
        BY DEF CreateUser
    <2> QED BY <1>2, <2>1 DEF Accountable, RegistrationStands
<1>5. ASSUME NEW o \in Ops PROVE OpHolds(o)'
    BY <1>2 DEF Accountable, OpHolds, Present
<1>6. ASSUME NEW v \in Users \ muddled PROVE Followed(v)'
    <2>1. CASE v # u
        BY <1>2, <2>1, OthersFollowed DEF Accountable, NewAdmin
    <2>2. CASE v = u
        <3>1. trail[u] = <<>> /\ ~NewAdmin(u)
            BY <1>2, <1>6, <2>2 DEF Accountable, Followed
        <3>2. trail'[v] = <<>> /\ ~NewAdmin(v)' /\ Present(v)'
            BY <1>2, <2>2, <3>1 DEF NewAdmin
        <3>3. \A o \in Ops : op'[o].at # v
            BY <1>2, <2>2
        <3> QED BY <3>2, <3>3 DEF Followed, EndsAt, Chained
    <2> QED BY <2>1, <2>2
<1>7. NobodyLeaves
    BY <1>2 DEF NobodyLeaves, Present
<1> QED BY <1>3, <1>4, <1>5, <1>6, <1>7 DEF Accountable

-----------------------------------------------------------------------------
(***************************************************************************)
(* The devices, the script and the counters.                               *)
(***************************************************************************)
DeviceRecord == [pc : {"idle", "issue"}, user : Users \cup {Absent},
                 read : Document \cup {Absent}, access : BOOLEAN, refresh : BOOLEAN]

DevicesHold ==
    /\ device \in [Devices -> DeviceRecord]
    /\ \A d \in Devices : device[d].refresh \/ device[d].pc = "issue" => device[d].user \in Users

ScriptHolds ==
    /\ script \in Users \cup {Absent}
    /\ script # Absent => Present(script)

CountersHold ==
    /\ boot \in [DevUsers -> {"find", "create", "patch", "done", "failed"}]
    /\ faults \in 0..MaxFaults /\ repairs \in 0..MaxRepairs

Inv == Accountable /\ DevicesHold /\ ScriptHolds /\ CountersHold

LEMMA InvIsTyped ==
    ASSUME Inv
    PROVE  TypeOK
BY DEF Inv, Accountable, AccountTypes, DevicesHold, DeviceRecord, ScriptHolds, CountersHold, TypeOK,
       Entry, RegistrationRecord, OpRecord

\* One device changes, to a record that holds.
LEMMA DeviceChanges ==
    ASSUME DevicesHold, NEW d \in Devices, NEW r \in DeviceRecord,
           r.refresh \/ r.pc = "issue" => r.user \in Users,
           device' = [device EXCEPT ![d] = r]
    PROVE  DevicesHold'
BY DEF DevicesHold

LEMMA SignedOutHolds ==
    SignedOut \in DeviceRecord /\ SignedOut.pc = "idle" /\ ~SignedOut.refresh
BY DEF SignedOut, DeviceRecord

LEMMA DeviceStepKeeps ==
    ASSUME Inv, NEW d \in Devices, DeviceStep(d)
    PROVE  Inv'
<1> DEFINE r == device[d]
<1>1. /\ r \in DeviceRecord
      /\ r.refresh \/ r.pc = "issue" => r.user \in Users
      /\ account \in [Users -> Document \cup {Absent}]
      /\ DevicesHold
    BY DEF Inv, DevicesHold, Accountable, AccountTypes
<1>2. ASSUME NEW u \in Users, ReadForLogin(d, u) PROVE DevicesHold'
    <2> DEFINE next == [SignedOut EXCEPT !.pc = "issue", !.user = u, !.read = account[u]]
    <2>1. next \in DeviceRecord /\ next.user \in Users
        BY <1>1 DEF SignedOut, DeviceRecord
    <2>2. device' = [device EXCEPT ![d] = next]
        BY <1>2 DEF ReadForLogin
    <2> HIDE DEF next
    <2> QED BY <1>1, <2>1, <2>2, DeviceChanges
<1>3. ASSUME ReadForRefresh(d) PROVE DevicesHold'
    <2> DEFINE next == [r EXCEPT !.pc = "issue", !.read = account[r.user]]
    <2>1. r.user \in Users
        BY <1>1, <1>3 DEF ReadForRefresh
    <2>2. next \in DeviceRecord /\ next.user \in Users
        BY <1>1, <2>1 DEF DeviceRecord
    <2>3. device' = [device EXCEPT ![d] = next]
        BY <1>1, <1>3 DEF ReadForRefresh, DevicesHold
    <2> HIDE DEF next
    <2> QED BY <1>1, <2>2, <2>3, DeviceChanges
<1>4. ASSUME Issue(d) PROVE DevicesHold'
    <2> DEFINE in == [r EXCEPT !.pc = "idle", !.read = Absent, !.access = TRUE, !.refresh = TRUE]
               kept == [r EXCEPT !.pc = "idle", !.read = Absent]
    <2>1. r.user \in Users
        BY <1>1, <1>4 DEF Issue
    <2>2. in \in DeviceRecord /\ in.user \in Users /\ kept \in DeviceRecord /\ kept.user \in Users
        BY <1>1, <2>1 DEF DeviceRecord
    <2>3. \/ device' = [device EXCEPT ![d] = in]
          \/ device' = [device EXCEPT ![d] = kept]
          \/ device' = [device EXCEPT ![d] = SignedOut]
        BY <1>4 DEF Issue
    <2> HIDE DEF in, kept
    <2>4. CASE device' = [device EXCEPT ![d] = in]
        BY <1>1, <2>2, <2>4, DeviceChanges
    <2>5. CASE device' = [device EXCEPT ![d] = kept]
        BY <1>1, <2>2, <2>5, DeviceChanges
    <2>6. CASE device' = [device EXCEPT ![d] = SignedOut]
        BY <1>1, <2>6, SignedOutHolds, DeviceChanges
    <2> QED BY <2>3, <2>4, <2>5, <2>6
<1>5. ASSUME AccessExpires(d) PROVE DevicesHold'
    <2> DEFINE next == [r EXCEPT !.access = FALSE]
    <2>1. next \in DeviceRecord /\ (next.refresh \/ next.pc = "issue" => next.user \in Users)
        BY <1>1 DEF DeviceRecord
    <2>2. device' = [device EXCEPT ![d] = next]
        BY <1>5 DEF AccessExpires
    <2> HIDE DEF next
    <2> QED BY <1>1, <2>1, <2>2, DeviceChanges
<1>6. ASSUME RefreshExpires(d) PROVE DevicesHold'
    <2> DEFINE next == [r EXCEPT !.refresh = FALSE]
    <2>1. next \in DeviceRecord /\ (next.refresh \/ next.pc = "issue" => next.user \in Users)
        BY <1>1 DEF DeviceRecord
    <2>2. device' = [device EXCEPT ![d] = next] \/ device' = [device EXCEPT ![d] = SignedOut]
        BY <1>6 DEF RefreshExpires
    <2> HIDE DEF next
    <2>3. CASE device' = [device EXCEPT ![d] = next]
        BY <1>1, <2>1, <2>3, DeviceChanges
    <2>4. CASE device' = [device EXCEPT ![d] = SignedOut]
        BY <1>1, <2>4, SignedOutHolds, DeviceChanges
    <2> QED BY <2>2, <2>3, <2>4
<1>7. DevicesHold'
    BY <1>2, <1>3, <1>4, <1>5, <1>6 DEF DeviceStep
<1>8. Accountable'
    BY Unchanged DEF Inv, DeviceStep, accountVars, accountData
<1>9. ScriptHolds' /\ CountersHold'
    BY DEF Inv, ScriptHolds, CountersHold, Present, DeviceStep, accountVars, accountData
<1> QED BY <1>7, <1>8, <1>9 DEF Inv

\* What is left of the invariant when neither devices nor the script move.
LEMMA RestKeeps ==
    ASSUME Inv, Accountable', NobodyLeaves, UNCHANGED <<device, script>>, CountersHold'
    PROVE  Inv'
BY DEF Inv, NobodyLeaves, Present, ScriptHolds, DevicesHold

LEMMA ServeKeeps ==
    ASSUME Inv, Serve
    PROVE  Inv'
<1>1. Accountable /\ UNCHANGED <<device, boot, faults, repairs>> /\ CountersHold'
    BY DEF Inv, Serve, CountersHold
<1>2. ASSUME NEW u \in Registrants, Registering(u)
      PROVE  Accountable' /\ NobodyLeaves /\ UNCHANGED script
    <2>1. CASE FindByEmail(u)
        BY <1>1, <2>1, FindByEmailKeeps DEF FindByEmail, NobodyLeaves, Present
    <2>2. CASE InsertSignup(u) \/ InsertAdmin(u)
        BY <1>1, <2>2, InsertKeeps DEF InsertSignup, InsertAdmin
    <2>3. CASE InsertRefused(u)
        BY <1>1, <2>3, InsertRefusedKeeps DEF InsertRefused, NobodyLeaves, Present
    <2>4. CASE AuditNewAdmin(u)
        BY <1>1, <2>4, AuditNewAdminKeeps DEF AuditNewAdmin, NobodyLeaves, Present
    <2> QED BY <1>2, <2>1, <2>2, <2>3, <2>4 DEF Registering
<1>3. ASSUME NEW o \in Ops, Administer(o)
      PROVE  Accountable' /\ NobodyLeaves /\ UNCHANGED script
    <2>1. ASSUME NEW u \in Users, NEW deed \in Deeds, FindUser(o, u, deed)
          PROVE  Accountable' /\ NobodyLeaves /\ UNCHANGED script
        BY <1>1, <2>1, FindUserKeeps DEF FindUser, NobodyLeaves, Present
    <2>2. CASE UpdateUser(o)
        BY <1>1, <2>2, UpdateUserKeeps DEF UpdateUser
    <2>3. CASE WriteAudit(o)
        BY <1>1, <2>3, WriteAuditKeeps DEF WriteAudit, NobodyLeaves, Present
    <2> QED BY <1>3, <2>1, <2>2, <2>3 DEF Administer
<1>4. Accountable' /\ NobodyLeaves /\ UNCHANGED script
    BY <1>2, <1>3 DEF Serve
<1> QED BY <1>1, <1>4, RestKeeps

LEMMA DisturbKeeps ==
    ASSUME Inv, Disturb
    PROVE  Inv'
<1>1. Accountable /\ UNCHANGED device
    BY DEF Inv, Disturb
<1>2. CountersHold'
    BY AccountServiceAssumption DEF Inv, Disturb, CountersHold
<1>3. ASSUME NEW o \in Ops, OpFails(o)
      PROVE  Accountable' /\ NobodyLeaves /\ UNCHANGED script
    BY <1>1, <1>3, OpFailsKeeps DEF OpFails, NobodyLeaves, Present
<1>4. ASSUME NEW u \in Registrants, RegistrationFails(u)
      PROVE  Accountable' /\ NobodyLeaves /\ UNCHANGED script
    BY <1>1, <1>4, RegistrationFailsKeeps DEF RegistrationFails, NobodyLeaves, Present
<1>5. Accountable' /\ NobodyLeaves /\ UNCHANGED script
    BY <1>3, <1>4 DEF Disturb
<1> QED BY <1>1, <1>2, <1>5, RestKeeps

LEMMA RepairStepKeeps ==
    ASSUME Inv, RepairStep
    PROVE  Inv'
<1>1. Accountable /\ ScriptHolds /\ UNCHANGED device
    BY DEF Inv, RepairStep
<1>2. CountersHold' /\ DevicesHold'
    BY AccountServiceAssumption DEF Inv, RepairStep, CountersHold, DevicesHold
<1>3. CASE UnblockAll
    <2>1. Accountable' /\ NobodyLeaves
        BY <1>1, <1>3, ReactivateKeeps DEF UnblockAll, IsBlocked
    <2> QED BY <1>1, <1>2, <1>3, <2>1, RestKeeps DEF UnblockAll
<1>4. CASE NormalizeLegacy
    <2>1. Accountable' /\ NobodyLeaves
        BY <1>1, <1>4, NormalizeLegacyKeeps
    <2> QED BY <1>1, <1>2, <1>4, <2>1, RestKeeps DEF NormalizeLegacy
<1>5. ASSUME NEW u \in Users, FindBlocked(u) PROVE Inv'
    <2>1. Accountable'
        BY <1>1, <1>5, Unchanged DEF FindBlocked, accountData
    <2>2. ScriptHolds'
        BY <1>5 DEF FindBlocked, accountData, IsBlocked, Present, ScriptHolds
    <2> QED BY <1>2, <2>1, <2>2 DEF Inv
<1>6. CASE UnblockFound
    <2>1. script \in Users /\ Present(script) /\ Reactivate({script}) /\ UNCHANGED <<registration, op>>
        BY <1>1, <1>6 DEF UnblockFound, ScriptHolds
    <2>2. Accountable'
        BY <1>1, <2>1, ReactivateKeeps
    <2>3. ScriptHolds'
        BY <1>6 DEF UnblockFound, ScriptHolds
    <2> QED BY <1>2, <2>2, <2>3 DEF Inv
<1> QED BY <1>3, <1>4, <1>5, <1>6 DEF RepairStep, RunScript

LEMMA BootKeeps ==
    ASSUME Inv, Boot
    PROVE  Inv'
<1>1. Accountable /\ UNCHANGED <<faults, repairs>>
    BY DEF Inv, Boot
<1>2. PICK u \in DevUsers : BootFind(u) \/ BootCreate(u) \/ BootPatch(u)
    BY DEF Boot
<1>3. CountersHold'
    BY <1>1, <1>2 DEF Inv, CountersHold, BootFind, BootCreate, BootPatch
<1>4. CASE BootFind(u)
    <2>1. Accountable' /\ NobodyLeaves
        BY <1>1, <1>4, Unchanged DEF BootFind, accountVars, accountData, NobodyLeaves, Present
    <2> QED BY <1>3, <1>4, <2>1, RestKeeps DEF BootFind, accountVars
<1>5. CASE BootCreate(u)
    <2>1. CASE CreateUser(u, DevRole[u])
        <3>1. Accountable' /\ NobodyLeaves
            BY <1>1, <1>5, <2>1, BootCreateKeeps DEF BootCreate
        <3> QED BY <1>3, <1>5, <3>1, RestKeeps DEF BootCreate
    <2>2. CASE UNCHANGED account
        <3>1. Accountable' /\ NobodyLeaves
            BY <1>1, <1>5, <2>2, Unchanged DEF BootCreate, NobodyLeaves, Present
        <3> QED BY <1>3, <1>5, <3>1, RestKeeps DEF BootCreate
    <2> QED BY <1>5, <2>1, <2>2 DEF BootCreate
<1>6. CASE BootPatch(u)
    <2>1. Accountable' /\ NobodyLeaves
        BY <1>1, <1>6, BootPatchKeeps
    <2> QED BY <1>3, <1>6, <2>1, RestKeeps DEF BootPatch
<1> QED BY <1>2, <1>4, <1>5, <1>6

-----------------------------------------------------------------------------
(***************************************************************************)
(* The theorems.                                                           *)
(***************************************************************************)
LEMMA InitHolds ==
    ASSUME Init
    PROVE  Inv
<1>1. /\ [role : {"owner"}, status : {"ACTIVE", "blocked"}] \subseteq Document
      /\ \A u \in Registrants : u \in Users /\ registration[u].pc = "new"
      /\ \A o \in Ops : op[o] = NewOp
      /\ \A u \in Users : trail[u] = <<>>
      /\ muddled = {} /\ script = Absent
    BY AccountsAssumption
       DEF Init, AccountsInit, NewRegistration, Document, RawRoles, RawStatuses, LegacyRoleMap,
           LegacyStatusMap, UserStatuses
<1>2. AccountTypes
    <2>1. account \in [Users -> Document \cup {Absent}]
        BY <1>1 DEF Init
    <2>2. registration = [u \in Registrants |-> [pc |-> "new", api |-> "none"]]
          /\ op = [o \in Ops |-> NewOp] /\ trail = [u \in Users |-> <<>>] /\ muddled = {}
        BY DEF Init, AccountsInit, NewRegistration
    <2>3. NewOp \in OpRecord
        BY DEF NewOp, OpRecord
    <2>4. <<>> \in Seq(Entry)
        OBVIOUS
    <2> QED BY <2>1, <2>2, <2>3, <2>4 DEF AccountTypes, RegistrationRecord
<1>3. Accountable
    <2>1. \A o \in Ops : op[o].pc = "new" /\ op[o].at = Absent
        BY <1>1 DEF NewOp
    <2>2. RegistrationStands /\ \A o \in Ops : OpHolds(o)
        BY <1>1, <2>1 DEF RegistrationStands, OpHolds
    <2>3. ASSUME NEW u \in Users PROVE Followed(u)
        BY <1>1, <2>1, AbsentIsNoDocument DEF Followed, NewAdmin, EndsAt, Chained
    <2> QED BY <1>2, <2>2, <2>3 DEF Accountable
<1>4. DevicesHold
    <2>1. ASSUME NEW u \in Users
          PROVE  [SignedOut EXCEPT !.user = u, !.access = TRUE, !.refresh = TRUE] \in
                     {r \in DeviceRecord : r.user \in Users}
        BY DEF SignedOut, DeviceRecord
    <2> DEFINE Signed(u) == [SignedOut EXCEPT !.user = u, !.access = TRUE, !.refresh = TRUE]
    <2>2. device \in [Devices -> {SignedOut} \cup {Signed(u) : u \in {v \in Users : Present(v)}}]
        BY DEF Init
    <2> HIDE DEF Signed
    <2>3. device \in [Devices -> {SignedOut} \cup {r \in DeviceRecord : r.user \in Users}]
        <3>1. \A u \in Users : Signed(u) \in {r \in DeviceRecord : r.user \in Users}
            BY <2>1 DEF Signed
        <3> QED BY <2>2, <3>1
    <2> QED BY <2>3, SignedOutHolds DEF DevicesHold
<1>5. ScriptHolds /\ CountersHold
    <2>1. PICK p \in {"find", "done"} : boot = [u \in DevUsers |-> p]
        BY DEF Init
    <2>2. faults = 0 /\ repairs = 0
        BY DEF Init
    <2> QED BY <1>1, <2>1, <2>2, AccountServiceAssumption DEF ScriptHolds, CountersHold
<1> QED BY <1>3, <1>4, <1>5 DEF Inv

LEMMA StepHolds ==
    ASSUME Inv, [Next]_vars
    PROVE  Inv'
<1>1. CASE UNCHANGED vars
    <2>1. Accountable'
        BY <1>1, Unchanged DEF vars, accountVars, accountData, Inv
    <2> QED BY <1>1, <2>1 
           DEF vars, accountVars, accountData, Inv, DevicesHold, ScriptHolds, CountersHold, Present
<1> QED BY <1>1, ServeKeeps, DisturbKeeps, RepairStepKeeps, BootKeeps, DeviceStepKeeps DEF Next

\* The invariant holds in every state of every instance.
THEOREM AlwaysInv == Spec => []Inv
<1> QED BY InitHolds, StepHolds, PTL DEF Spec

\* Every variable of the users, their administration and the devices has its
\* type, whatever the users, addresses and requests are.
THEOREM TypeCorrect == Spec => []TypeOK
BY AlwaysInv, InvIsTyped, PTL

\* Whoever was told that an address is registered is the one the address leads
\* to: signup, createSuperAdminAdmin and ensureDevUsersActive never leave two
\* users at one address.
THEOREM RegistrationsStand == Spec => []RegistrationStands
<1>1. Inv => RegistrationStands
    BY DEF Inv, Accountable
<1> QED BY <1>1, AlwaysInv, PTL

\* The audit log of a user explains the account, however the changes of
\* different users interleave (logAdminAction after findByIdAndUpdate).
THEOREM AuditLogExplains == Spec => []AuditExplainsAccount
<1>1. ASSUME Inv PROVE AuditExplainsAccount
    <2> SUFFICES ASSUME NEW u \in Users \ muddled, InFlight(u) = {}, Len(trail[u]) > 0
                 PROVE  /\ trail[u][Len(trail[u])].new = Public(account[u])
                        /\ \A i \in 2..Len(trail[u]) : trail[u][i].old = trail[u][i - 1].new
        BY DEF AuditExplainsAccount
    <2>1. Followed(u) /\ trail[u] \in Seq(Entry)
        BY <1>1 DEF Inv, Accountable, AccountTypes
    <2>2. trail[u] # <<>>
        BY <2>1
    <2> QED BY <2>1, <2>2 DEF Followed, EndsAt, Chained
<1> QED BY <1>1, AlwaysInv, PTL

\* The device holds no token of the user, and no request of it will be given one.
ShutOut(d, u) ==
    device[d].user = u =>
        /\ ~device[d].access /\ ~device[d].refresh
        /\ device[d].pc = "issue" => NormalizeStatus(device[d].read.status) = "BLOCKED"

\* The safety half of BlockTakesEffect.  Once the tokens of a blocked user have aged and
\* no login or refresh is left that read the account before the block, no device gets in
\* again while the block stands: login and refreshAuthToken both read the account anew.
THEOREM TheBlockedStayOut ==
    Spec => [][\A u \in Users, d \in Devices : ShutOut(d, u) /\ IsBlocked(u) => ShutOut(d, u)']_vars
<1>1. ASSUME Inv, [Next]_vars, NEW u \in Users, NEW d \in Devices, ShutOut(d, u), IsBlocked(u)
      PROVE  ShutOut(d, u)'
    <2>1. /\ device \in [Devices -> DeviceRecord] /\ device[d] \in DeviceRecord
          /\ SignedOut.user = Absent /\ Absent \notin Users
        BY <1>1, AbsentIsNoDocument DEF Inv, DevicesHold, SignedOut
    <2>2. CASE UNCHANGED device
        BY <1>1, <2>2 DEF ShutOut
    <2>3. ASSUME NEW e \in Devices, DeviceStep(e), e # d PROVE UNCHANGED device[d]
        BY <2>1, <2>3 DEF DeviceStep, ReadForLogin, ReadForRefresh, Issue, AccessExpires, RefreshExpires
    <2>4. ASSUME NEW v \in Users, ReadForLogin(d, v) PROVE ShutOut(d, u)'
        <3>1. device'[d] = [SignedOut EXCEPT !.pc = "issue", !.user = v, !.read = account[v]]
            BY <2>1, <2>4 DEF ReadForLogin
        <3>2. /\ device'[d].user = v /\ device'[d].read = account[v]
              /\ ~device'[d].access /\ ~device'[d].refresh
            BY <3>1 DEF SignedOut
        <3> QED BY <1>1, <3>2 DEF ShutOut, IsBlocked
    <2>5. CASE ReadForRefresh(d)
        <3>1. device[d].user # u
            BY <1>1, <2>5 DEF ReadForRefresh, ShutOut
        <3>2. device'[d].user = device[d].user
            BY <2>1, <2>5 DEF ReadForRefresh, DeviceRecord
        <3> QED BY <3>1, <3>2 DEF ShutOut
    <2>6. CASE Issue(d)
        <3>1. CASE NormalizeStatus(device[d].read.status) = "ACTIVE"
            <4>1. device[d].user # u
                BY <1>1, <2>6, <3>1 DEF Issue, ShutOut
            <4>2. device'[d].user = device[d].user
                BY <2>1, <2>6, <3>1 DEF Issue, DeviceRecord
            <4> QED BY <4>1, <4>2 DEF ShutOut
        <3>2. CASE NormalizeStatus(device[d].read.status) # "ACTIVE" /\ device[d].refresh
            <4>1. device[d].user # u
                BY <1>1, <3>2 DEF ShutOut
            <4>2. device'[d].user = device[d].user
                BY <2>1, <2>6, <3>2 DEF Issue, DeviceRecord
            <4> QED BY <4>1, <4>2 DEF ShutOut
        <3>3. CASE NormalizeStatus(device[d].read.status) # "ACTIVE" /\ ~device[d].refresh
            <4>1. device'[d] = SignedOut
                BY <2>1, <2>6, <3>3 DEF Issue
            <4> QED BY <2>1, <4>1 DEF ShutOut
        <3> QED BY <3>1, <3>2, <3>3
    <2>7. CASE AccessExpires(d)
        <3>1. device[d].user # u
            BY <1>1, <2>7 DEF AccessExpires, ShutOut
        <3>2. device'[d].user = device[d].user
            BY <2>1, <2>7 DEF AccessExpires, DeviceRecord
        <3> QED BY <3>1, <3>2 DEF ShutOut
    <2>8. CASE RefreshExpires(d)
        <3>1. device[d].user # u
            BY <1>1, <2>8 DEF RefreshExpires, ShutOut
        <3>2. device'[d].user \in {device[d].user, Absent}
            BY <2>1, <2>8 DEF RefreshExpires, DeviceRecord
        <3> QED BY <2>1, <3>1, <3>2 DEF ShutOut
    <2>9. CASE DeviceStep(d)
        BY <2>4, <2>5, <2>6, <2>7, <2>8, <2>9 DEF DeviceStep
    <2>10. CASE \E e \in Devices : DeviceStep(e)
        BY <1>1, <2>3, <2>9, <2>10 DEF ShutOut
    <2>11. CASE UNCHANGED vars
        BY <2>2, <2>11 DEF vars
    <2> QED BY <1>1, <2>2, <2>10, <2>11
            DEF Next, Serve, Disturb, RepairStep, Boot, BootFind, BootCreate, BootPatch
<1>2. Inv /\ [Next]_vars =>
          [\A u \in Users, d \in Devices : ShutOut(d, u) /\ IsBlocked(u) => ShutOut(d, u)']_vars
    BY <1>1
<1> QED BY <1>2, AlwaysInv, PTL DEF Spec

\* What an account may do changes only where somebody decided it, in every step
\* of every instance: --normalize-legacy and registrations change nobody.
THEOREM DecidedChanges == Spec => ChangesAreDecided
<1> DEFINE Decided(u) ==
        \/ \E o \in Ops : op[o].pc = "update" /\ op[o].at = u /\ op'[o] # op[o]
        \/ IsBlocked(u) /\ account'[u] = [account[u] EXCEPT !.status = "ACTIVE"]
        \/ \E v \in DevUsers : EmailOf[v] = EmailOf[u] /\ boot'[v] # boot[v]
<1>1. ASSUME Inv, [Next]_vars, NEW u \in Users, Present(u), Public(account'[u]) # Public(account[u])
      PROVE  Decided(u)
    <2>1. account[u] \in Document /\ account'[u] # account[u]
        BY <1>1 DEF Inv, Accountable, AccountTypes, Present
    <2>2. ASSUME NEW v \in Users, NEW r \in Roles, CreateUser(v, r) PROVE FALSE
        <3>1. v = u
            BY <1>1, <2>1, <2>2, CreatedUser DEF Inv
        <3> QED BY <1>1, <2>2, <3>1, CreatedUser DEF Inv
    <2>3. \A some : Reactivate(some) =>
              u \in some /\ IsBlocked(u) /\ account'[u] = [account[u] EXCEPT !.status = "ACTIVE"]
        <3> SUFFICES ASSUME NEW some, Reactivate(some)
                     PROVE  u \in some /\ IsBlocked(u) /\ account'[u] = [account[u] EXCEPT !.status = "ACTIVE"]
            OBVIOUS
        <3>1. u \in some /\ account'[u] = [account[u] EXCEPT !.status = "ACTIVE"]
            BY <2>1 DEF Reactivate
        <3>2. account'[u].role = account[u].role /\ account'[u].status = "ACTIVE"
            BY <2>1, <3>1 DEF Document
        <3>3. NormalizeStatus("ACTIVE") = "ACTIVE"
            BY NormalStatuses DEF UserStatuses
        <3>4. NormalizeStatus(account[u].status) # "ACTIVE"
            BY <1>1, <3>2, <3>3 DEF Public
        <3>5. NormalizeStatus(account[u].status) = "BLOCKED"
            BY <3>4, NormalStatuses DEF UserStatuses
        <3> QED BY <1>1, <3>1, <3>5 DEF IsBlocked
    <2>4. ASSUME Serve PROVE Decided(u)
        <3>1. ASSUME NEW r \in Registrants, Registering(r) PROVE FALSE
            BY <2>1, <2>2, <3>1, AccountsAssumption
               DEF Registering, FindByEmail, InsertSignup, InsertAdmin, InsertRefused, AuditNewAdmin, Roles
        <3>2. PICK o \in Ops : Administer(o)
            BY <2>4, <3>1 DEF Serve
        <3>3. UpdateUser(o)
            BY <2>1, <3>2 DEF Administer, FindUser, WriteAudit
        <3>4. op[o].pc = "update" /\ op'[o].pc = "audit"
            BY <1>1, <3>3 DEF UpdateUser, Inv, Accountable, AccountTypes
        <3>5. op[o].at = u
            BY <1>1, <2>1, <3>3 DEF UpdateUser, Inv, Accountable, AccountTypes
        <3> QED BY <3>4, <3>5
    <2>5. ASSUME RepairStep PROVE Decided(u)
        <3>1. ~NormalizeLegacy
            BY <1>1, NormalizeLegacyKeeps DEF Inv
        <3>2. \E some : Reactivate(some)
            BY <2>1, <2>5, <3>1 DEF RepairStep, RunScript, UnblockAll, UnblockFound, FindBlocked, accountData
        <3> QED BY <2>3, <3>2
    <2>6. ASSUME Boot PROVE Decided(u)
        <3>1. PICK v \in DevUsers : BootFind(v) \/ BootCreate(v) \/ BootPatch(v)
            BY <2>6 DEF Boot
        <3>2. BootPatch(v)
            BY <2>1, <2>2, <3>1, AccountsAssumption DEF BootFind, BootCreate, accountVars, accountData
        <3>3. u \in ByEmail(EmailOf[v])
            BY <2>1, <3>2 DEF BootPatch
        <3>4. boot[v] = "patch" /\ boot'[v] = "done"
            BY <1>1, <3>2 DEF BootPatch, Inv, CountersHold
        <3> QED BY <3>3, <3>4 DEF ByEmail
    <2>7. ASSUME \/ Disturb \/ UNCHANGED vars \/ \E d \in Devices : DeviceStep(d) PROVE FALSE
        BY <2>1, <2>7 DEF Disturb, OpFails, RegistrationFails, DeviceStep, vars, accountVars, accountData
    <2> QED BY <1>1, <2>4, <2>5, <2>6, <2>7 DEF Next
<1>2. Inv /\ [Next]_vars =>
          [\A u \in Users : Present(u) /\ Public(account'[u]) # Public(account[u]) => Decided(u)]_vars
    BY <1>1
<1> QED BY <1>2, AlwaysInv, PTL DEF Spec, ChangesAreDecided
=============================================================================
