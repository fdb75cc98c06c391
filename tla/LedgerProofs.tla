--------------------------- MODULE LedgerProofs ---------------------------
(***************************************************************************)
(* The balance of every user is explained by the ledger, but for those the *)
(* history names: for any users, bookings, workers, requests and failures, *)
(* and operations that overlap in any way.                                 *)
(*                                                                         *)
(* The first half is about the sum LedgerExplainsBalance is stated with.   *)
(* The library folds a set with a recursive function over its subsets;     *)
(* what is needed of it (that the function exists, that the order of the   *)
(* elements does not matter, what one element more adds) is proved by      *)
(* looking at a smallest set that would be a counterexample.               *)
(*                                                                         *)
(* The second half is the invariant, which is inductive once the entries   *)
(* are known to be finitely many: a step of the service either leaves the  *)
(* balances alone and moves no money, or moves money for one entry.  If    *)
(* that entry is new, and the wallet was saved over a copy that was still  *)
(* current, both sides of the equation change alike.                       *)
(***************************************************************************)
EXTENDS WalletLedger, WalletServiceProofs, FiniteSetTheorems, WellFoundedInduction

-----------------------------------------------------------------------------
(***************************************************************************)
(* Sums.                                                                   *)
(***************************************************************************)
\* The sum of the amounts of a set of transactions, as Sums takes it.
Total(S) == MapThenSumSet(LAMBDA t : t.amount, S)

\* The function the library's fold is read from.
Unfolds(g, S) ==
    g = [s \in SUBSET S |->
            IF s = {} THEN 0
            ELSE LET x == CHOOSE x \in s : TRUE IN x.amount + g[s \ {x}]]

\* The library's definition, with its recursive function named.
LEMMA TotalIsAFold == ASSUME NEW S PROVE \E g : g = (CHOOSE h : Unfolds(h, S)) /\ Total(S) = g[S]
BY DEF Total, MapThenSumSet, MapThenFoldSet, Unfolds

\* A family of subsets of a finite set has a smallest member.
LEMMA MinimalSubset ==
    ASSUME NEW S, IsFiniteSet(S), NEW T \in SUBSET SUBSET S, T # {}
    PROVE  \E U \in T : \A V \in T : V \subseteq U => V = U
<1>1. SUBSET S = FiniteSubsetsOf(S)
  BY FS_FiniteSubsetsOfFinite
<1>2. IsWellFoundedOn(StrictSubsetOrdering(S), SUBSET S)
  BY <1>1, FS_StrictSubsetOrderingWellFounded
<1>3. PICK U \in T : \A V \in T : ~(<<V, U>> \in StrictSubsetOrdering(S))
  BY <1>2, WFMin
<1>4. ASSUME NEW V \in T, V \subseteq U, V # U PROVE FALSE
  BY <1>3, <1>4 DEF StrictSubsetOrdering
<1>. QED
  BY <1>3, <1>4

\* So has a set of naturals.
LEMMA SmallestNat ==
    ASSUME NEW T \in SUBSET Nat, T # {}
    PROVE  \E n \in T : \A m \in Nat : m < n => m \notin T
<1>1. PICK n \in T : \A m \in T : ~(<<m, n>> \in OpToRel(<, Nat))
  BY NatLessThanWellFounded, WFMin, Zenon
<1>. QED
  BY <1>1 DEF OpToRel

Small(S, n) == {s \in SUBSET S : Cardinality(s) <= n}

UnfoldsUpTo(g, S, n) ==
    g = [s \in Small(S, n) |->
            IF s = {} THEN 0
            ELSE LET x == CHOOSE x \in s : TRUE IN x.amount + g[s \ {x}]]

\* On the subsets of a finite set the fold is well defined.
LEMMA Exists ==
    ASSUME NEW S, IsFiniteSet(S)
    PROVE  \E g : Unfolds(g, S)
<1>. DEFINE bad == {n \in Nat : \A g : ~UnfoldsUpTo(g, S, n)}
<1>1. bad = {}
  <2>. SUFFICES ASSUME bad # {} PROVE FALSE
    OBVIOUS
  <2>1. PICK n \in bad : \A m \in Nat : m < n => m \notin bad
    BY SmallestNat
  <2>2. \A s \in SUBSET S : IsFiniteSet(s) /\ Cardinality(s) \in Nat
    BY FS_Subset, FS_CardinalityType
  <2>3. n \in Nat /\ \A g : ~UnfoldsUpTo(g, S, n)
    OBVIOUS
  <2>. HIDE DEF bad
  <2>4. CASE n = 0
    <3>. DEFINE g == [s \in Small(S, 0) |-> 0]
    <3>1. \A s \in Small(S, 0) : s = {}
      BY <2>2, FS_EmptySet DEF Small
    <3>2. UnfoldsUpTo(g, S, 0)
      BY <3>1 DEF UnfoldsUpTo
    <3>. QED
      BY <2>3, <2>4, <3>2
  <2>5. CASE n # 0
    <3>1. n - 1 \in Nat /\ n - 1 < n
      BY <2>3, <2>5
    <3>2. PICK h : UnfoldsUpTo(h, S, n - 1)
      BY <2>1, <3>1 DEF bad
    <3>. DEFINE g == [s \in Small(S, n) |->
                        IF s = {} THEN 0
                        ELSE LET x == CHOOSE x \in s : TRUE IN x.amount + h[s \ {x}]]
    <3>3. ASSUME NEW s \in Small(S, n), s # {}, NEW x \in s
          PROVE  s \ {x} \in Small(S, n - 1) /\ s \ {x} \in Small(S, n)
      <4>1. IsFiniteSet(s) /\ Cardinality(s) \in Nat /\ Cardinality(s) <= n
        BY <2>2 DEF Small
      <4>2. IsFiniteSet(s \ {x}) /\ Cardinality(s \ {x}) = Cardinality(s) - 1
        BY <4>1, FS_RemoveElement
      <4>. QED
        BY <2>3, <4>1, <4>2 DEF Small
    <3>4. \A s \in Small(S, n - 1) : s \in Small(S, n) /\ g[s] = h[s]
      <4>1. \A s \in Small(S, n - 1) : s \in Small(S, n)
        BY <2>2, <2>3 DEF Small
      <4>2. \A s \in Small(S, n - 1) : h[s] = IF s = {} THEN 0
                        ELSE LET x == CHOOSE x \in s : TRUE IN x.amount + h[s \ {x}]
        BY <3>2 DEF UnfoldsUpTo
      <4>. QED
        BY <4>1, <4>2
    <3>5. ASSUME NEW s \in Small(S, n), s # {}
          PROVE  \E x \in s : x = (CHOOSE y \in s : TRUE) /\ g[s \ {x}] = h[s \ {x}]
      <4>1. PICK x : x = (CHOOSE y \in s : TRUE)
        OBVIOUS
      <4>2. x \in s
        BY <3>5, <4>1
      <4>3. s \ {x} \in Small(S, n - 1)
        BY <3>3, <3>5, <4>2
      <4>. QED
        BY <3>4, <4>1, <4>2, <4>3
    <3>6. g = [s \in Small(S, n) |->
                        IF s = {} THEN 0
                        ELSE LET x == CHOOSE x \in s : TRUE IN x.amount + g[s \ {x}]]
      <4>1. ASSUME NEW s \in Small(S, n)
            PROVE  (IF s = {} THEN 0
                    ELSE LET x == CHOOSE x \in s : TRUE IN x.amount + h[s \ {x}])
                   = (IF s = {} THEN 0
                      ELSE LET x == CHOOSE x \in s : TRUE IN x.amount + g[s \ {x}])
        <5>. HIDE DEF g
        <5>1. CASE s # {}
          <6>1. PICK x \in s : x = (CHOOSE y \in s : TRUE) /\ g[s \ {x}] = h[s \ {x}]
            BY <3>5, <5>1
          <6>. QED
            BY <5>1, <6>1
        <5>. QED
          BY <5>1
      <4>2. \A s \in Small(S, n) : g[s] = 
                (IF s = {} THEN 0
                 ELSE LET x == CHOOSE x \in s : TRUE IN x.amount + g[s \ {x}])
        <5>1. \A s \in Small(S, n) : g[s] = 
                (IF s = {} THEN 0
                 ELSE LET x == CHOOSE x \in s : TRUE IN x.amount + h[s \ {x}])
          OBVIOUS
        <5>. HIDE DEF g
        <5>. QED
          BY <4>1, <5>1
      <4>3. DOMAIN g = Small(S, n) /\ g = [s \in DOMAIN g |-> g[s]]
        OBVIOUS
      <4>. HIDE DEF g
      <4>. QED
        BY <4>2, <4>3
    <3>. HIDE DEF g
    <3>. QED
      BY <2>3, <3>6 DEF UnfoldsUpTo
  <2>. QED
    BY <2>4, <2>5
<1>2. Cardinality(S) \in Nat
  BY FS_CardinalityType
<1>3. PICK g : UnfoldsUpTo(g, S, Cardinality(S))
  BY <1>1, <1>2
<1>4. Small(S, Cardinality(S)) = SUBSET S
  BY FS_Subset DEF Small
<1>. QED
  BY <1>3, <1>4 DEF UnfoldsUpTo, Unfolds

\* What the fold is at the empty set and at any other.
LEMMA UnfoldsAt ==
    ASSUME NEW S, NEW g, Unfolds(g, S), NEW s \in SUBSET S
    PROVE  /\ s = {} => g[s] = 0
           /\ s # {} => \E x \in s : x = (CHOOSE y \in s : TRUE) /\ g[s] = x.amount + g[s \ {x}]
<1>1. g[s] = IF s = {} THEN 0
             ELSE LET x == CHOOSE x \in s : TRUE IN x.amount + g[s \ {x}]
  BY DEF Unfolds
<1>2. PICK c : c = (CHOOSE y \in s : TRUE)
  OBVIOUS
<1>3. s # {} => c \in s
  BY <1>2
<1>. QED
  BY <1>1, <1>2, <1>3

\* Two unfoldings agree where both are defined.
LEMMA Agree ==
    ASSUME NEW S, IsFiniteSet(S), NEW g, Unfolds(g, S), NEW R \in SUBSET S,
           NEW h, Unfolds(h, R), NEW s \in SUBSET R
    PROVE  g[s] = h[s]
<1>. DEFINE bad == {u \in SUBSET R : g[u] # h[u]}
<1>1. bad = {}
  <2>. SUFFICES ASSUME bad # {} PROVE FALSE
    OBVIOUS
  <2>1. IsFiniteSet(R)
    BY FS_Subset
  <2>0. bad \in SUBSET SUBSET R
    OBVIOUS
  <2>. HIDE DEF bad
  <2>2. PICK u \in bad : \A v \in bad : v \subseteq u => v = u
    BY <2>0, <2>1, MinimalSubset
  <2>. USE DEF bad
  <2>3. u \in SUBSET R /\ u \in SUBSET S /\ g[u] # h[u]
    OBVIOUS
  <2>4. u # {}
    BY <2>3, UnfoldsAt
  <2>5. PICK x \in u : x = (CHOOSE y \in u : TRUE) /\ g[u] = x.amount + g[u \ {x}]
    BY <2>3, <2>4, UnfoldsAt
  <2>6. h[u] = x.amount + h[u \ {x}]
    <3>. HIDE DEF bad
    <3>1. PICK z \in u : z = (CHOOSE y \in u : TRUE) /\ h[u] = z.amount + h[u \ {z}]
      BY <2>3, <2>4, UnfoldsAt
    <3>2. z = x
      BY <2>5, <3>1
    <3>. QED
      BY <3>1, <3>2
  <2>7. g[u \ {x}] = h[u \ {x}]
    BY <2>2, <2>3
  <2>. QED
    BY <2>3, <2>5, <2>6, <2>7
<1>. QED
  BY <1>1

Amounts(S) == IsFiniteSet(S) /\ \A t \in S : t.amount \in Nat

\* The fold of natural amounts is a natural number.
LEMMA UnfoldsNat ==
    ASSUME NEW S, Amounts(S), NEW g, Unfolds(g, S), NEW s \in SUBSET S
    PROVE  g[s] \in Nat
<1>. DEFINE bad == {u \in SUBSET S : g[u] \notin Nat}
<1>1. bad = {}
  <2>. SUFFICES ASSUME bad # {} PROVE FALSE
    OBVIOUS
  <2>1. bad \in SUBSET SUBSET S /\ IsFiniteSet(S)
    BY DEF Amounts
  <2>. HIDE DEF bad
  <2>2. PICK u \in bad : \A v \in bad : v \subseteq u => v = u
    BY <2>1, MinimalSubset
  <2>. USE DEF bad
  <2>3. u \in SUBSET S /\ g[u] \notin Nat
    OBVIOUS
  <2>4. u # {}
    BY <2>3, UnfoldsAt
  <2>5. PICK x \in u : g[u] = x.amount + g[u \ {x}]
    BY <2>3, <2>4, UnfoldsAt
  <2>6. u \ {x} \in SUBSET S /\ u \ {x} \notin bad
    BY <2>2, <2>3
  <2>7. g[u \ {x}] \in Nat /\ x.amount \in Nat
    BY <2>3, <2>6 DEF Amounts
  <2>. QED
    BY <2>3, <2>5, <2>7
<1>. QED
  BY <1>1

\* The order in which the elements are taken does not matter.
LEMMA AnyOrder ==
    ASSUME NEW S, Amounts(S), NEW g, Unfolds(g, S), NEW s \in SUBSET S, NEW x \in s
    PROVE  g[s] = x.amount + g[s \ {x}]
<1>. DEFINE bad == {u \in SUBSET S : \E y \in u : g[u] # y.amount + g[u \ {y}]}
<1>1. bad = {}
  <2>. SUFFICES ASSUME bad # {} PROVE FALSE
    OBVIOUS
  <2>0. /\ bad \in SUBSET SUBSET S /\ IsFiniteSet(S)
        /\ \A v \in SUBSET S : v \notin bad => \A z \in v : g[v] = z.amount + g[v \ {z}]
    BY DEF Amounts
  <2>. HIDE DEF bad
  <2>1. PICK u \in bad : \A v \in bad : v \subseteq u => v = u
    BY <2>0, MinimalSubset
  <2>2. u \in SUBSET S
    BY <2>0
  <2>3. PICK y \in u : g[u] # y.amount + g[u \ {y}]
    BY DEF bad
  <2>4. PICK c \in u : g[u] = c.amount + g[u \ {c}]
    BY <2>2, <2>3, UnfoldsAt
  <2>5. c # y
    BY <2>3, <2>4
  <2>6. g[u \ {c}] = y.amount + g[(u \ {c}) \ {y}]
    BY <2>0, <2>1, <2>2, <2>5
  <2>7. g[u \ {y}] = c.amount + g[(u \ {y}) \ {c}]
    BY <2>0, <2>1, <2>2, <2>5
  <2>8. (u \ {c}) \ {y} = (u \ {y}) \ {c}
    OBVIOUS
  <2>9. g[(u \ {c}) \ {y}] \in Nat /\ c.amount \in Nat /\ y.amount \in Nat
    BY <2>2, UnfoldsNat DEF Amounts
  <2>10. PICK m \in Nat, a \in Nat, d \in Nat :
            m = g[(u \ {c}) \ {y}] /\ a = c.amount /\ d = y.amount
    BY <2>9
  <2>11. g[u] = a + (d + m) /\ g[u \ {y}] = a + m
    BY <2>4, <2>6, <2>7, <2>8, <2>10
  <2>12. a + (d + m) = d + (a + m)
    OBVIOUS
  <2>. QED
    BY <2>3, <2>10, <2>11, <2>12
<1>. QED
  BY <1>1

\* Total is the value of the fold at the whole set.
LEMMA TotalOf ==
    ASSUME NEW S, IsFiniteSet(S)
    PROVE  \E g : Unfolds(g, S) /\ Total(S) = g[S]
<1>1. PICK g : g = (CHOOSE h : Unfolds(h, S)) /\ Total(S) = g[S]
  BY TotalIsAFold
<1>. QED
  BY <1>1, Exists

\* Nothing sums to 0.
LEMMA TotalEmpty == Total({}) = 0
BY TotalOf, UnfoldsAt, FS_EmptySet

\* A sum of natural amounts is natural.
LEMMA TotalNat == ASSUME NEW S, Amounts(S) PROVE Total(S) \in Nat
BY TotalOf, UnfoldsNat DEF Amounts

\* One element more adds its amount.
LEMMA TotalAdds ==
    ASSUME NEW S, Amounts(S), NEW x, x \notin S, x.amount \in Nat
    PROVE  Amounts(S \cup {x}) /\ Total(S \cup {x}) = x.amount + Total(S)
<1>. DEFINE R == S \cup {x}
<1>1. Amounts(R)
  BY FS_AddElement DEF Amounts
<1>2. PICK g : Unfolds(g, R) /\ Total(R) = g[R]
  BY <1>1, TotalOf DEF Amounts
<1>3. PICK h : Unfolds(h, S) /\ Total(S) = h[S]
  BY TotalOf DEF Amounts
<1>4. R \ {x} = S /\ x \in R /\ S \in SUBSET R
  OBVIOUS
<1>. HIDE DEF R
<1>5. g[R] = x.amount + g[S]
  BY <1>1, <1>2, <1>4, AnyOrder
<1>6. g[S] = h[S]
  BY <1>1, <1>2, <1>3, <1>4, Agree DEF Amounts
<1>. QED
  BY <1>1, <1>2, <1>3, <1>5, <1>6 DEF R

-----------------------------------------------------------------------------
(***************************************************************************)
(* What is due.                                                            *)
(***************************************************************************)
\* An activation owes the record of the movement it stands behind.
LEMMA DueAt ==
    ASSUME NEW w
    PROVE  /\ At(w, "recordDebit") => DueOf(w) = {Entry("DEBIT", act[w].booking)}
           /\ At(w, "recordCredit") => DueOf(w) = {Entry("CREDIT", act[w].booking)}
           /\ At(w, "recordRefund") => DueOf(w) = {Entry("REFUND", act[w].booking)}
           /\ ~At(w, "recordDebit") /\ ~At(w, "recordCredit") /\ ~At(w, "recordRefund") =>
                  DueOf(w) = {}
<1>1. /\ RecordPoint("DEBIT") = "recordDebit"
      /\ RecordPoint("CREDIT") = "recordCredit"
      /\ RecordPoint("REFUND") = "recordRefund"
  BY DEF RecordPoint
<1>. QED
  BY <1>1 DEF DueOf, Stages, At

\* The same behind a step.
LEMMA DueThen ==
    ASSUME NEW w, NEW p, act'[w].pc = p
    PROVE  /\ p = "recordDebit" => DueOf(w)' = {Entry("DEBIT", act'[w].booking)}
           /\ p = "recordCredit" => DueOf(w)' = {Entry("CREDIT", act'[w].booking)}
           /\ p = "recordRefund" => DueOf(w)' = {Entry("REFUND", act'[w].booking)}
           /\ p \notin {"recordDebit", "recordCredit", "recordRefund"} => DueOf(w)' = {}
<1>1. /\ RecordPoint("DEBIT") = "recordDebit"
      /\ RecordPoint("CREDIT") = "recordCredit"
      /\ RecordPoint("REFUND") = "recordRefund"
  BY DEF RecordPoint
<1>. QED
  BY <1>1 DEF DueOf, Stages, At, Entry

\* What is due is due for an existing user, and a natural amount.
LEMMA DueTyped == ASSUME TypeOK PROVE Due \subseteq Transactions
<1>1. ASSUME NEW w \in Workers, NEW t \in DueOf(w) PROVE t \in Transactions
  <2>1. PICK s \in Stages : At(w, RecordPoint(s)) /\ t = Entry(s, act[w].booking)
    BY <1>1 DEF DueOf
  <2>2. Running(w)
    BY <2>1 DEF At, RecordPoint, Running
  <2>. QED
    BY <2>1, <2>2, RunningTypes DEF Entry, Transaction, Transactions
<1>2. ASSUME NEW r \in TopUps, NEW t \in DueTo(r) PROVE t \in Transactions
  BY <1>2, TopUpAssumption DEF DueTo, TopUpEntry, Transaction, Transactions
<1>. QED
  BY <1>1, <1>2 DEF Due

LEMMA EntriesTyped == ASSUME TypeOK PROVE Entries \subseteq Transactions
BY DueTyped DEF Entries, TypeOK, LedgerTypeOK

-----------------------------------------------------------------------------
(***************************************************************************)
(* The sums over the entries.                                              *)
(***************************************************************************)
FiniteEntries == IsFiniteSet(Entries)

EntriesOf(u) == {t \in Entries : t.user = u}

\* Sums is such a sum, over a user's entries of some types.
LEMMA SumsOf ==
    ASSUME NEW u, NEW types
    PROVE  Sums(u, types) = Total({t \in EntriesOf(u) : t.type \in types})
<1>1. {t \in EntriesOf(u) : t.type \in types} = {t \in Entries : t.user = u /\ t.type \in types}
  BY DEF EntriesOf
<1>. QED
  BY <1>1 DEF Sums, Total

\* The entries summed are finitely many, with natural amounts.
LEMMA SumsAmounts ==
    ASSUME FiniteEntries, TypeOK, NEW u, NEW types
    PROVE  Amounts({t \in EntriesOf(u) : t.type \in types})
<1>. DEFINE S == {t \in EntriesOf(u) : t.type \in types}
<1>1. S \in SUBSET Entries
  BY DEF EntriesOf
<1>2. IsFiniteSet(S)
  BY <1>1, FS_Subset DEF FiniteEntries
<1>3. \A t \in S : t.amount \in Nat
  BY <1>1, EntriesTyped DEF Transactions
<1>. QED
  BY <1>2, <1>3 DEF Amounts

LEMMA SumsNat ==
    ASSUME FiniteEntries, TypeOK, NEW u, NEW types
    PROVE  Sums(u, types) \in Nat
BY SumsOf, SumsAmounts, TotalNat

\* What a sum is behind a step.
LEMMA SumsThen ==
    ASSUME NEW u, NEW types, NEW E, E = EntriesOf(u)'
    PROVE  Sums(u, types)' = Total({t \in E : t.type \in types})
<1>1. {t \in Entries' : t.user = u /\ t.type \in types} = {t \in E : t.type \in types}
  BY DEF EntriesOf
<1>. QED
  BY <1>1 DEF Sums, Total, MapThenSumSet, MapThenFoldSet

\* A user with the same entries has the same sums.
LEMMA SumsKept ==
    ASSUME NEW u, NEW types, EntriesOf(u)' = EntriesOf(u)
    PROVE  Sums(u, types)' = Sums(u, types)
BY SumsOf, SumsThen

\* One entry more raises the sums of its type by its amount.
LEMMA SumsAdd ==
    ASSUME FiniteEntries, TypeOK, NEW u, NEW types, NEW t \in Transactions, t \notin EntriesOf(u),
           EntriesOf(u)' = EntriesOf(u) \cup {t}
    PROVE  Sums(u, types)' = Sums(u, types) + (IF t.type \in types THEN t.amount ELSE 0)
<1>1. PICK S : S = {x \in EntriesOf(u) : x.type \in types}
  OBVIOUS
<1>2. PICK R : R = {x \in EntriesOf(u) \cup {t} : x.type \in types}
  OBVIOUS
<1>3. Amounts(S) /\ Sums(u, types) = Total(S) /\ Total(S) \in Nat
  BY <1>1, SumsOf, SumsAmounts, TotalNat
<1>4. Sums(u, types)' = Total(R)
  BY <1>2, SumsThen
<1>5. t.amount \in Nat
  BY DEF Transactions
<1>6. CASE t.type \in types
  <2>1. R = S \cup {t} /\ t \notin S
    BY <1>1, <1>2, <1>6
  <2>2. Total(S \cup {t}) = t.amount + Total(S)
    BY <1>3, <1>5, <2>1, TotalAdds
  <2>. QED
    BY <1>3, <1>4, <1>5, <1>6, <2>1, <2>2
<1>7. CASE t.type \notin types
  <2>1. R = S
    BY <1>1, <1>2, <1>7
  <2>. QED
    BY <1>3, <1>4, <1>7, <2>1
<1>. QED
  BY <1>6, <1>7

-----------------------------------------------------------------------------
(***************************************************************************)
(* What a step of the wallet service does to balances and entries.         *)
(***************************************************************************)
\* Money is moved by nobody.
Still == UNCHANGED balance /\ MovedBy(Workers, TopUps) = {}

\* The guest of entry t is debited.
Takes(t) ==
    /\ t.type = "DEBIT" /\ balance[t.user] >= t.amount
    /\ balance' = [balance EXCEPT ![t.user] = @ - t.amount]

\* The wallet of entry t is saved with its amount added, to the present balance unless the
\* user counts as overwritten.
Gives(t) ==
    /\ t.type \in {"TOP_UP", "CREDIT", "REFUND"}
    /\ \E c : balance' = [balance EXCEPT ![t.user] = c + t.amount]
              /\ (c # balance[t.user] => t.user \in Overwritten)

\* A step records nothing but what is due, and moves money for one entry at most.
Accounts ==
    /\ transactions \subseteq transactions' /\ transactions' \subseteq Entries
    /\ \/ Still
       \/ \E t \in Transactions : MovedBy(Workers, TopUps) = {t} /\ (Takes(t) \/ Gives(t))

\* Where one activation, or one request, steps, nobody else moves money.
LEMMA MovedByOne ==
    ASSUME NEW w \in Workers, \A v \in Workers : v # w => UNCHANGED act[v], UNCHANGED request
    PROVE  MovedBy(Workers, TopUps) = DueOf(w)' \ DueOf(w)
<1>1. \A v \in Workers : v # w => DueOf(v)' = DueOf(v)
  BY DEF DueOf, At, Entry
<1>2. \A r \in TopUps : DueTo(r)' = DueTo(r)
  BY DEF DueTo, TopUpEntry
<1>. QED
  BY <1>1, <1>2 DEF MovedBy

LEMMA MovedByRequest ==
    ASSUME NEW r \in TopUps, \A q \in TopUps : q # r => UNCHANGED request[q], UNCHANGED act
    PROVE  MovedBy(Workers, TopUps) = DueTo(r)' \ DueTo(r)
<1>1. \A v \in Workers : DueOf(v)' = DueOf(v)
  BY DEF DueOf, At, Entry
<1>2. \A q \in TopUps : q # r => DueTo(q)' = DueTo(q)
  BY DEF DueTo, TopUpEntry
<1>. QED
  BY <1>1, <1>2 DEF MovedBy

\* A step of activation w that moves no money.
LEMMA SilentAccounts ==
    ASSUME NEW w \in Workers, \A v \in Workers : v # w => UNCHANGED act[v],
           UNCHANGED <<request, balance, transactions>>,
           act'[w].pc \notin {"recordDebit", "recordCredit", "recordRefund"}
    PROVE  Accounts
<1>1. DueOf(w)' = {}
  BY DueThen
<1>2. MovedBy(Workers, TopUps) = {}
  BY <1>1, MovedByOne
<1>. QED
  BY <1>2 DEF Accounts, Still, Entries

\* A step of activation w that records what is due.
LEMMA RecordAccounts ==
    ASSUME NEW w \in Workers, \A v \in Workers : v # w => UNCHANGED act[v],
           UNCHANGED <<request, balance>>,
           act'[w].pc \notin {"recordDebit", "recordCredit", "recordRefund"},
           NEW s \in Stages, NEW u, NEW b, Transaction(s, b, u, Amount[b]) \in DueOf(w),
           CreateTransaction(s, b, u, Amount[b])
    PROVE  Accounts
<1>1. DueOf(w)' = {}
  BY DueThen
<1>2. MovedBy(Workers, TopUps) = {}
  BY <1>1, MovedByOne
<1>3. transactions \subseteq transactions' /\ transactions' \subseteq Entries
  BY DEF CreateTransaction, Entries, Due
<1>. QED
  BY <1>2, <1>3 DEF Accounts, Still

\* What an activation owes, it owes for the user whose wallet it works on.
LEMMA EntryIs ==
    ASSUME NEW s \in Stages, NEW b \in Bookings
    PROVE  /\ Entry(s, b) \in Transactions
           /\ Entry(s, b).type = s /\ Entry(s, b).ref = b /\ Entry(s, b).amount = Amount[b]
           /\ Entry(s, b).user = IF s = "CREDIT" THEN Owner[b] ELSE Guest[b]
BY PaymentAssumption DEF Entry, Transaction, Transactions

\* debitWalletIfEnough.
LEMMA DebitAccounts ==
    ASSUME TypeOK, NEW w \in Workers, GuestDebit(w), UNCHANGED request
    PROVE  Accounts
<1>1. PICK b : b = act[w].booking
  OBVIOUS
<1>2. b \in Bookings /\ UNCHANGED transactions /\ act[w].pc = "debit"
  BY <1>1, RunningTypes DEF GuestDebit, At, Running
<1>3. CASE Enough(Guest[b], Amount[b])
  <2>1. /\ act'[w].pc = "recordDebit" /\ act'[w].booking = b
        /\ \A v \in Workers : v # w => UNCHANGED act[v]
    BY <1>1, <1>3, GotoEffect DEF GuestDebit, Goto
  <2>2. PICK t \in Transactions :
           /\ t = Entry("DEBIT", b) /\ t.type = "DEBIT" /\ t.amount = Amount[b]
           /\ t.user = Guest[b]
    BY <1>2, EntryIs DEF Stages
  <2>3. DueOf(w)' = {t} /\ DueOf(w) = {}
    BY <1>2, <2>1, <2>2, DueAt, DueThen DEF At
  <2>4. MovedBy(Workers, TopUps) = {t}
    BY <2>1, <2>3, MovedByOne
  <2>5. Takes(t)
    BY <1>1, <1>3, <2>2 DEF GuestDebit, Enough, DebitWallet, Takes
  <2>. QED
    BY <1>2, <2>4, <2>5 DEF Accounts, Entries
<1>4. CASE ~Enough(Guest[b], Amount[b])
  <2>1. /\ act'[w].pc = "emitInsufficient" /\ \A v \in Workers : v # w => UNCHANGED act[v]
        /\ UNCHANGED balance
    BY <1>1, <1>4, GotoEffect DEF GuestDebit, Goto
  <2>. QED
    BY <1>2, <2>1, SilentAccounts
<1>. QED
  BY <1>3, <1>4

\* creditWallet, for the owner's credit and the guest's refund.
LEMMA CreditAccounts ==
    ASSUME TypeOK, NEW w \in Workers, CreditOwner(w) \/ RefundGuest(w), UNCHANGED request
    PROVE  Accounts
<1>1. PICK b : b = act[w].booking
  OBVIOUS
<1>2. PICK s \in {"CREDIT", "REFUND"} :
         /\ s = "CREDIT" => CreditOwner(w)
         /\ s = "REFUND" => RefundGuest(w)
  OBVIOUS
<1>3. /\ b \in Bookings /\ UNCHANGED transactions /\ s \in Stages
      /\ s = "CREDIT" => act[w].pc = "creditOwner"
      /\ s = "REFUND" => act[w].pc = "refundGuest"
  BY <1>1, <1>2, RunningTypes DEF CreditOwner, RefundGuest, At, Running, Stages
<1>4. PICK t \in Transactions :
         /\ t = Entry(s, b) /\ t.type = s /\ t.amount = Amount[b]
         /\ t.user = IF s = "CREDIT" THEN Owner[b] ELSE Guest[b]
  BY <1>3, EntryIs
<1>5. /\ act'[w].pc = RecordPoint(s) /\ act'[w].booking = b
      /\ \A v \in Workers : v # w => UNCHANGED act[v]
  <2>1. CASE s = "CREDIT"
    BY <1>1, <1>2, <2>1, GotoEffect DEF CreditOwner, RecordPoint
  <2>2. CASE s = "REFUND"
    <3>1. RecordPoint("REFUND") = "recordRefund"
      BY DEF RecordPoint
    <3>2. /\ act'[w].pc = "recordRefund" /\ act'[w].booking = act[w].booking
          /\ \A v \in Workers : v # w => UNCHANGED act[v]
      <4>1. act' = [act EXCEPT ![w].pc = "recordRefund", ![w].copy = 0]
        BY <1>2, <2>2 DEF RefundGuest
      <4>. QED
        BY <4>1, GotoEffect
    <3>. QED
      BY <1>1, <2>2, <3>1, <3>2
  <2>. QED
    BY <2>1, <2>2
<1>6. DueOf(w)' = {t} /\ DueOf(w) = {}
  <2>1. CASE s = "CREDIT"
    BY <1>3, <1>4, <1>5, <2>1, DueAt, DueThen DEF At, RecordPoint
  <2>2. CASE s = "REFUND"
    BY <1>3, <1>4, <1>5, <2>2, DueAt, DueThen DEF At, RecordPoint
  <2>. QED
    BY <2>1, <2>2
<1>7. MovedBy(Workers, TopUps) = {t}
  BY <1>5, <1>6, MovedByOne
<1>8. balance' = [balance EXCEPT ![t.user] = act[w].copy + t.amount]
  <2>1. CASE s = "CREDIT"
    BY <1>1, <1>2, <1>4, <2>1 DEF CreditOwner, SaveWallet
  <2>2. CASE s = "REFUND"
    BY <1>1, <1>2, <1>4, <2>2 DEF RefundGuest, SaveWallet
  <2>. QED
    BY <2>1, <2>2
<1>9. ASSUME act[w].copy # balance[t.user] PROVE t.user \in Overwritten
  <2>1. IsStale(w)
    BY <1>1, <1>3, <1>4, <1>9 DEF IsStale, At
  <2>2. t \in MovedBy({v \in Workers : IsStale(v)}, {r \in TopUps : HoldsStale(r)})
    BY <1>6, <2>1 DEF MovedBy
  <2>. QED
    BY <2>2 DEF Overwritten, Of
<1>. QED
  BY <1>3, <1>4, <1>7, <1>8, <1>9 DEF Accounts, Entries, Gives

\* A step of a running handler.
LEMMA HandleAccounts ==
    ASSUME TypeOK, NEW w \in Workers, HandlerStep(w), UNCHANGED request
    PROVE  Accounts
<1>1. CASE GuestDebit(w)
  BY <1>1, DebitAccounts
<1>2. CASE CreditOwner(w) \/ RefundGuest(w)
  BY <1>2, CreditAccounts
<1>3. ASSUME NEW s \in Stages, ReadPrior(w, s) PROVE Accounts
  <2>1. PICK p : p = act'[w].pc
    OBVIOUS
  <2>2. \A v \in Workers : v # w => UNCHANGED act[v]
    BY <1>3 DEF ReadPrior, TypeOK, RunTypeOK
  <2>3. p \in {"reading", "emitRefunded", "emitSuccess", "readOwner", "debit"}
    <3>1. PICK prior, left :
             act' = [act EXCEPT ![w] = [act[w] EXCEPT
                        !.unread = left, !.prior = prior,
                        !.pc = IF left = {} THEN AfterRead(prior) ELSE "reading"]]
      BY <1>3 DEF ReadPrior
    <3>2. act[w] \in Activation
      BY DEF TypeOK, RunTypeOK
    <3>3. p = IF left = {} THEN AfterRead(prior) ELSE "reading"
      BY <2>1, <3>1, <3>2 DEF TypeOK, RunTypeOK, Activation
    <3>. QED
      BY <3>3 DEF AfterRead, AfterDebit
  <2>. QED
    BY <1>3, <2>1, <2>2, <2>3, SilentAccounts DEF ReadPrior, storeVars
<1>4. CASE RecordDebit(w)
  <2>1. PICK b : b = act[w].booking
    OBVIOUS
  <2>2. /\ act'[w].pc \in {"emitSuccess", "readOwner"}
        /\ \A v \in Workers : v # w => UNCHANGED act[v]
    BY <1>4, GotoEffect DEF RecordDebit, Goto, AfterDebit
  <2>3. DueOf(w) = {Transaction("DEBIT", b, Guest[b], Amount[b])}
    BY <1>4, <2>1, DueAt DEF RecordDebit, Entry
  <2>. QED
    BY <1>4, <2>1, <2>2, <2>3, RecordAccounts DEF RecordDebit, Stages
<1>5. CASE RecordCredit(w)
  <2>1. PICK b : b = act[w].booking
    OBVIOUS
  <2>2. act'[w].pc = "emitSuccess" /\ \A v \in Workers : v # w => UNCHANGED act[v]
    BY <1>5, GotoEffect DEF RecordCredit, Goto
  <2>3. DueOf(w) = {Transaction("CREDIT", b, Owner[b], Amount[b])}
    BY <1>5, <2>1, DueAt DEF RecordCredit, Entry
  <2>. QED
    BY <1>5, <2>1, <2>2, <2>3, RecordAccounts DEF RecordCredit, Stages
<1>6. CASE RecordRefund(w)
  <2>1. PICK b : b = act[w].booking
    OBVIOUS
  <2>2. act'[w].pc = "emitRefunded" /\ \A v \in Workers : v # w => UNCHANGED act[v]
    BY <1>6, GotoEffect DEF RecordRefund, Goto
  <2>3. DueOf(w) = {Transaction("REFUND", b, Guest[b], Amount[b])}
    BY <1>6, <2>1, DueAt DEF RecordRefund, Entry
  <2>. QED
    BY <1>6, <2>1, <2>2, <2>3, RecordAccounts DEF RecordRefund, Stages
<1>7. CASE ReadOwner(w) \/ FindRefund(w) \/ ReadGuest(w) \/ Emit(w)
  <2>1. PICK p, c :
           /\ p \in {"creditOwner", "emitRefunded", "readGuest", "refundGuest", "return"}
           /\ \/ act' = [act EXCEPT ![w].pc = p]
              \/ act' = [act EXCEPT ![w].pc = p, ![w].copy = c]
    BY <1>7 DEF ReadOwner, FindRefund, ReadGuest, Emit, Goto
  <2>2. act'[w].pc = p /\ \A v \in Workers : v # w => UNCHANGED act[v]
    BY <2>1, GotoEffect
  <2>3. UNCHANGED <<request, balance, transactions>>
    BY <1>7 DEF ReadOwner, FindRefund, ReadGuest, Emit, storeVars
  <2>4. act'[w].pc \notin {"recordDebit", "recordCredit", "recordRefund"}
    BY <2>1, <2>2
  <2>. QED
    BY <2>2, <2>3, <2>4, SilentAccounts
<1>8. CASE Return(w)
  BY <1>8, SilentAccounts DEF Return, Settle, storeVars, TypeOK, RunTypeOK, Idle
<1>. QED
  BY <1>1, <1>2, <1>3, <1>4, <1>5, <1>6, <1>7, <1>8 DEF HandlerStep

\* A call that fails, or an activation that dies.
LEMMA DisturbAccounts ==
    ASSUME TypeOK, NEW w \in Workers, Disturbance(w), UNCHANGED request
    PROVE  Accounts
<1>1. CASE CreditFails(w)
  <2>1. act'[w].pc = "findRefund" /\ \A v \in Workers : v # w => UNCHANGED act[v]
    BY <1>1, GotoEffect DEF CreditFails
  <2>. QED
    BY <1>1, <2>1, SilentAccounts DEF CreditFails, storeVars
<1>2. CASE CreditUnacknowledged(w)
  <2>1. PICK b : b = act[w].booking
    OBVIOUS
  <2>2. act'[w].pc = "findRefund" /\ \A v \in Workers : v # w => UNCHANGED act[v]
    BY <1>2, GotoEffect DEF CreditUnacknowledged, Goto
  <2>3. DueOf(w) = {Transaction("CREDIT", b, Owner[b], Amount[b])}
    BY <1>2, <2>1, DueAt DEF CreditUnacknowledged, Entry
  <2>. QED
    BY <1>2, <2>1, <2>2, <2>3, RecordAccounts DEF CreditUnacknowledged, Stages
<1>3. CASE AttemptFails(w) \/ Crash(w)
  BY <1>3, SilentAccounts DEF AttemptFails, Crash, Settle, storeVars, TypeOK, RunTypeOK, Idle
<1>. QED
  BY <1>1, <1>2, <1>3 DEF Disturbance

\* A step of a top-up request.
LEMMA RequestAccounts ==
    ASSUME TypeOK, NEW r \in TopUps, Arrive(r) \/ TopUpStep(r) \/ TopUpFails(r), UNCHANGED act
    PROVE  Accounts
<1>1. request \in [TopUps -> [pc : RequestPoints, copy : Nat]]
  BY DEF TypeOK, RequestTypeOK
<1>2. \A q \in TopUps : q # r => UNCHANGED request[q]
  BY <1>1 DEF Arrive, TopUpStep, FindExisting, ReadWallet, SaveTopUp, RecordTopUp, TopUpFails, Proceed
<1>3. MovedBy(Workers, TopUps) = DueTo(r)' \ DueTo(r)
  BY <1>2, MovedByRequest
<1>4. CASE Arrive(r) \/ FindExisting(r) \/ ReadWallet(r) \/ TopUpFails(r)
  <2>1. request'[r].pc # "record" /\ UNCHANGED <<balance, transactions>>
    BY <1>1, <1>4 DEF Arrive, FindExisting, ReadWallet, TopUpFails, Proceed, storeVars
  <2>. QED
    BY <1>3, <2>1 DEF DueTo, Accounts, Still, Entries
<1>5. CASE SaveTopUp(r)
  <2>1. /\ request[r].pc = "save" /\ request'[r].pc = "record" /\ UNCHANGED transactions
        /\ balance' = [balance EXCEPT ![TopUpUser[r]] = request[r].copy + TopUpAmount[r]]
    BY <1>1, <1>5 DEF SaveTopUp, Proceed, SaveWallet
  <2>2. PICK t \in Transactions : /\ t = TopUpEntry(r) /\ t.type = "TOP_UP"
                                  /\ t.user = TopUpUser[r] /\ t.amount = TopUpAmount[r]
    <3>1. PICK t : t = TopUpEntry(r)
      OBVIOUS
    <3>2. /\ t.type = "TOP_UP" /\ t.user = TopUpUser[r] /\ t.amount = TopUpAmount[r]
          /\ t \in Transactions
      BY <3>1, TopUpAssumption DEF TopUpEntry, Transaction, Transactions
    <3>. QED
      BY <3>1, <3>2
  <2>3. DueTo(r)' = {t} /\ DueTo(r) = {}
    BY <2>1, <2>2 DEF DueTo, TopUpEntry
  <2>4. ASSUME request[r].copy # balance[t.user] PROVE t.user \in Overwritten
    <3>1. HoldsStale(r)
      BY <2>1, <2>2, <2>4 DEF HoldsStale
    <3>2. t \in MovedBy({v \in Workers : IsStale(v)}, {q \in TopUps : HoldsStale(q)})
      BY <2>3, <3>1 DEF MovedBy
    <3>. QED
      BY <3>2 DEF Overwritten, Of
  <2>. QED
    BY <1>3, <2>1, <2>2, <2>3, <2>4 DEF Accounts, Entries, Gives
<1>6. CASE RecordTopUp(r)
  <2>1. request[r].pc = "record" /\ request'[r].pc # "record" /\ UNCHANGED balance
    BY <1>1, <1>6 DEF RecordTopUp, Proceed
  <2>2. DueTo(r) = {Transaction("TOP_UP", TopUpKey[r], TopUpUser[r], TopUpAmount[r])}
    BY <2>1 DEF DueTo, TopUpEntry
  <2>3. transactions \subseteq transactions' /\ transactions' \subseteq Entries
    BY <1>6, <2>2 DEF RecordTopUp, CreateTransaction, Entries, Due
  <2>4. DueTo(r)' = {}
    BY <2>1 DEF DueTo
  <2>. QED
    BY <1>3, <2>1, <2>3, <2>4 DEF Accounts, Still
<1>. QED
  BY <1>4, <1>5, <1>6 DEF TopUpStep

\* A step of the wallet service.
LEMMA NextAccounts == ASSUME TypeOK, [Next]_vars PROVE Accounts
<1>1. ASSUME UNCHANGED <<act, request, balance, transactions>> PROVE Accounts
  <2>1. MovedBy(Workers, TopUps) = {}
    BY <1>1 DEF MovedBy, DueOf, DueTo, At, Entry, TopUpEntry
  <2>. QED
    BY <1>1, <2>1 DEF Accounts, Still, Entries
<1>2. CASE UNCHANGED vars
  BY <1>1, <1>2 DEF vars, storeVars, processorVars, topUpVars
<1>3. ASSUME NEW b \in Bookings, Queue(b) PROVE Accounts
  BY <1>1, <1>3 DEF Queue, QueueStep, EnqueuePaymentJob, ExpireJob, LockExpires, storeVars, topUpVars
<1>4. ASSUME NEW w \in Workers, Handle(w) \/ Disturb(w) PROVE Accounts
  BY <1>4, HandleAccounts, DisturbAccounts DEF Handle, Disturb, topUpVars
<1>5. ASSUME NEW w \in Workers, NEW b \in Bookings, TakeJob(w, b) PROVE Accounts
  BY <1>5, SilentAccounts DEF TakeJob, PickJob, storeVars, topUpVars, TypeOK, RunTypeOK, Idle
<1>6. ASSUME NEW r \in TopUps, Accept(r) \/ Serve(r) \/ DropRequest(r) PROVE Accounts
  BY <1>6, RequestAccounts DEF Accept, Serve, DropRequest, processorVars
<1>. QED
  BY <1>2, <1>3, <1>4, <1>5, <1>6 DEF Next

-----------------------------------------------------------------------------
(***************************************************************************)
(* The invariant.                                                          *)
(***************************************************************************)
\* What becomes of the entries in a step.
LEMMA EntriesThen ==
    ASSUME Accounts
    PROVE  /\ Entries' \subseteq Entries \cup MovedBy(Workers, TopUps)
           /\ MovedBy(Workers, TopUps) \subseteq Entries'
           /\ \A t \in Entries \ Entries' : t.user \in Unrecorded
<1>1. transactions \subseteq transactions' /\ transactions' \subseteq Entries
  BY DEF Accounts
<1>2. ASSUME NEW t \in Due' PROVE t \in Entries \cup MovedBy(Workers, TopUps)
  <2>1. ASSUME NEW w \in Workers, t \in DueOf(w)' PROVE t \in Due \cup MovedBy(Workers, TopUps)
    <3>1. DueOf(w) \subseteq Due
      BY DEF Due
    <3>2. DueOf(w)' \ DueOf(w) \subseteq MovedBy(Workers, TopUps)
      BY DEF MovedBy
    <3>. QED
      BY <2>1, <3>1, <3>2
  <2>2. ASSUME NEW r \in TopUps, t \in DueTo(r)' PROVE t \in Due \cup MovedBy(Workers, TopUps)
    <3>1. DueTo(r) \subseteq Due
      BY DEF Due
    <3>2. DueTo(r)' \ DueTo(r) \subseteq MovedBy(Workers, TopUps)
      BY DEF MovedBy
    <3>. QED
      BY <2>2, <3>1, <3>2
  <2>. QED
    BY <1>2, <2>1, <2>2 DEF Due, Entries
<1>3. MovedBy(Workers, TopUps) \subseteq Due'
  BY DEF MovedBy, Due
<1>. QED
  BY <1>1, <1>2, <1>3 DEF Entries, Unrecorded, Of

\* The entries stay finitely many.
LEMMA NextFinite == ASSUME FiniteEntries, Accounts PROVE FiniteEntries'
<1>1. PICK S : IsFiniteSet(S) /\ MovedBy(Workers, TopUps) \subseteq S
  BY FS_Singleton, FS_EmptySet DEF Accounts, Still
<1>2. IsFiniteSet(Entries \cup S)
  BY <1>1, FS_Union DEF FiniteEntries
<1>3. Entries' \subseteq Entries \cup S
  BY <1>1, EntriesThen
<1>. QED
  BY <1>2, <1>3, FS_Subset DEF FiniteEntries

\* The entries of a user, as far as they count, in a step that does not blur the balance.
LEMMA OneUser ==
    ASSUME Accounts, NEW u, u \notin MovedAgain, u \notin Unrecorded
    PROVE  \/ /\ EntriesOf(u)' = EntriesOf(u)
              /\ \A t \in MovedBy(Workers, TopUps) : t.user # u
           \/ \E t : /\ MovedBy(Workers, TopUps) = {t} /\ t.user = u /\ t \notin EntriesOf(u)
                     /\ EntriesOf(u)' = EntriesOf(u) \cup {t}
<1>1. /\ Entries' \subseteq Entries \cup MovedBy(Workers, TopUps)
      /\ MovedBy(Workers, TopUps) \subseteq Entries'
      /\ \A t \in Entries : t.user = u => t \in Entries'
  BY EntriesThen
<1>2. CASE \A t \in MovedBy(Workers, TopUps) : t.user # u
  BY <1>1, <1>2 DEF EntriesOf
<1>3. ASSUME NEW t \in MovedBy(Workers, TopUps), t.user = u
      PROVE  /\ MovedBy(Workers, TopUps) = {t} /\ t \notin EntriesOf(u)
             /\ EntriesOf(u)' = EntriesOf(u) \cup {t}
  <2>1. MovedBy(Workers, TopUps) = {t}
    BY <1>3 DEF Accounts, Still
  <2>2. t \notin transactions \cup Due
    BY <1>3 DEF MovedAgain, Of
  <2>. QED
    BY <1>1, <1>3, <2>1, <2>2 DEF EntriesOf, Entries
<1>. QED
  BY <1>2, <1>3

Credits == {"TOP_UP", "CREDIT", "REFUND"}

\* The balance of u is explained.
Tallies(u) == balance[u] + Sums(u, {"DEBIT"}) = Opening[u] + Sums(u, Credits)

LEMMA StepTallies ==
    ASSUME TypeOK, FiniteEntries, Accounts, NEW u \in Users, Tallies(u),
           u \notin Overwritten, u \notin MovedAgain, u \notin Unrecorded
    PROVE  Tallies(u)'
<1>1. PICK d \in Nat, c \in Nat, o \in Nat, n \in Nat :
         d = Sums(u, {"DEBIT"}) /\ c = Sums(u, Credits) /\ o = Opening[u] /\ n = balance[u]
  BY SumsNat, OpeningAssumption DEF TypeOK, BalanceTypeOK
<1>2. n + d = o + c
  BY <1>1 DEF Tallies
<1>3. CASE EntriesOf(u)' = EntriesOf(u) /\ \A t \in MovedBy(Workers, TopUps) : t.user # u
  <2>1. Sums(u, {"DEBIT"})' = d /\ Sums(u, Credits)' = c
    BY <1>1, <1>3, SumsKept
  <2>2. balance'[u] = n
    <3>1. CASE Still
      BY <1>1, <3>1 DEF Still
    <3>2. ASSUME NEW t \in Transactions, MovedBy(Workers, TopUps) = {t}, Takes(t) \/ Gives(t)
          PROVE  balance'[u] = n
      <4>1. t.user # u
        BY <1>3, <3>2
      <4>. QED
        BY <1>1, <3>2, <4>1 DEF Takes, Gives, TypeOK, BalanceTypeOK
    <3>. QED
      BY <3>1, <3>2 DEF Accounts
  <2>. QED
    BY <1>1, <1>2, <2>1, <2>2 DEF Tallies
<1>4. ASSUME NEW t, MovedBy(Workers, TopUps) = {t}, t.user = u, t \notin EntriesOf(u),
             EntriesOf(u)' = EntriesOf(u) \cup {t}
      PROVE  Tallies(u)'
  <2>1. t \in Transactions /\ (Takes(t) \/ Gives(t))
    BY <1>4 DEF Accounts, Still
  <2>2. PICK a \in Nat : a = t.amount
    BY <2>1 DEF Transactions
  <2>3. /\ Sums(u, {"DEBIT"})' = d + IF t.type = "DEBIT" THEN a ELSE 0
        /\ Sums(u, Credits)' = c + IF t.type \in Credits THEN a ELSE 0
    BY <1>1, <1>4, <2>1, <2>2, SumsAdd
  <2>4. CASE Takes(t)
    <3>1. t.type = "DEBIT" /\ t.type \notin Credits /\ n >= a /\ balance'[u] = n - a
      BY <1>1, <1>4, <2>2, <2>4 DEF Takes, Credits, TypeOK, BalanceTypeOK
    <3>. QED
      BY <1>1, <1>2, <2>3, <3>1 DEF Tallies
  <2>5. CASE Gives(t)
    <3>1. t.type # "DEBIT" /\ t.type \in Credits /\ balance'[u] = n + a
      BY <1>1, <1>4, <2>2, <2>5 DEF Gives, Credits, TypeOK, BalanceTypeOK
    <3>. QED
      BY <1>1, <1>2, <2>3, <3>1 DEF Tallies
  <2>. QED
    BY <2>1, <2>4, <2>5
<1>. QED
  BY <1>3, <1>4, OneUser

-----------------------------------------------------------------------------
(***************************************************************************)
(* Theorems.                                                               *)
(***************************************************************************)
LEMMA LedgerSteps == ASSUME [LedgerNext]_ledgerVars PROVE [Next]_vars
BY DEF LedgerNext, ledgerVars

LEMMA IsASpec == LedgerSpec => Spec
<1>1. LedgerInit => Init
  BY DEF LedgerInit
<1>2. [LedgerNext]_ledgerVars => [Next]_vars
  BY LedgerSteps
<1>. QED
  BY <1>1, <1>2, PTL DEF LedgerSpec, Spec

\* However long the service runs, the movements recorded and due are finitely many.
THEOREM EntriesAreFinite == LedgerSpec => []FiniteEntries
<1>1. LedgerInit => FiniteEntries
  <2>1. LedgerInit => Entries = {}
    BY DEF LedgerInit, Init, StoreInit, ProcessorInit, TopUpInit, Entries, Due, DueOf, DueTo, At,
           RecordPoint, Idle
  <2>. QED
    BY <2>1, FS_EmptySet DEF FiniteEntries
<1>2. TypeOK /\ FiniteEntries /\ [LedgerNext]_ledgerVars => FiniteEntries'
  BY LedgerSteps, NextAccounts, NextFinite
<1>3. LedgerSpec => []TypeOK
  BY IsASpec, TypeCorrect, PTL
<1>. QED
  BY <1>1, <1>2, <1>3, PTL DEF LedgerSpec

\* For every user whose wallet was never saved over a newer balance, never moved twice for
\* one record and never left without a record, the balance is the opening balance plus what
\* was topped up, credited and refunded, minus what was debited, whatever overlaps or fails.
THEOREM LedgerExplains == LedgerSpec => []LedgerExplainsBalance
<1>1. LedgerInit => LedgerExplainsBalance
  <2>. SUFFICES ASSUME LedgerInit, NEW u \in Users
                PROVE  balance[u] + Sums(u, {"DEBIT"}) = Opening[u] + Sums(u, Credits)
    BY DEF LedgerExplainsBalance, Credits
  <2>1. Entries = {}
    BY DEF LedgerInit, Init, StoreInit, ProcessorInit, TopUpInit, Entries, Due, DueOf, DueTo, At,
           RecordPoint, Idle
  <2>2. \A types : {t \in EntriesOf(u) : t.type \in types} = {}
    BY <2>1 DEF EntriesOf
  <2>3. \A types : Sums(u, types) = 0
    BY <2>2, SumsOf, TotalEmpty
  <2>. QED
    BY <2>3 DEF LedgerInit, Init, StoreInit
<1>2. TypeOK /\ FiniteEntries /\ LedgerExplainsBalance /\ [LedgerNext]_ledgerVars
          => LedgerExplainsBalance'
  <2>. SUFFICES ASSUME TypeOK, FiniteEntries, LedgerExplainsBalance, [LedgerNext]_ledgerVars,
                       NEW u \in Users \ blurred'
                PROVE  Tallies(u)'
    BY DEF LedgerExplainsBalance, Tallies, Credits
  <2>1. CASE UNCHANGED ledgerVars
    <3>1. u \notin blurred
      BY <2>1 DEF ledgerVars
    <3>2. Tallies(u)
      BY <3>1 DEF LedgerExplainsBalance, Tallies, Credits
    <3>3. UNCHANGED <<act, request, balance, transactions>>
      BY <2>1 DEF ledgerVars, vars, storeVars, processorVars, topUpVars
    <3>4. Entries' = Entries
      BY <3>3 DEF Entries, Due, DueOf, DueTo, At, Entry, TopUpEntry
    <3>5. EntriesOf(u)' = EntriesOf(u)
      BY <3>4 DEF EntriesOf
    <3>. QED
      BY <3>2, <3>3, <3>5, SumsKept DEF Tallies
  <2>2. CASE LedgerNext
    <3>1. u \notin blurred \cup Overwritten \cup MovedAgain \cup Unrecorded
      BY <2>2 DEF LedgerNext
    <3>2. Tallies(u)
      BY <3>1 DEF LedgerExplainsBalance, Tallies, Credits
    <3>3. Accounts
      BY <2>2, LedgerSteps, NextAccounts
    <3>. QED
      BY <3>1, <3>2, <3>3, StepTallies
  <2>. QED
    BY <2>1, <2>2
<1>3. LedgerSpec => []TypeOK
  BY IsASpec, TypeCorrect, PTL
<1>. QED
  BY <1>1, <1>2, <1>3, EntriesAreFinite, PTL DEF LedgerSpec
=============================================================================
