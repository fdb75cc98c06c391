---------------------------- MODULE WalletLedger ----------------------------
(***************************************************************************)
(* Balances against the ledger.  Every movement of money is two statements *)
(* on two collections, the wallet first and its transaction some awaits    *)
(* later, and creditWallet and topUpWallet save a balance computed from    *)
(* the copy they read.  This module runs the wallet service and keeps the  *)
(* history of what can come between a balance and its transactions.        *)
(***************************************************************************)
EXTENDS WalletService, FiniteSetsExt

VARIABLE
    blurred     \* history: users whose balance was overwritten, moved twice or not recorded

ledgerVars == <<vars, blurred>>

\* The document that records a movement of a payment, and that of a top-up.
Entry(s, b) == Transaction(s, b, IF s = "CREDIT" THEN Owner[b] ELSE Guest[b], Amount[b])

TopUpEntry(r) == Transaction("TOP_UP", TopUpKey[r], TopUpUser[r], TopUpAmount[r])

\* The point between a movement and its record.
RecordPoint(s) ==
    CASE s = "DEBIT" -> "recordDebit" [] s = "CREDIT" -> "recordCredit"
      [] OTHER -> "recordRefund"

\* What an activation, or a request, has moved and is about to record.
DueOf(w) == {Entry(s, act[w].booking) : s \in {x \in Stages : At(w, RecordPoint(x))}}

DueTo(r) == IF request[r].pc = "record" THEN {TopUpEntry(r)} ELSE {}

Due == UNION ({DueOf(w) : w \in Workers} \cup {DueTo(r) : r \in TopUps})

\* The copy that will be written back is not the balance any more.
IsStale(w) ==
    \/ At(w, "creditOwner") /\ act[w].copy # balance[Owner[act[w].booking]]
    \/ At(w, "refundGuest") /\ act[w].copy # balance[Guest[act[w].booking]]

HoldsStale(r) == request[r].pc = "save" /\ request[r].copy # balance[TopUpUser[r]]

(***************************************************************************)
(* What a step may do to a balance beyond moving money for one record.     *)
(***************************************************************************)
\* What the activations W and the requests R move in this step.
MovedBy(W, R) ==
    UNION ({DueOf(w)' \ DueOf(w) : w \in W} \cup {DueTo(r)' \ DueTo(r) : r \in R})

Of(entries) == {t.user : t \in entries}

\* wallet.save() of a stale copy: what was written in between is gone.
Overwritten ==
    Of(MovedBy({w \in Workers : IsStale(w)}, {r \in TopUps : HoldsStale(r)}))

\* Money is moved that has its record, or is about to get it.
MovedAgain == Of(MovedBy(Workers, TopUps) \cap (transactions \cup Due))

\* An operation ends, or goes on, between the movement and its record.
Unrecorded == Of(Due \ (transactions' \cup Due'))

LedgerInit == Init /\ blurred = {}

LedgerNext ==
    /\ Next
    /\ blurred' = blurred \cup Overwritten \cup MovedAgain \cup Unrecorded

LedgerSpec == LedgerInit /\ [][LedgerNext]_ledgerVars

-----------------------------------------------------------------------------
Entries == transactions \cup Due

Sums(user, types) ==
    MapThenSumSet(LAMBDA t : t.amount, {t \in Entries : t.user = user /\ t.type \in types})

\* A stale save, a movement made twice for one record and a movement that is never
\* recorded are all that can come between a balance and the ledger.  For every other user,
\* whatever runs at the same time on the wallet, however it fails or is repeated, the
\* balance is the opening balance plus what was topped up, credited and refunded, minus
\* what was debited, on the ledger or about to be put there.
LedgerExplainsBalance ==
    \A u \in Users \ blurred :
        balance[u] + Sums(u, {"DEBIT"}) = Opening[u] + Sums(u, {"TOP_UP", "CREDIT", "REFUND"})
=============================================================================
