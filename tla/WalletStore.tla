---------------------------- MODULE WalletStore ----------------------------
(***************************************************************************)
(* The two Mongo collections of the wallet service and the statements its  *)
(* repository runs on them (wallet.repository.js, wallet.model.js,         *)
(* transaction.model.js).  Each operator is one statement the database     *)
(* executes atomically; everything between two statements is an await, and *)
(* other requests run there.  PaymentProcessor and WalletTopUp are the     *)
(* clients.                                                                *)
(***************************************************************************)
EXTENDS Naturals

CONSTANTS
    Users,      \* user ids: guests, hotel owners and admins
    Opening     \* [Users -> Nat]: the balances the collection starts with

ASSUME OpeningAssumption == Opening \in [Users -> Nat]

VARIABLES
    balance,        \* wallets.balance by userId; an absent document reads as 0
    transactions    \* the transactions collection, append only

storeVars == <<balance, transactions>>

(***************************************************************************)
(* A transaction.  `ref` stands for the two unique columns at once:        *)
(* `booking:<id>:<type>` and `<idempotencyKey>:<type>` are determined by   *)
(* the booking and the type, `topup:<user>:<key>` and `<key>` by the       *)
(* idempotency key of the top-up.                                          *)
(***************************************************************************)
Transaction(type, ref, user, amount) ==
    [type |-> type, ref |-> ref, user |-> user, amount |-> amount]

\* findTransactionByIdempotencyKey: is there a document with this key?
Recorded(type, ref) ==
    \E t \in transactions : t.type = type /\ t.ref = ref

\* Mutant of Enough: a debit without the balance filter.
EnoughUnfiltered(user, amount) == amount >= 0

\* The filter {balance: {$gte: amount}} of debitWalletIfEnough.
Enough(user, amount) == balance[user] >= amount

\* findOneAndUpdate with $inc: one atomic statement, no stale value involved.
DebitWallet(user, amount) ==
    balance' = [balance EXCEPT ![user] = @ - amount]

\* wallet.save(): Mongoose sends {$set: {balance: <value computed from the
\* document read earlier>}} with a filter on _id alone, so whatever was written
\* in between is overwritten.
SaveWallet(user, readBalance, amount) ==
    balance' = [balance EXCEPT ![user] = readBalance + amount]

\* Transaction.create against the unique indexes: a duplicate inserts nothing.
CreateTransaction(type, ref, user, amount) ==
    transactions' = IF Recorded(type, ref)
                    THEN transactions
                    ELSE transactions \cup {Transaction(type, ref, user, amount)}

StoreInit ==
    /\ balance = Opening
    /\ transactions = {}
=============================================================================
