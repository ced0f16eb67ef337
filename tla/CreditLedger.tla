---------------------------- MODULE CreditLedger ----------------------------
(***************************************************************************)
(* The credit ledger of backend/app/modules/credits and its worker-side    *)
(* mirror in backend/app/modules/pipeline/finalize.py: an append-only      *)
(* table of transactions with one row per (user, idempotency key), and a   *)
(* cached balance row per user that is changed in the same database        *)
(* transaction, under that row's SELECT ... FOR UPDATE lock.               *)
(*                                                                         *)
(* The operators below are whole database transactions, or the part of one *)
(* from taking the row lock to the commit.  The modules that call them     *)
(* decide when the unlocked "does this key exist" query happens.           *)
(***************************************************************************)
EXTENDS Integers, FiniteSets, FiniteSetsExt

CONSTANTS
    Users,          \* owners of a balance row
    Keys,           \* what follows the prefix of an idempotency key
    InitialBalance, \* credits granted to each user before the model starts
    None            \* no holder of a row lock, no job in hand

\* The key of the grant that put InitialBalance on the account.
Opening == "opening"

ASSUME LedgerAssumption ==
    /\ InitialBalance \in [Users -> Nat]
    /\ None \notin Users
    /\ Opening \notin Keys

VARIABLES
    balance,    \* credit_balances.balance
    held,       \* credit_balances.held: reserved, not yet debited
    txns,       \* committed rows of credit_transactions
    lockedBy    \* the open transaction that holds a user's balance row lock

ledgerVars == <<balance, held, txns, lockedBy>>

TxnType == {"grant", "hold", "debit", "refund", "reversal"}

\* The idempotency key column is the prefix named by the type, then the key.
Txn == [user: Users, type: TxnType, key: Keys \cup {Opening}, amount: Int]

Row(u, type, k, amount) ==
    [user |-> u, type |-> type, key |-> k, amount |-> amount]

LedgerInit ==
    /\ balance = InitialBalance
    /\ held = [u \in Users |-> 0]
    /\ txns = {Row(u, "grant", Opening, InitialBalance[u]) :
                 u \in {v \in Users : InitialBalance[v] > 0}}
    /\ lockedBy = [u \in Users |-> None]

LedgerTypeOK ==
    /\ balance \in [Users -> Nat]
    /\ held \in [Users -> Nat]
    /\ txns \subseteq Txn

-----------------------------------------------------------------------------
\* The query that makes every ledger operation idempotent.  It takes no lock.
Posted(u, type, k) ==
    \E t \in txns : t.user = u /\ t.type = type /\ t.key = k

\* Mutant: SELECT without FOR UPDATE.
RowLockIgnored(u) == TRUE

\* Nobody else's open transaction holds the balance row.
RowLockFree(u) == lockedBy[u] = None

\* Mutants: the clamp is forgotten; nothing is taken off.
UnclampedSub(a, b) == a - b
NothingTaken(a, b) == a

\* max(0, a - b)
ClampedSub(a, b) == IF a >= b THEN a - b ELSE 0

\* balance - held: what a new hold may reserve.
Available(u) == balance[u] - held[u]

\* Mutant: no unique index on the key.
DebitWithoutUniqueIndex(u, k, amount) == RowLockFree(u) /\ balance[u] < amount

(***************************************************************************)
(* The insert fails, and with it the whole transaction, when the unique    *)
(* index already has the key or when the CHECK on the balance would break. *)
(***************************************************************************)
DebitRejected(u, k, amount) ==
    /\ RowLockFree(u)
    /\ Posted(u, "debit", k) \/ balance[u] < amount

RefundRejected(u, k) ==
    /\ RowLockFree(u)
    /\ Posted(u, "refund", k)

\* Mutant: the connection goes back to the pool with its transaction open.
RowLockKept(u, tx) == UNCHANGED lockedBy

\* The end of a transaction gives its row lock up.
Unlock(u, tx) == lockedBy' = [lockedBy EXCEPT ![u] = IF @ = tx THEN None ELSE @]

\* Reserve: the commit of a transaction that posted holds under the row lock.
CommitHolds(u, tx, K, total) ==
    /\ txns' = txns \cup {Row(u, "hold", k, 0) : k \in K}
    /\ held' = [held EXCEPT ![u] = @ + total]
    /\ Unlock(u, tx)
    /\ UNCHANGED balance

\* Convert a hold into a debit.
Debit(u, k, amount) ==
    /\ RowLockFree(u)
    /\ ~DebitRejected(u, k, amount)
    /\ txns' = txns \cup {Row(u, "debit", k, -amount)}
    /\ balance' = [balance EXCEPT ![u] = @ - amount]
    /\ held' = [held EXCEPT ![u] = ClampedSub(@, amount)]
    /\ UNCHANGED lockedBy

\* Mutant: no refund row when too little is held to release.
RefundOnlyIfHeld(u, k, amount) ==
    /\ RowLockFree(u)
    /\ ~RefundRejected(u, k)
    /\ held' = [held EXCEPT ![u] = ClampedSub(@, amount)]
    /\ txns' = IF held[u] >= amount THEN txns \cup {Row(u, "refund", k, 0)} ELSE txns
    /\ UNCHANGED <<balance, lockedBy>>

\* Release a hold: the ledger row carries no amount, only held moves.
RefundHold(u, k, amount) ==
    /\ RowLockFree(u)
    /\ ~RefundRejected(u, k)
    /\ txns' = txns \cup {Row(u, "refund", k, 0)}
    /\ held' = [held EXCEPT ![u] = ClampedSub(@, amount)]
    /\ UNCHANGED <<balance, lockedBy>>

\* Transaction tx takes the row lock, which it keeps until its end.
LockBalance(u, tx) ==
    /\ RowLockFree(u)
    /\ lockedBy' = [lockedBy EXCEPT ![u] = tx]

\* Add purchased or granted credits to the balance that was read under the lock.
CommitGrant(u, tx, k, amount, seen) ==
    /\ txns' = txns \cup {Row(u, "grant", k, amount)}
    /\ balance' = [balance EXCEPT ![u] = seen + amount]
    /\ Unlock(u, tx)
    /\ UNCHANGED held

\* What a reversal takes: by policy never more than there is.
Deducted(amount, allowNegative, seen) ==
    IF allowNegative \/ amount <= seen THEN amount ELSE seen

\* Take a grant back.  The cached balance stops at zero, the ledger does not.
CommitReversal(u, tx, k, amount, allowNegative, seen) ==
    LET deduct == Deducted(amount, allowNegative, seen)
    IN  /\ txns' = txns \cup {Row(u, "reversal", k, -deduct)}
        /\ balance' = [balance EXCEPT ![u] = ClampedSub(seen, deduct)]
        /\ Unlock(u, tx)
        /\ UNCHANGED held

-----------------------------------------------------------------------------
RowsOf(u) == {t \in txns : t.user = u}

\* What the ledger says a user owns.
LedgerSum(u) ==
    LET amount == [t \in Txn |-> t.amount]
    IN  SumFunctionOnSet(amount, RowsOf(u))

\* The cached balance of every user is the sum of that user's ledger rows
\* (credits/models.py: "Balance is the sum of credit_transactions.amount").
BalanceIsLedgerSum == \A u \in Users : balance[u] = LedgerSum(u)

\* No user has more credits reserved than owned, so that what can be reserved
\* is never negative (credits/service.py: the row lock on every change).
Solvent == \A u \in Users : 0 <= held[u] /\ held[u] <= balance[u]
=============================================================================
