------------------------------- MODULE Payments -------------------------------
(***************************************************************************)
(* Fulfilment of payment webhooks (backend/app/modules/payments) over the  *)
(* credit ledger, while the users whose payments they are spend credits    *)
(* and change their settings.                                              *)
(*                                                                         *)
(* A webhook call is one database transaction, answered after its commit.  *)
(* The provider repeats an event until a call for it is answered, may      *)
(* repeat it at any other time, and keeps no order between events.  What a *)
(* call read is what it works with: everything else may commit between     *)
(* two of its queries, unless a lock or a unique index makes it wait.      *)
(***************************************************************************)
EXTENDS CreditLedger

CONSTANTS
    Events,        \* provider_event_id of every event the provider sends
    Kind,          \* Kind[e]: which handler the event's type selects
    Session,       \* Session[e]: the checkout session the event is about
    Buyer,         \* Buyer[e]: the user in the event's metadata
    Named,         \* refunds and chargebacks whose payload names the user at all
    Credits,       \* Credits[e]: of the plan bought; of a refund, data["credits"]
    PlanOf,        \* PlanOf[e]: the plan bought
    SubPlans,      \* plans of kind SUBSCRIPTION
    AllowNegative, \* settings.payments_allow_negative_balance
    Calls,         \* webhook requests that can be in progress at once
    Spends,        \* jobs the users run
    Spender, Cost, \* the user and the cost of a job
    Gifts,         \* grants by an admin
    Recipient,     \* the user who is given credits
    Gift,          \* how many
    Patches,       \* calls of PATCH /users/me/settings
    Patcher,       \* the user who makes the call
    MaxDuplicates, \* bound: deliveries beyond the ones that a retry explains
    MaxFaults      \* bound: calls that fail or whose answer is lost

Kinds == {"purchase", "refund", "chargeback"}
Purchases == {e \in Events : Kind[e] = "purchase"}

\* A grant of nothing is refused (credits/service.py), so a plan has credits.
ASSUME EventAssumption ==
    /\ Events \cup Spends \cup Gifts \subseteq Keys
    /\ Events \cap Gifts = {}
    /\ Kind \in [Events -> Kinds]
    /\ Buyer \in [Events -> Users]
    /\ DOMAIN Session = Events /\ DOMAIN PlanOf = Events
    /\ Named \subseteq Events
    /\ Credits \in [Events -> Nat]
    /\ \A e \in Purchases : Credits[e] > 0
    /\ AllowNegative \in BOOLEAN

ASSUME ActorAssumption ==
    /\ None \notin Calls \cup Events
    /\ Spender \in [Spends -> Users]
    /\ Cost \in [Spends -> Nat \ {0}]
    /\ Patcher \in [Patches -> Users]
    /\ Recipient \in [Gifts -> Users]
    /\ Gift \in Nat \ {0}
    /\ MaxDuplicates \in Nat
    /\ MaxFaults \in Nat

VARIABLES
    opened,     \* users with a committed credit_balances row
    payments,   \* committed rows of payments
    subs,       \* subs[u][s]: committed subscription rows of u for plan s
    plans,      \* plans[u]: settings_json["plans"] of the committed users row
    call,       \* each webhook call: its step and what it has read
    patch,      \* each settings call
    acked,      \* events the provider has an answer for
    duplicates, \* surplus deliveries so far
    faults      \* faults so far

storeVars == <<opened, payments, subs, plans>>
sentVars  == <<acked, duplicates>>
vars == <<ledgerVars, storeVars, sentVars, call, patch, faults>>

CallPc == {"idle", "lookup", "find", "insert", "post", "open", "subscribe",
           "entitle", "commit"}

\* The steps of a call that has a payment row of its own, uncommitted.
Inserted == {"post", "open", "subscribe", "entitle", "commit"}

Payment == [event: Events, kind: Kinds, user: Users, credits: Nat]

CallState ==
    [pc: CallPc, event: Events \cup {None}, user: Users \cup {None}, credits: Nat,
     posts: BOOLEAN, seen: Nat, newSub: BOOLEAN, plans: SUBSET SubPlans]

\* lost is history: the plans that the call has taken off the list.
PatchState == [pc: {"new", "merge", "done"}, plans: SUBSET SubPlans, lost: SUBSET SubPlans]

IdleCall == [pc |-> "idle", event |-> None, user |-> None, credits |-> 0,
             posts |-> FALSE, seen |-> 0, newSub |-> FALSE, plans |-> {}]

TypeOK ==
    /\ LedgerTypeOK
    /\ lockedBy \in [Users -> Calls \cup {None}]
    /\ opened \subseteq Users
    /\ payments \subseteq Payment
    /\ subs \in [Users -> [SubPlans -> Nat]]
    /\ plans \in [Users -> SUBSET SubPlans]
    /\ call \in [Calls -> CallState]
    /\ \A c \in Calls : call[c].pc # "idle" => call[c].event \in Events
    /\ \A c \in Calls : call[c].pc \in Inserted \cup {"insert"} => call[c].user \in Users
    /\ patch \in [Patches -> PatchState]
    /\ acked \subseteq Events
    /\ duplicates \in 0..MaxDuplicates
    /\ faults \in 0..MaxFaults

\* A guest has a balance row from the start, a registered user has none.
Init ==
    /\ LedgerInit
    /\ opened = {u \in Users : InitialBalance[u] > 0}
    /\ payments = {}
    /\ subs = [u \in Users |-> [s \in SubPlans |-> 0]]
    /\ plans = [u \in Users |-> {}]
    /\ call = [c \in Calls |-> IdleCall]
    /\ patch = [p \in Patches |-> [pc |-> "new", plans |-> {}, lost |-> {}]]
    /\ acked = {}
    /\ duplicates = 0
    /\ faults = 0

-----------------------------------------------------------------------------
(* The provider.                                                           *)

Handled(e) == \E c \in Calls : call[c].event = e

Begin(c, e) ==
    /\ call[c].pc = "idle"
    /\ call' = [call EXCEPT ![c] = [IdleCall EXCEPT !.pc = "lookup", !.event = e]]
    /\ UNCHANGED <<ledgerVars, storeVars, patch, acked, faults>>

\* The first delivery, and the retry of an event whose last call failed.
Deliver(c, e) ==
    /\ e \notin acked /\ ~Handled(e)
    /\ Begin(c, e)
    /\ UNCHANGED duplicates

\* A replay from the dashboard, or a retry after the provider's own timeout.
Replay(c, e) ==
    /\ e \in acked \/ Handled(e)
    /\ duplicates < MaxDuplicates
    /\ Begin(c, e)
    /\ duplicates' = duplicates + 1

Fault ==
    /\ faults < MaxFaults
    /\ faults' = faults + 1

-----------------------------------------------------------------------------
(* One webhook call: service.handle_webhook and the three handlers.        *)

\* Call c, at step pc, goes on with the local state s.
Continues(c, s) == call' = [call EXCEPT ![c] = s]

At(c, pc) == call[c].pc = pc

\* The rollback of an exception: nothing but the locks has changed.
Fails(c) ==
    /\ Continues(c, IdleCall)
    /\ lockedBy' = [u \in Users |-> IF lockedBy[u] = c THEN None ELSE lockedBy[u]]
    /\ UNCHANGED <<balance, held, txns>>

Recorded(e) == \E p \in payments : p.event = e

Lookup(c) ==
    /\ At(c, "lookup")
    /\ LET e == call[c].event
       IN  \/ /\ Recorded(e)
              /\ Continues(c, IdleCall)
              /\ acked' = acked \cup {e}
           \/ /\ ~Recorded(e)
              /\ Continues(c, IF e \in Purchases
                              THEN [call[c] EXCEPT !.pc = "insert", !.user = Buyer[e],
                                                   !.credits = Credits[e]]
                              ELSE [call[c] EXCEPT !.pc = "find"])
              /\ UNCHANGED acked
    /\ UNCHANGED <<ledgerVars, storeVars, patch, duplicates, faults>>

\* Payment p is a purchase that event e may be about.
IsOriginal(e, p) == p.kind = "purchase" /\ Session[p.event] = Session[e]

Originals(e) == {p \in payments : IsOriginal(e, p)}

\* Mutant: the caller is given some user.
SomeUser(e) == TRUE

\* _user_from_data finds a user.
NamesUser(e) == e \in Named

\* Without a purchase to reverse, the payload has to name the user; a refund
\* may then say what to reverse, a chargeback reverses nothing.
Find(c) ==
    /\ At(c, "find")
    /\ LET e == call[c].event
           Goes(u, n) == /\ Continues(c, [call[c] EXCEPT !.pc = "insert", !.user = u,
                                                         !.credits = n])
                         /\ UNCHANGED ledgerVars
       IN  \/ /\ Cardinality(Originals(e)) = 1
              /\ \E p \in Originals(e) : Goes(p.user, p.credits)
           \/ /\ Originals(e) = {} /\ NamesUser(e)
              /\ Goes(Buyer[e], IF Kind[e] = "refund" THEN Credits[e] ELSE 0)
           \/ /\ Cardinality(Originals(e)) > 1 \/ (Originals(e) = {} /\ ~NamesUser(e))
              /\ Fails(c)
    /\ UNCHANGED <<storeVars, sentVars, patch, faults>>

\* The unique index on provider_event_id makes a second insert wait for the end
\* of the first one's transaction.
Insert(c) ==
    /\ At(c, "insert")
    /\ \A d \in Calls : call[d].event = call[c].event => call[d].pc \notin Inserted
    /\ IF Recorded(call[c].event)
       THEN Fails(c)
       ELSE /\ Continues(c, [call[c] EXCEPT !.pc = IF call[c].credits > 0
                                                   THEN "post" ELSE "commit"])
            /\ UNCHANGED ledgerVars
    /\ UNCHANGED <<storeVars, sentVars, patch, faults>>

\* The part of the idempotency key after its prefix.
LedgerKey(e) == e

PostType(e) == IF e \in Purchases THEN "grant" ELSE "reversal"

\* What follows the ledger entry.
AfterPost(e) ==
    IF e \in Purchases /\ PlanOf[e] \in SubPlans THEN "subscribe" ELSE "commit"

\* The ledger entry, under the balance row's lock, on the balance then read.
PostUnderLock(c) ==
    LET u == call[c].user
    IN  /\ LockBalance(u, c)
        /\ Continues(c, [call[c] EXCEPT !.pc = AfterPost(call[c].event), !.posts = TRUE,
                                        !.seen = balance[u]])

\* credits.grant or credits.reverse_grant.  The payment row that this call has
\* inserted keeps other calls from posting the same key.
Post(c) ==
    /\ At(c, "post")
    /\ LET u == call[c].user
           e == call[c].event
       IN  IF Posted(u, PostType(e), LedgerKey(e))
           THEN Continues(c, [call[c] EXCEPT !.pc = AfterPost(e)]) /\ UNCHANGED lockedBy
           ELSE IF u \in opened
           THEN PostUnderLock(c)
           ELSE Continues(c, [call[c] EXCEPT !.pc = "open"]) /\ UNCHANGED lockedBy
    /\ UNCHANGED <<balance, held, txns, storeVars, sentVars, patch, faults>>

\* The SELECT found no balance row: insert one.  The primary key makes it wait
\* for another insert, and fail if that one has been committed.
Open(c) ==
    /\ At(c, "open")
    /\ LET u == call[c].user
       IN  IF u \in opened
           THEN Fails(c)
           ELSE PostUnderLock(c) /\ UNCHANGED <<balance, held, txns>>
    /\ UNCHANGED <<storeVars, sentVars, patch, faults>>

\* Two rows for one user and plan make scalar_one_or_none raise.
Subscribe(c) ==
    /\ At(c, "subscribe")
    /\ LET rows == subs[call[c].user][PlanOf[call[c].event]]
       IN  IF rows > 1
           THEN Fails(c)
           ELSE /\ Continues(c, [call[c] EXCEPT !.pc = "entitle", !.newSub = (rows = 0)])
                /\ UNCHANGED ledgerVars
    /\ UNCHANGED <<storeVars, sentVars, patch, faults>>

\* Mutant: the slug replaces the list.
OnlyPlan(old, s) == {s}

\* The slug joins the list.
WithPlan(old, s) == old \cup {s}

Entitle(c) ==
    /\ At(c, "entitle")
    /\ Continues(c, [call[c] EXCEPT !.pc = "commit", !.plans = plans[call[c].user]])
    /\ UNCHANGED <<ledgerVars, storeVars, sentVars, patch, faults>>

\* The document is written with the list that was read and plan s, unless that is what
\* was read: a list that a settings call gave in another order is sorted.
Entitles(u, read, s) ==
    \/ plans' = [plans EXCEPT ![u] = WithPlan(read, s)]
    \/ s \in read /\ UNCHANGED plans

\* The policy is for refunds; a chargeback may always overdraw.
MayOverdraw(e) == AllowNegative \/ Kind[e] = "chargeback"

CommitPost(c) ==
    LET s == call[c]
        e == s.event
        k == LedgerKey(e)
    IN  IF ~s.posts THEN UNCHANGED ledgerVars
        ELSE IF e \in Purchases THEN CommitGrant(s.user, c, k, s.credits, s.seen)
        ELSE CommitReversal(s.user, c, k, s.credits, MayOverdraw(e), s.seen)

\* The whole transaction becomes visible.  The answer may get lost.
Commit(c) ==
    /\ At(c, "commit")
    /\ CommitPost(c)
    /\ LET s == call[c]
           e == s.event
           sub == e \in Purchases /\ PlanOf[e] \in SubPlans
       IN  /\ payments' = payments \cup {[event |-> e, kind |-> Kind[e], user |-> s.user,
                                          credits |-> s.credits]}
           /\ opened' = IF s.posts THEN opened \cup {s.user} ELSE opened
           /\ subs' = IF s.newSub THEN [subs EXCEPT ![s.user][PlanOf[e]] = @ + 1] ELSE subs
           /\ IF sub THEN Entitles(s.user, s.plans, PlanOf[e]) ELSE UNCHANGED plans
           /\ \/ acked' = acked \cup {e} /\ UNCHANGED faults
              \/ Fault /\ UNCHANGED acked
    /\ Continues(c, IdleCall)
    /\ UNCHANGED <<patch, duplicates>>

\* The database or, while the invoice is stored, the object store raises.
CallFails(c) ==
    /\ call[c].pc # "idle"
    /\ Fault
    /\ Fails(c)
    /\ UNCHANGED <<storeVars, sentVars, patch>>

-----------------------------------------------------------------------------
(* The users and the admin.                                                *)

\* A job reserves its cost, and is charged for it in the end.
HoldCost(s) ==
    LET u == Spender[s]
    IN  /\ RowLockFree(u)
        /\ ~Posted(u, "hold", s)
        /\ Available(u) >= Cost[s]
        /\ CommitHolds(u, None, {s}, Cost[s])
        /\ UNCHANGED <<storeVars, sentVars, call, patch, faults>>

ChargeCost(s) ==
    /\ Posted(Spender[s], "hold", s)
    /\ Debit(Spender[s], s, Cost[s])
    /\ UNCHANGED <<storeVars, sentVars, call, patch, faults>>

\* An admin gives credits, to a user without a balance row too.  When a webhook call has
\* inserted that row first, the request fails and leaves nothing.
AdminGrant(g) ==
    LET u == Recipient[g]
    IN  /\ RowLockFree(u)
        /\ ~Posted(u, "grant", g)
        /\ CommitGrant(u, None, g, Gift, balance[u])
        /\ opened' = opened \cup {u}
        /\ UNCHANGED <<payments, subs, plans, sentVars, call, patch, faults>>

\* The authentication of a settings call loads the user's row.
PatchRead(p) ==
    /\ patch[p].pc = "new"
    /\ patch' = [patch EXCEPT ![p] = [pc |-> "merge", plans |-> plans[Patcher[p]], lost |-> {}]]
    /\ UNCHANGED <<ledgerVars, storeVars, sentVars, call, faults>>

\* It writes the whole document back, merged with its own settings: they may name no
\* plans, or any; a document that stays as it was loaded is not written.
PatchWrite(p) ==
    LET u == Patcher[p]
        Leaves(list) ==
            /\ plans' = [plans EXCEPT ![u] = list]
            /\ patch' = [patch EXCEPT ![p] = [pc |-> "done", plans |-> {},
                                             lost |-> plans[u] \ list]]
    IN
    /\ patch[p].pc = "merge"
    /\ \/ Leaves(patch[p].plans)
       \/ \E named \in SUBSET SubPlans : Leaves(named)
       \/ Leaves(plans[u])
    /\ UNCHANGED <<ledgerVars, opened, payments, subs, sentVars, call, faults>>

-----------------------------------------------------------------------------
CallStep(c) ==
    \/ Lookup(c) \/ Find(c) \/ Insert(c) \/ Post(c) \/ Open(c)
    \/ Subscribe(c) \/ Entitle(c) \/ Commit(c)

Next ==
    \/ \E c \in Calls, e \in Events : Deliver(c, e) \/ Replay(c, e)
    \/ \E c \in Calls : CallStep(c) \/ CallFails(c)
    \/ \E s \in Spends : HoldCost(s) \/ ChargeCost(s)
    \/ \E g \in Gifts : AdminGrant(g)
    \/ \E p \in Patches : PatchRead(p) \/ PatchWrite(p)

Spec == Init /\ [][Next]_vars

\* A call runs to its end, and the provider does not give an event up.
FairSpec ==
    /\ Spec
    /\ \A c \in Calls : WF_vars(CallStep(c))
    /\ \A e \in Events : SF_vars(\E c \in Calls : Deliver(c, e))

-----------------------------------------------------------------------------
\* Every recorded payment has moved the ledger under its own key, every grant and
\* reversal but an admin's is a recorded payment's, and the provider is only told so when it is
\* recorded (payments/service.py: the payment row and the ledger entry of an event
\* are one transaction).
PaymentIsPosted ==
    /\ \A p \in payments :
         p.credits > 0 => Posted(p.user, PostType(p.event), p.event)
    /\ \A t \in txns :
         t.type \in {"grant", "reversal"} => t.key \in {Opening} \cup Gifts \/ Recorded(t.key)
    /\ \A e \in acked : Recorded(e)

\* A recorded refund or chargeback of a purchase has reversed exactly the credits of that
\* purchase, and of the user who bought them, whatever order the events came in
\* (docs/gamedays.md: an out-of-order refund "records a reversing ledger entry").  A
\* payload that names the user is taken at its word when it comes before the purchase.
RefundReverses ==
    \A p, q \in payments :
      p.kind # "purchase" /\ p.event \notin Named /\ Originals(p.event) = {q}
        => /\ p.user = q.user /\ p.credits = q.credits
           /\ Posted(p.user, "reversal", p.event)

\* However many purchases of a plan race, the user ends up with one subscription
\* row for it: a second one would make every later fulfilment raise
\* (payments/service.py, _upsert_subscription).
OneSubscription ==
    \A u \in Users, s \in SubPlans :
      /\ subs[u][s] <= 1
      /\ subs[u][s] = 1 <=> \E p \in payments :
                              p.user = u /\ p.kind = "purchase" /\ PlanOf[p.event] = s

\* A settings call of u has taken plan s off the list: it named other plans, or wrote a
\* list back that it had read before s was on it.
Overwritten(u, s) == \E q \in Patches : Patcher[q] = u /\ s \in patch[q].lost

\* Who has bought a subscription is entitled to its plan
\* (styles/service.py: "Plan entitlements are derived from the user's settings
\* (set on subscription fulfilment)"), whichever purchases race: no purchase takes a plan
\* off that is another's.  A settings call of the buyer can, one that names plans itself at
\* any time, one that does not when it overlaps the purchase.
EntitledByPurchase ==
    \A p \in payments :
      LET s == PlanOf[p.event]
      IN  p.kind = "purchase" /\ s \in SubPlans
            => s \in plans[p.user] \/ Overwritten(p.user, s)

\* Credits have been taken back from u.
Reversed(u) == \E t \in RowsOf(u) : t.type = "reversal"

\* The cached balance is what the ledger says, however often an event comes: no grant or
\* debit is lost, and none is counted that has no row of its own.  Only a reversal that
\* overdraws leaves more than that (credits/service.py, reverse_grant).
BalanceTracksLedger ==
    \A u \in Users : /\ LedgerSum(u) <= balance[u]
                     /\ LedgerSum(u) = balance[u] \/ Reversed(u)

\* Every event the provider sends is fulfilled and answered in the end, however its
\* calls are ordered and whichever of them fail (docs/runbooks.md: webhooks are
\* "idempotent" and "replayable").
EventsAcknowledged == \A e \in Events : <>(e \in acked)
=============================================================================
