---------------------------- MODULE PaymentsProofs ----------------------------
(***************************************************************************)
(* What TLAPS proves of Payments, for every set of events, users, calls,   *)
(* plans and settings calls.                                               *)
(*                                                                         *)
(* The argument.  A call works with what it has read.  From the moment it  *)
(* posts its ledger entry it holds the lock of its user's balance row, and *)
(* everything that a commit of another call could change under its feet    *)
(* (the balance it has seen, the subscription it has looked for, the list  *)
(* of plans it has copied) belongs to that user and is written only by a   *)
(* call with that lock, or, the list, by a settings call, which then has   *)
(* the plan it took off among its lost ones.  CallPosts and CallPlans say  *)
(* so for each step.                                                       *)
(* The insert into the unique index makes the event the call's own         *)
(* (OnePerEvent), so that no key is posted twice; CallSource remembers     *)
(* where the user and the credits came from.  A purchase always posts,     *)
(* because a plan has credits: that is what the proof needs of             *)
(* EventAssumption, and why a free plan would break it.                    *)
(*                                                                         *)
(* Every step but a commit only changes the call that takes it (Local) to  *)
(* a state it may be in (Fits); users and admin move the ledger of users   *)
(* that no call has locked (LedgerMoves) or a list of plans (SettingsMove).*)
(***************************************************************************)
EXTENDS Payments, CreditLedgerProofs

-----------------------------------------------------------------------------
(* The inductive invariant.                                                *)

BuysPlan(e) == e \in Purchases /\ PlanOf[e] \in SubPlans

\* The steps of a call that has made its ledger entry.
Afterwards == {"subscribe", "entitle", "commit"}

\* Where the user and the credits that a call works with come from.
CallSource(s) ==
    LET e == s.event
    IN  /\ s.pc = "find" => e \notin Purchases
        /\ s.pc \in Inserted \cup {"insert"} =>
             /\ e \in Purchases => s.user = Buyer[e] /\ s.credits = Credits[e]
             /\ e \notin Purchases \cup Named =>
                  \E q \in Originals(e) : s.user = q.user /\ s.credits = q.credits

\* A call that has an entry to make makes it once, and holds the balance row from then
\* on: what it has read there is still so.
CallPosts(c, s) ==
    /\ s.pc \in Inserted => ~Recorded(s.event)
    /\ s.pc \in {"post", "open"} => s.credits > 0
    /\ s.posts => s.pc \in Afterwards
    /\ s.pc \in Afterwards /\ s.credits > 0 => s.posts
    /\ s.posts => lockedBy[s.user] = c /\ s.seen = balance[s.user]

\* The same for the subscription and the list of plans of its user.
CallPlans(s) ==
    LET e == s.event
        u == s.user
    IN  /\ s.pc \in {"subscribe", "entitle"} \/ s.newSub => BuysPlan(e)
        /\ s.newSub => s.pc \in {"entitle", "commit"}
        /\ s.pc \in {"entitle", "commit"} /\ BuysPlan(e) =>
             (s.newSub <=> subs[u][PlanOf[e]] = 0)
        /\ s.pc = "commit" /\ BuysPlan(e) =>
             /\ \A t \in s.plans : t \in plans[u] \/ Overwritten(u, t)
             /\ \A p \in payments :
                  p.user = u /\ p.kind = "purchase" /\ PlanOf[p.event] \in SubPlans =>
                    PlanOf[p.event] \in s.plans \/ Overwritten(u, PlanOf[p.event])

CallGood(c) == CallSource(call[c]) /\ CallPosts(c, call[c]) /\ CallPlans(call[c])

OnePerEvent ==
    \A c, d \in Calls : c # d /\ call[c].pc \in Inserted /\ call[d].pc \in Inserted =>
                          call[c].event # call[d].event

PaymentSource ==
    \A p \in payments :
      /\ p.kind = Kind[p.event]
      /\ p.kind = "purchase" => p.user = Buyer[p.event] /\ p.credits = Credits[p.event]
      /\ p.kind # "purchase" /\ p.event \notin Named =>
           \E q \in Originals(p.event) : p.user = q.user /\ p.credits = q.credits

CallsGood == (\A c \in Calls : CallGood(c)) /\ OnePerEvent

\* Payments and users' rows are what the calls so far make them.
Stored == PaymentSource /\ PaymentIsPosted /\ OneSubscription /\ EntitledByPurchase

\* Only a settings call that has written takes a plan away.
PatchesGood == \A q \in Patches : patch[q].pc # "done" => patch[q].lost = {}

IInv ==
    TypeOK /\ LedgerFinite /\ CallsGood /\ Stored /\ BalanceTracksLedger /\ PatchesGood

-----------------------------------------------------------------------------
(* The states a call goes through.                                         *)

LEMMA IdleFact ==
  /\ IdleCall \in CallState /\ IdleCall.pc = "idle" /\ IdleCall.event = None
  /\ IdleCall.posts = FALSE /\ IdleCall.newSub = FALSE
  BY DEF IdleCall, CallState, CallPc

LEMMA BegunFact ==
  ASSUME NEW e \in Events
  PROVE  LET s == [IdleCall EXCEPT !.pc = "lookup", !.event = e]
         IN  /\ s \in CallState /\ s.pc = "lookup" /\ s.event = e
             /\ s.posts = FALSE /\ s.newSub = FALSE
  BY DEF IdleCall, CallState, CallPc

\* r and s differ in the fields in F at most.
Keeps(r, s, F) ==
    /\ "event" \notin F => s.event = r.event
    /\ "user" \notin F => s.user = r.user /\ s.credits = r.credits
    /\ "posts" \notin F => s.posts = r.posts /\ s.seen = r.seen
    /\ "newSub" \notin F => s.newSub = r.newSub
    /\ "plans" \notin F => s.plans = r.plans

LEMMA StepFact ==
  ASSUME NEW r \in CallState, NEW pc \in CallPc
  PROVE  \E s \in CallState : s = [r EXCEPT !.pc = pc] /\ s.pc = pc /\ Keeps(r, s, {})
<1> DEFINE s == [r EXCEPT !.pc = pc]
<1>1. s \in CallState
  BY DEF CallState
<1>2. s.pc = pc /\ s.event = r.event /\ s.user = r.user /\ s.credits = r.credits
  BY DEF CallState
<1>3. s.posts = r.posts /\ s.newSub = r.newSub
  BY DEF CallState
<1>4. s.seen = r.seen /\ s.plans = r.plans
  BY DEF CallState
<1> QED
  BY <1>1, <1>2, <1>3, <1>4 DEF Keeps

Sourced(r, pc, u, n) == [r EXCEPT !.pc = pc, !.user = u, !.credits = n]

LEMMA SourceFact ==
  ASSUME NEW r \in CallState, NEW pc \in CallPc, NEW u \in Users, NEW n \in Nat
  PROVE  \E s \in CallState : s = Sourced(r, pc, u, n)
                            /\ s.pc = pc /\ s.user = u /\ s.credits = n /\ Keeps(r, s, {"user"})
<1> DEFINE s == [r EXCEPT !.pc = pc, !.user = u, !.credits = n]
<1>1. s \in CallState
  BY DEF CallState
<1>2. s.pc = pc /\ s.event = r.event /\ s.user = u /\ s.credits = n
  BY DEF CallState
<1>3. s.posts = r.posts /\ s.newSub = r.newSub
  BY DEF CallState
<1>4. s.seen = r.seen /\ s.plans = r.plans
  BY DEF CallState
<1> QED
  BY <1>1, <1>2, <1>3, <1>4 DEF Keeps, Sourced

Posting(r, pc, n) == [r EXCEPT !.pc = pc, !.posts = TRUE, !.seen = n]

HasPosted(r, s, pc, n) ==
    s.pc = pc /\ s.posts = TRUE /\ s.seen = n /\ Keeps(r, s, {"posts"})

LEMMA PostedFact ==
  ASSUME NEW r \in CallState, NEW pc \in CallPc, NEW n \in Nat
  PROVE  \E s \in CallState : s = Posting(r, pc, n) /\ HasPosted(r, s, pc, n)
<1> DEFINE s == [r EXCEPT !.pc = pc, !.posts = TRUE, !.seen = n]
<1>1. s \in CallState
  BY DEF CallState
<1>2. s.pc = pc /\ s.event = r.event /\ s.user = r.user /\ s.credits = r.credits
  BY DEF CallState
<1>3. s.posts = TRUE /\ s.newSub = r.newSub
  BY DEF CallState
<1>4. s.seen = n /\ s.plans = r.plans
  BY DEF CallState
<1> QED
  BY <1>1, <1>2, <1>3, <1>4 DEF Keeps, Posting, HasPosted

Subscribed(r, pc, b) == [r EXCEPT !.pc = pc, !.newSub = b]

LEMMA SubscribedFact ==
  ASSUME NEW r \in CallState, NEW pc \in CallPc, NEW b \in BOOLEAN
  PROVE  \E s \in CallState : s = Subscribed(r, pc, b)
                            /\ s.pc = pc /\ s.newSub = b /\ Keeps(r, s, {"newSub"})
<1> DEFINE s == [r EXCEPT !.pc = pc, !.newSub = b]
<1>1. s \in CallState
  BY DEF CallState
<1>2. s.pc = pc /\ s.event = r.event /\ s.user = r.user /\ s.credits = r.credits
  BY DEF CallState
<1>3. s.posts = r.posts /\ s.newSub = b
  BY DEF CallState
<1>4. s.seen = r.seen /\ s.plans = r.plans
  BY DEF CallState
<1> QED
  BY <1>1, <1>2, <1>3, <1>4 DEF Keeps, Subscribed

Entitled(r, pc, T) == [r EXCEPT !.pc = pc, !.plans = T]

LEMMA EntitledFact ==
  ASSUME NEW r \in CallState, NEW pc \in CallPc, NEW T \in SUBSET SubPlans
  PROVE  \E s \in CallState : s = Entitled(r, pc, T)
                            /\ s.pc = pc /\ s.plans = T /\ Keeps(r, s, {"plans"})
<1> DEFINE s == [r EXCEPT !.pc = pc, !.plans = T]
<1>1. s \in CallState
  BY DEF CallState
<1>2. s.pc = pc /\ s.event = r.event /\ s.user = r.user /\ s.credits = r.credits
  BY DEF CallState
<1>3. s.posts = r.posts /\ s.newSub = r.newSub
  BY DEF CallState
<1>4. s.seen = r.seen /\ s.plans = T
  BY DEF CallState
<1> QED
  BY <1>1, <1>2, <1>3, <1>4 DEF Keeps, Entitled

LEMMA CallFact ==
  ASSUME TypeOK, NEW c \in Calls
  PROVE  /\ call[c] \in CallState
         /\ call[c].pc # "idle" => call[c].event \in Events
         /\ call[c].pc \in Inserted \cup {"insert"} => call[c].user \in Users
  BY DEF TypeOK

LEMMA EventFact ==
  ASSUME NEW e \in Events
  PROVE  /\ e \in Keys /\ e \notin Gifts /\ e # Opening /\ Buyer[e] \in Users /\ Credits[e] \in Nat
         /\ e \in Purchases => Credits[e] > 0 /\ Kind[e] = "purchase"
         /\ e \notin Purchases => Kind[e] # "purchase"
         /\ Kind[e] \in Kinds
  BY EventAssumption, LedgerAssumption DEF Purchases

-----------------------------------------------------------------------------
(* A step that one call takes by itself: it reads, takes the row lock of   *)
(* its user, or gives up.                                                  *)

\* What the ledger, the payments and the users' rows say stays as it is.
Still ==
    UNCHANGED <<balance, held, txns, opened, payments, subs, plans, patch>>

\* No other call loses a row lock.
LocksKept(c) ==
    /\ lockedBy' \in [Users -> Calls \cup {None}]
    /\ \A u \in Users : lockedBy[u] \notin {None, c} => lockedBy'[u] = lockedBy[u]

\* Call c goes on with state s.
Local(c, s) ==
    /\ Still /\ LocksKept(c)
    /\ call' = [call EXCEPT ![c] = s]
    /\ s \in CallState
    /\ s.pc # "idle" => s.event \in Events
    /\ s.pc \in Inserted \cup {"insert"} => s.user \in Users
    /\ acked' \subseteq Events /\ duplicates' \in 0..MaxDuplicates /\ faults' \in 0..MaxFaults

\* The new state s is one that a call may be in.
Fits(c, s) ==
    /\ CallSource(s) /\ CallPlans(s)
    /\ s.pc \in Inserted => ~Recorded(s.event)
    /\ s.pc \in {"post", "open"} => s.credits > 0
    /\ s.posts => s.pc \in Afterwards
    /\ s.pc \in Afterwards /\ s.credits > 0 => s.posts
    /\ s.posts => lockedBy'[s.user] = c /\ s.seen = balance[s.user]
    /\ s.pc \in Inserted =>
         \A d \in Calls \ {c} : call[d].pc \in Inserted => call[d].event # s.event

LEMMA LocalType ==
  ASSUME TypeOK, NEW c \in Calls, NEW s, Local(c, s)
  PROVE  TypeOK'
<1>1. LedgerTypeOK'
  BY DEF TypeOK, LedgerTypeOK, Local, Still
<1>2. /\ call' \in [Calls -> CallState]
      /\ \A d \in Calls : call'[d] = IF d = c THEN s ELSE call[d]
  BY DEF TypeOK, Local
<1>3. /\ \A d \in Calls : call'[d].pc # "idle" => call'[d].event \in Events
      /\ \A d \in Calls : call'[d].pc \in Inserted \cup {"insert"} => call'[d].user \in Users
  BY <1>2 DEF TypeOK, Local
<1>4. /\ opened' \subseteq Users /\ payments' \subseteq Payment
      /\ subs' \in [Users -> [SubPlans -> Nat]] /\ plans' \in [Users -> SUBSET SubPlans]
      /\ patch' \in [Patches -> PatchState]
  BY DEF TypeOK, Local, Still
<1>5. /\ lockedBy' \in [Users -> Calls \cup {None}]
      /\ acked' \subseteq Events /\ duplicates' \in 0..MaxDuplicates /\ faults' \in 0..MaxFaults
  BY DEF Local, LocksKept
<1> QED
  BY <1>1, <1>2, <1>3, <1>4, <1>5 DEF TypeOK

\* The states that still fit when no payment, list or balance has changed.
LEMMA StillFits ==
  ASSUME Still, NEW s
  PROVE  /\ CallSource(s)' <=> CallSource(s)
         /\ CallPlans(s)' <=> CallPlans(s)
         /\ \A e : Recorded(e)' <=> Recorded(e)
  BY DEF Still, CallSource, CallPlans, Originals, Recorded, Overwritten

LEMMA LocalCalls ==
  ASSUME TypeOK, CallsGood, NEW c \in Calls, NEW s, Local(c, s), Fits(c, s)
  PROVE  CallsGood'
<1>1. \A d \in Calls : call'[d] = IF d = c THEN s ELSE call[d]
  BY DEF TypeOK, Local
<1>2. Still
  BY DEF Local
<1>3. CallGood(c)'
  <2>1. call'[c] = s
    BY <1>1
  <2>2. CallSource(s)' /\ CallPlans(s)' /\ (s.pc \in Inserted => ~Recorded(s.event)')
    BY <1>2, StillFits DEF Fits
  <2>3. CallPosts(c, s)'
    BY <1>2, <2>2 DEF Fits, Still, CallPosts
  <2> QED
    BY <2>1, <2>2, <2>3 DEF CallGood
<1>4. ASSUME NEW d \in Calls, d # c PROVE CallGood(d)'
  <2> PICK r \in CallState : r = call[d]
    BY DEF TypeOK
  <2>1. call'[d] = r
    BY <1>1, <1>4
  <2>2. CallSource(r) /\ CallPosts(d, r) /\ CallPlans(r)
    BY DEF CallsGood, CallGood
  <2>3. CallSource(r)' /\ CallPlans(r)' /\ (r.pc \in Inserted => ~Recorded(r.event)')
    BY <1>2, <2>2, StillFits DEF CallPosts
  <2>4. r.posts => r.user \in Users
    BY <2>2 DEF TypeOK, CallPosts, Afterwards, Inserted
  <2>5. r.posts => lockedBy'[r.user] = d /\ r.seen = balance'[r.user]
    <3>1. d # None
      BY ActorAssumption
    <3> QED
      BY <1>2, <1>4, <2>2, <2>4, <3>1 DEF CallPosts, Local, LocksKept, Still
  <2>6. CallPosts(d, r)'
    BY <2>2, <2>3, <2>5 DEF CallPosts
  <2> QED
    BY <2>1, <2>3, <2>6 DEF CallGood
<1>5. OnePerEvent'
  BY <1>1 DEF CallsGood, OnePerEvent, Fits
<1> QED
  BY <1>3, <1>4, <1>5 DEF CallsGood

LEMMA StillStored ==
  ASSUME Stored, Still, \A e \in acked' : e \in acked \/ Recorded(e)
  PROVE  Stored'
<1>1. /\ \A e : Recorded(e)' <=> Recorded(e)
      /\ \A u, type, k : Posted(u, type, k)' <=> Posted(u, type, k)
  BY DEF Still, Recorded, Posted
<1>2. PaymentSource'
  BY DEF Still, Stored, PaymentSource, Originals
<1>3. PaymentIsPosted'
  BY <1>1 DEF Still, Stored, PaymentIsPosted
<1>4. OneSubscription' /\ EntitledByPurchase'
  BY DEF Still, Stored, OneSubscription, EntitledByPurchase, Overwritten
<1> QED
  BY <1>2, <1>3, <1>4 DEF Stored

-----------------------------------------------------------------------------
(* Every step of a call but its commit is such a step.                     *)

Steps(c) == \E s : Local(c, s) /\ Fits(c, s)

\* What there is to know about a call before its step.
LEMMA GoodFact ==
  ASSUME TypeOK, CallsGood, NEW c \in Calls
  PROVE  /\ call[c] \in CallState /\ CallSource(call[c]) /\ CallPosts(c, call[c])
         /\ CallPlans(call[c])
         /\ call[c].pc # "idle" => call[c].event \in Events
         /\ call[c].pc \in Inserted \cup {"insert"} => call[c].user \in Users
  BY CallFact DEF CallsGood, CallGood

LEMMA EarlyFits ==
  ASSUME NEW c, NEW s \in CallState, s.pc \in {"idle", "lookup"}, s.posts = FALSE,
         s.newSub = FALSE
  PROVE  Fits(c, s)
  BY DEF Fits, CallSource, CallPlans, Inserted, Afterwards

\* A rollback, or the end of a call that had nothing to do.
LEMMA EndsLocally ==
  ASSUME TypeOK, NEW c \in Calls, Still, LocksKept(c), Continues(c, IdleCall),
         acked' \subseteq Events, duplicates' \in 0..MaxDuplicates, faults' \in 0..MaxFaults
  PROVE  Steps(c)
<1>1. Fits(c, IdleCall)
  BY IdleFact, EarlyFits
<1>2. Local(c, IdleCall)
  BY IdleFact DEF Local, Continues, Inserted
<1> QED
  BY <1>1, <1>2 DEF Steps

LEMMA FailsLocally ==
  ASSUME TypeOK, NEW c \in Calls, Fails(c), UNCHANGED <<storeVars, patch>>,
         acked' \subseteq Events, duplicates' \in 0..MaxDuplicates, faults' \in 0..MaxFaults
  PROVE  Steps(c)
<1>1. LocksKept(c)
  BY DEF Fails, LocksKept, TypeOK
<1>2. Still
  BY DEF Fails, Still, storeVars
<1> QED
  BY <1>1, <1>2, EndsLocally DEF Fails

\* A step that touches nothing but the call.
LEMMA AloneLocally ==
  ASSUME TypeOK, NEW c \in Calls, NEW s \in CallState, Continues(c, s),
         UNCHANGED <<ledgerVars, storeVars, patch>>,
         s.pc # "idle" => s.event \in Events,
         s.pc \in Inserted \cup {"insert"} => s.user \in Users,
         acked' \subseteq Events, duplicates' \in 0..MaxDuplicates, faults' \in 0..MaxFaults
  PROVE  Local(c, s)
  BY DEF Local, Still, LocksKept, Continues, ledgerVars, storeVars, TypeOK

LEMMA BeginSteps ==
  ASSUME TypeOK, CallsGood, NEW c \in Calls, NEW e \in Events, Begin(c, e),
         duplicates' \in 0..MaxDuplicates
  PROVE  Steps(c)
<1> PICK s \in CallState : /\ s = [IdleCall EXCEPT !.pc = "lookup", !.event = e]
                           /\ s.pc = "lookup" /\ s.event = e /\ s.posts = FALSE
                           /\ s.newSub = FALSE
  BY BegunFact
<1>1. Fits(c, s)
  BY EarlyFits
<1>2. Local(c, s)
  BY AloneLocally DEF Begin, Continues, TypeOK, Inserted
<1> QED
  BY <1>1, <1>2 DEF Steps

\* The steps up to the insert: nothing is posted, no subscription is looked at.
LEMMA SourceFits ==
  ASSUME NEW c, NEW s \in CallState, s.pc \in {"find", "insert"}, s.posts = FALSE,
         s.newSub = FALSE, CallSource(s)
  PROVE  Fits(c, s)
  BY DEF Fits, CallPlans, Inserted, Afterwards

LEMMA LookupSteps ==
  ASSUME TypeOK, CallsGood, NEW c \in Calls, Lookup(c)
  PROVE  Steps(c)
<1> DEFINE e == call[c].event
<1>1. /\ call[c] \in CallState /\ call[c].pc = "lookup" /\ e \in Events
      /\ call[c].posts = FALSE /\ call[c].newSub = FALSE
  <2>1. call[c].pc = "lookup"
    BY DEF Lookup, At
  <2>2. ~call[c].posts /\ ~call[c].newSub
    BY <2>1, GoodFact DEF CallPosts, CallPlans, Afterwards
  <2>3. call[c] \in CallState /\ e \in Events
    BY <2>1, GoodFact
  <2>4. call[c].posts \in BOOLEAN /\ call[c].newSub \in BOOLEAN
    BY <2>3 DEF CallState
  <2> QED
    BY <2>1, <2>2, <2>3, <2>4
<1>2. UNCHANGED <<ledgerVars, storeVars, patch, duplicates, faults>>
  BY DEF Lookup
<1>3. CASE Continues(c, IdleCall) /\ acked' = acked \cup {e}
  <2>1. Still /\ LocksKept(c)
    BY <1>2 DEF Still, LocksKept, ledgerVars, storeVars, TypeOK
  <2> QED
    BY <1>1, <1>2, <1>3, <2>1, EndsLocally DEF TypeOK
<1>4. CASE /\ e \in Purchases /\ acked' = acked
           /\ Continues(c, [call[c] EXCEPT !.pc = "insert", !.user = Buyer[e],
                                           !.credits = Credits[e]])
  <2> PICK s \in CallState :
        /\ s = Sourced(call[c], "insert", Buyer[e], Credits[e])
        /\ s.pc = "insert" /\ s.user = Buyer[e] /\ s.credits = Credits[e]
        /\ Keeps(call[c], s, {"user"})
    <3>1. Buyer[e] \in Users /\ Credits[e] \in Nat /\ "insert" \in CallPc
      BY <1>1, EventFact DEF CallPc
    <3> QED
      BY <1>1, <3>1, SourceFact
  <2>1. s.event = e /\ s.posts = FALSE /\ s.newSub = FALSE
    BY <1>1 DEF Keeps
  <2>2. Fits(c, s)
    BY <1>4, <2>1, SourceFits DEF CallSource
  <2>3. Local(c, s)
    <3>1. Continues(c, s)
      BY <1>4 DEF Sourced
    <3> QED
      BY <1>1, <1>2, <1>4, <2>1, <3>1, EventFact, AloneLocally DEF TypeOK
  <2> QED
    BY <2>2, <2>3 DEF Steps
<1>5. CASE e \notin Purchases /\ acked' = acked /\ Continues(c, [call[c] EXCEPT !.pc = "find"])
  <2> PICK s \in CallState : s = [call[c] EXCEPT !.pc = "find"] /\ s.pc = "find"
                             /\ Keeps(call[c], s, {})
    BY <1>1, StepFact DEF CallPc
  <2>1. s.event = e /\ s.posts = FALSE /\ s.newSub = FALSE
    BY <1>1 DEF Keeps
  <2>2. Fits(c, s)
    BY <1>5, <2>1, SourceFits DEF CallSource, Inserted
  <2>3. Local(c, s)
    BY <1>1, <1>2, <1>5, <2>1, AloneLocally DEF TypeOK, Inserted
  <2> QED
    BY <2>2, <2>3 DEF Steps
<1> QED
  BY <1>3, <1>4, <1>5 DEF Lookup

LEMMA FindSteps ==
  ASSUME TypeOK, CallsGood, NEW c \in Calls, Find(c)
  PROVE  Steps(c)
<1> DEFINE e == call[c].event
<1>1. /\ call[c] \in CallState /\ call[c].pc = "find" /\ e \in Events /\ e \notin Purchases
      /\ call[c].posts = FALSE /\ call[c].newSub = FALSE
  <2>1. call[c].pc = "find"
    BY DEF Find, At
  <2>2. ~call[c].posts /\ ~call[c].newSub
    BY <2>1, GoodFact DEF CallPosts, CallPlans, Afterwards
  <2>3. call[c] \in CallState /\ e \in Events /\ e \notin Purchases
    BY <2>1, GoodFact DEF CallSource
  <2>4. call[c].posts \in BOOLEAN /\ call[c].newSub \in BOOLEAN
    BY <2>3 DEF CallState
  <2> QED
    BY <2>1, <2>2, <2>3, <2>4
<1>2. /\ UNCHANGED <<storeVars, patch, faults>>
      /\ acked' = acked /\ duplicates' = duplicates
  BY DEF Find, sentVars
<1>3. ASSUME NEW u \in Users, NEW n \in Nat, UNCHANGED ledgerVars,
             Continues(c, [call[c] EXCEPT !.pc = "insert", !.user = u, !.credits = n]),
             e \notin Named => \E q \in Originals(e) : u = q.user /\ n = q.credits
      PROVE  Steps(c)
  <2> PICK s \in CallState :
        /\ s = Sourced(call[c], "insert", u, n)
        /\ s.pc = "insert" /\ s.user = u /\ s.credits = n /\ Keeps(call[c], s, {"user"})
    <3>1. "insert" \in CallPc
      BY DEF CallPc
    <3> QED
      BY <1>1, <3>1, SourceFact
  <2>1. s.event = e /\ s.posts = FALSE /\ s.newSub = FALSE
    BY <1>1 DEF Keeps
  <2>2. CallSource(s)
    BY <1>1, <1>3, <2>1 DEF CallSource
  <2>3. Fits(c, s)
    BY <2>1, <2>2, SourceFits
  <2>4. Local(c, s)
    <3>1. Continues(c, s)
      BY <1>3 DEF Sourced
    <3> QED
      BY <1>1, <1>2, <1>3, <2>1, <3>1, AloneLocally DEF TypeOK
  <2> QED
    BY <2>3, <2>4 DEF Steps
<1>4. ASSUME NEW p \in Originals(e), UNCHANGED ledgerVars,
             Continues(c, [call[c] EXCEPT !.pc = "insert", !.user = p.user, !.credits = p.credits])
      PROVE  Steps(c)
  <2>1. p.user \in Users /\ p.credits \in Nat
    BY DEF Originals, TypeOK, Payment
  <2> QED
    BY <1>3, <1>4, <2>1
<1>5. ASSUME NamesUser(e), NEW n \in {Credits[e], 0}, UNCHANGED ledgerVars,
             Continues(c, [call[c] EXCEPT !.pc = "insert", !.user = Buyer[e], !.credits = n])
      PROVE  Steps(c)
  <2>1. Buyer[e] \in Users /\ n \in Nat
    BY <1>1, EventFact
  <2> QED
    BY <1>3, <1>5, <2>1 DEF NamesUser
<1>6. CASE Fails(c)
  BY <1>2, <1>6, FailsLocally DEF TypeOK
<1>7. \/ \E p \in Originals(e) : /\ UNCHANGED ledgerVars
                                 /\ Continues(c, [call[c] EXCEPT !.pc = "insert", !.user = p.user,
                                                                 !.credits = p.credits])
      \/ /\ NamesUser(e) /\ UNCHANGED ledgerVars
         /\ \E n \in {Credits[e], 0} :
              Continues(c, [call[c] EXCEPT !.pc = "insert", !.user = Buyer[e], !.credits = n])
      \/ Fails(c)
  BY DEF Find
<1> QED
  BY <1>4, <1>5, <1>6, <1>7

LEMMA InsertSteps ==
  ASSUME TypeOK, CallsGood, NEW c \in Calls, Insert(c)
  PROVE  Steps(c)
<1> DEFINE e == call[c].event
           pc == IF call[c].credits > 0 THEN "post" ELSE "commit"
<1>1. call[c].pc = "insert" /\ call[c] \in CallState /\ e \in Events /\ call[c].user \in Users
  <2>1. call[c].pc = "insert"
    BY DEF Insert, At
  <2> QED
    BY <2>1, GoodFact
<1>2. /\ UNCHANGED <<storeVars, patch, faults>>
      /\ acked' = acked /\ duplicates' = duplicates
  BY DEF Insert, sentVars
<1>3. CASE Fails(c)
  BY <1>2, <1>3, FailsLocally DEF TypeOK
<1>4. CASE /\ ~Recorded(e) /\ UNCHANGED ledgerVars
           /\ Continues(c, [call[c] EXCEPT !.pc = pc])
  <2>0. pc \in CallPc
    BY DEF CallPc
  <2> PICK s \in CallState : s = [call[c] EXCEPT !.pc = pc] /\ s.pc = pc /\ Keeps(call[c], s, {})
    <3> HIDE DEF pc
    <3> QED
      BY <1>1, <2>0, StepFact
  <2>1. /\ s.event = e /\ s.user = call[c].user /\ s.credits = call[c].credits
        /\ s.posts = call[c].posts /\ s.newSub = call[c].newSub
    BY DEF Keeps
  <2>2. ~s.posts /\ ~s.newSub /\ CallSource(s) /\ s.pc # "find"
    <3>1. ~s.posts /\ ~s.newSub
      BY <1>1, <2>1, GoodFact DEF CallPosts, CallPlans, Afterwards
    <3>2. CallSource(s)
      BY <1>1, <2>1, GoodFact DEF CallSource, Inserted
    <3> QED
      BY <3>1, <3>2
  <2>3. s.credits \in Nat /\ (s.pc = "post" <=> s.credits > 0) /\ s.pc \in {"post", "commit"}
    BY <2>1 DEF CallState
  <2>4. s.pc = "commit" => ~BuysPlan(e)
    BY <1>1, <2>1, <2>2, <2>3, EventFact DEF CallSource, Inserted, BuysPlan
  <2>5. CallPlans(s)
    BY <2>1, <2>2, <2>3, <2>4 DEF CallPlans
  <2>6. \A d \in Calls \ {c} : call[d].pc \in Inserted => call[d].event # s.event
    BY <2>1 DEF Insert
  <2>7. Fits(c, s)
    BY <1>4, <2>1, <2>2, <2>3, <2>5, <2>6 DEF Fits, Afterwards
  <2>8. Local(c, s)
    BY <1>1, <1>2, <1>4, <2>1, AloneLocally DEF TypeOK
  <2> QED
    BY <2>7, <2>8 DEF Steps
<1> QED
  BY <1>3, <1>4 DEF Insert

\* An event that is not recorded has no ledger entry: only its own call makes one.
LEMMA NotPosted ==
  ASSUME PaymentIsPosted, NEW e \in Events, ~Recorded(e), NEW u
  PROVE  ~Posted(u, "grant", e) /\ ~Posted(u, "reversal", e)
  BY EventFact DEF PaymentIsPosted, Posted

LEMMA PostUnderLockSteps ==
  ASSUME TypeOK, CallsGood, NEW c \in Calls, call[c].pc \in {"post", "open"}, PostUnderLock(c),
         UNCHANGED <<balance, held, txns, storeVars, sentVars, patch, faults>>
  PROVE  Steps(c)
<1> DEFINE e == call[c].event
           u == call[c].user
<1>1. /\ call[c].pc \in Inserted /\ call[c] \in CallState /\ e \in Events /\ u \in Users
      /\ call[c].pc \notin Afterwards
  <2>1. call[c].pc \in Inserted /\ call[c].pc # "idle" /\ call[c].pc \notin Afterwards
    BY DEF Inserted, Afterwards
  <2> QED
    BY <2>1, GoodFact
<1>2. balance[u] \in Nat
  BY <1>1 DEF TypeOK, LedgerTypeOK
<1>3. AfterPost(e) \in CallPc
  BY DEF AfterPost, CallPc
<1> PICK s \in CallState : s = Posting(call[c], AfterPost(e), balance[u])
                           /\ HasPosted(call[c], s, AfterPost(e), balance[u])
  <2> DEFINE pc == AfterPost(e)
             n == balance[u]
  <2>1. pc \in CallPc /\ n \in Nat
    BY <1>2, <1>3
  <2>2. \E s \in CallState : s = Posting(call[c], pc, n) /\ HasPosted(call[c], s, pc, n)
    <3> HIDE DEF pc, n
    <3> QED
      BY <1>1, <2>1, PostedFact
  <2> QED
    BY <2>2
<1>0. /\ s.pc = AfterPost(e) /\ s.posts = TRUE /\ s.seen = balance[u]
      /\ Keeps(call[c], s, {"posts"})
  BY DEF HasPosted
<1>4. s.event = e /\ s.user = u /\ s.credits = call[c].credits /\ s.newSub = call[c].newSub
  BY <1>0 DEF Keeps
<1>5. ~s.newSub /\ s.credits > 0 /\ ~Recorded(e)
  BY <1>1, <1>4, GoodFact DEF CallPosts, CallPlans
<1>6. CallSource(s)
  <2>1. s.pc \in Inserted /\ s.pc # "find"
    BY <1>0 DEF AfterPost, Inserted
  <2> QED
    BY <1>1, <1>4, <2>1, GoodFact DEF CallSource
<1>7. s.pc \in {"subscribe", "commit"} /\ (s.pc = "subscribe" <=> BuysPlan(e))
  BY <1>0 DEF AfterPost, BuysPlan
<1>8. CallPlans(s)
  BY <1>4, <1>5, <1>7 DEF CallPlans
<1>9. \A d \in Calls \ {c} : call[d].pc \in Inserted => call[d].event # s.event
  BY <1>1, <1>4 DEF CallsGood, OnePerEvent
<1>10. lockedBy[u] = None /\ lockedBy' = [lockedBy EXCEPT ![u] = c]
  BY DEF PostUnderLock, LockBalance, RowLockFree
<1>11. LocksKept(c) /\ lockedBy'[u] = c
  BY <1>1, <1>10 DEF LocksKept, TypeOK
<1>12. Fits(c, s)
  BY <1>0, <1>4, <1>5, <1>6, <1>7, <1>8, <1>9, <1>11 DEF Fits, Afterwards
<1>13. Local(c, s)
  <2>1. call' = [call EXCEPT ![c] = s]
    BY DEF PostUnderLock, Continues, Posting
  <2> QED
    BY <1>1, <1>4, <1>11, <2>1 DEF Local, Still, storeVars, sentVars, TypeOK
<1> QED
  BY <1>12, <1>13 DEF Steps

LEMMA PostSteps ==
  ASSUME TypeOK, CallsGood, PaymentIsPosted, NEW c \in Calls, Post(c)
  PROVE  Steps(c)
<1> DEFINE e == call[c].event
           u == call[c].user
<1>1. call[c].pc = "post" /\ call[c].pc \in Inserted
  BY DEF Post, At, Inserted
<1>2. /\ call[c] \in CallState /\ e \in Events /\ u \in Users /\ ~Recorded(e)
      /\ CallSource(call[c]) /\ CallPosts(c, call[c]) /\ CallPlans(call[c])
  BY <1>1, GoodFact DEF CallPosts
<1>3. ~Posted(u, PostType(e), LedgerKey(e))
  BY <1>2, NotPosted DEF PostType, LedgerKey
<1>4. CASE PostUnderLock(c)
  BY <1>1, <1>4, PostUnderLockSteps DEF Post
<1>5. CASE Continues(c, [call[c] EXCEPT !.pc = "open"]) /\ UNCHANGED lockedBy
  <2> PICK s \in CallState : s = [call[c] EXCEPT !.pc = "open"] /\ s.pc = "open"
                             /\ Keeps(call[c], s, {})
    BY <1>2, StepFact DEF CallPc
  <2>1. /\ s.event = e /\ s.user = u /\ s.credits = call[c].credits
        /\ s.posts = call[c].posts /\ s.newSub = call[c].newSub
    BY DEF Keeps
  <2>2. s.pc \in Inserted /\ ~s.posts /\ ~s.newSub /\ s.credits > 0
    BY <1>1, <1>2, <2>1 DEF CallPosts, CallPlans, Inserted, Afterwards
  <2>3. CallSource(s) /\ CallPlans(s)
    BY <1>1, <1>2, <2>1, <2>2 DEF CallSource, CallPlans
  <2>4. \A d \in Calls \ {c} : call[d].pc \in Inserted => call[d].event # s.event
    BY <1>1, <2>1 DEF CallsGood, OnePerEvent
  <2>5. Fits(c, s)
    BY <1>2, <2>1, <2>2, <2>3, <2>4 DEF Fits, Afterwards
  <2>6. UNCHANGED <<ledgerVars, storeVars, patch>> /\ UNCHANGED <<acked, duplicates, faults>>
    BY <1>5 DEF Post, ledgerVars, sentVars
  <2>7. Local(c, s)
    BY <1>2, <1>5, <2>1, <2>6, AloneLocally DEF TypeOK
  <2> QED
    BY <2>5, <2>7 DEF Steps
<1> QED
  BY <1>3, <1>4, <1>5 DEF Post

LEMMA OpenSteps ==
  ASSUME TypeOK, CallsGood, NEW c \in Calls, Open(c)
  PROVE  Steps(c)
<1>1. /\ call[c].pc = "open" /\ UNCHANGED <<storeVars, patch, faults>>
      /\ acked' = acked /\ duplicates' = duplicates
  BY DEF Open, At, sentVars
<1>2. CASE Fails(c)
  BY <1>1, <1>2, FailsLocally DEF TypeOK
<1>3. CASE PostUnderLock(c) /\ UNCHANGED <<balance, held, txns>>
  BY <1>1, <1>3, PostUnderLockSteps DEF Open
<1> QED
  BY <1>2, <1>3 DEF Open

\* After the ledger entry a call keeps what it has of it.
LEMMA AfterFits ==
  ASSUME TypeOK, CallsGood, NEW c \in Calls, NEW s \in CallState,
         call[c].pc \in Afterwards, s.pc \in Afterwards, s.event = call[c].event,
         s.user = call[c].user, s.credits = call[c].credits, s.posts = call[c].posts,
         s.seen = call[c].seen, CallPlans(s), lockedBy' = lockedBy
  PROVE  Fits(c, s)
<1>1. call[c].pc \in Inserted /\ s.pc \in Inserted
      /\ s.pc \notin {"find", "post", "open"} /\ call[c].pc # "find"
  BY DEF Inserted, Afterwards
<1>2. CallSource(s)
  BY <1>1, GoodFact DEF CallSource
<1>3. \A d \in Calls \ {c} : call[d].pc \in Inserted => call[d].event # s.event
  BY <1>1 DEF CallsGood, OnePerEvent
<1> QED
  BY <1>1, <1>2, <1>3, GoodFact DEF Fits, CallPosts

LEMMA SubscribeSteps ==
  ASSUME TypeOK, CallsGood, NEW c \in Calls, Subscribe(c)
  PROVE  Steps(c)
<1> DEFINE e == call[c].event
           u == call[c].user
           b == subs[u][PlanOf[e]] = 0
<1>1. call[c].pc = "subscribe" /\ call[c].pc \in Inserted /\ call[c].pc \in Afterwards
  BY DEF Subscribe, At, Inserted, Afterwards
<1>2. /\ call[c] \in CallState /\ e \in Events /\ u \in Users /\ CallPlans(call[c])
  BY <1>1, GoodFact
<1>3. /\ UNCHANGED <<storeVars, patch, faults>>
      /\ acked' = acked /\ duplicates' = duplicates
  BY DEF Subscribe, sentVars
<1>4. CASE Fails(c)
  BY <1>3, <1>4, FailsLocally DEF TypeOK
<1>5. CASE Continues(c, [call[c] EXCEPT !.pc = "entitle", !.newSub = b]) /\ UNCHANGED ledgerVars
  <2>0. b \in BOOLEAN
    OBVIOUS
  <2> PICK s \in CallState : s = Subscribed(call[c], "entitle", b)
                             /\ s.pc = "entitle" /\ s.newSub = b /\ Keeps(call[c], s, {"newSub"})
    <3> HIDE DEF b
    <3> QED
      BY <1>2, <2>0, SubscribedFact DEF CallPc
  <2>1. /\ s.event = e /\ s.user = u /\ s.credits = call[c].credits
        /\ s.posts = call[c].posts /\ s.seen = call[c].seen
    BY DEF Keeps
  <2>2. BuysPlan(e)
    BY <1>1, <1>2 DEF CallPlans
  <2>3. CallPlans(s)
    BY <2>1, <2>2 DEF CallPlans
  <2>4. Fits(c, s)
    <3>1. s.pc \in Afterwards /\ lockedBy' = lockedBy
      BY <1>5 DEF Afterwards, ledgerVars
    <3> QED
      BY <1>1, <2>1, <2>3, <3>1, AfterFits
  <2>5. Local(c, s)
    <3>1. Continues(c, s)
      BY <1>5 DEF Subscribed
    <3> QED
      BY <1>2, <1>3, <1>5, <2>1, <3>1, AloneLocally DEF TypeOK
  <2> QED
    BY <2>4, <2>5 DEF Steps
<1> QED
  BY <1>4, <1>5 DEF Subscribe

LEMMA EntitleSteps ==
  ASSUME TypeOK, CallsGood, EntitledByPurchase, NEW c \in Calls, Entitle(c)
  PROVE  Steps(c)
<1> DEFINE e == call[c].event
           u == call[c].user
           T == plans[u]
<1>1. call[c].pc = "entitle" /\ call[c].pc \in Inserted /\ call[c].pc \in Afterwards
  BY DEF Entitle, At, Inserted, Afterwards
<1>2. /\ call[c] \in CallState /\ e \in Events /\ u \in Users /\ CallPlans(call[c])
  BY <1>1, GoodFact
<1>3. /\ UNCHANGED <<ledgerVars, storeVars, patch, faults>>
      /\ acked' = acked /\ duplicates' = duplicates
      /\ Continues(c, [call[c] EXCEPT !.pc = "commit", !.plans = T])
  BY DEF Entitle, sentVars
<1>4. BuysPlan(e)
  BY <1>1, <1>2 DEF CallPlans
<1>5. T \in SUBSET SubPlans /\ plans[u] = T
  BY <1>2 DEF TypeOK
<1> HIDE DEF T
<1> PICK s \in CallState : s = Entitled(call[c], "commit", T)
                           /\ s.pc = "commit" /\ s.plans = T /\ Keeps(call[c], s, {"plans"})
  BY <1>2, <1>5, EntitledFact DEF CallPc
<1>6. /\ s.event = e /\ s.user = u /\ s.credits = call[c].credits
      /\ s.posts = call[c].posts /\ s.seen = call[c].seen /\ s.newSub = call[c].newSub
  BY DEF Keeps
<1>7. \A p \in payments :
        p.user = u /\ p.kind = "purchase" /\ PlanOf[p.event] \in SubPlans =>
          PlanOf[p.event] \in T \/ Overwritten(u, PlanOf[p.event])
  BY <1>5 DEF EntitledByPurchase
<1>8. CallPlans(s)
  BY <1>1, <1>2, <1>4, <1>5, <1>6, <1>7 DEF CallPlans
<1>9. Fits(c, s)
  <2>1. s.pc \in Afterwards /\ lockedBy' = lockedBy
    BY <1>3 DEF Afterwards, ledgerVars
  <2> QED
    BY <1>1, <1>6, <1>8, <2>1, AfterFits
<1>10. Local(c, s)
  <2>1. Continues(c, s)
    BY <1>3 DEF Entitled
  <2> QED
    BY <1>2, <1>3, <1>6, <2>1, AloneLocally DEF TypeOK
<1> QED
  BY <1>9, <1>10 DEF Steps

-----------------------------------------------------------------------------
(* The commit of a call: the ledger.                                       *)

\* A call that commits, and what it has made sure of.
Committing(c) ==
    LET e == call[c].event
        u == call[c].user
    IN  /\ call[c] \in CallState /\ call[c].pc = "commit"
        /\ e \in Events /\ u \in Users /\ call[c].credits \in Nat /\ call[c].seen \in Nat
        /\ ~Recorded(e)
        /\ call[c].credits > 0 => call[c].posts
        /\ call[c].posts => lockedBy[u] = c /\ call[c].seen = balance[u]
        /\ call[c].newSub => BuysPlan(e)
        /\ BuysPlan(e) => /\ call[c].posts
                          /\ call[c].newSub <=> subs[u][PlanOf[e]] = 0

LEMMA CommittingFact ==
  ASSUME TypeOK, CallsGood, NEW c \in Calls, Commit(c)
  PROVE  Committing(c)
<1>1. call[c].pc = "commit" /\ call[c].pc \in Inserted /\ call[c].pc \in Afterwards
      /\ call[c].pc # "find"
  BY DEF Commit, At, Inserted, Afterwards
<1>2. /\ call[c] \in CallState /\ call[c].event \in Events /\ call[c].user \in Users
      /\ CallSource(call[c]) /\ CallPosts(c, call[c]) /\ CallPlans(call[c])
  BY <1>1, GoodFact
<1>3. call[c].credits \in Nat /\ call[c].seen \in Nat
  BY <1>2 DEF CallState
<1>4. BuysPlan(call[c].event) => call[c].credits > 0
  BY <1>1, <1>2, EventFact DEF CallSource, BuysPlan
<1> QED
  BY <1>1, <1>2, <1>3, <1>4 DEF Committing, CallPosts, CallPlans

\* What the ledger is after the commit.
CommitsLedger(c) ==
    LET e == call[c].event
        u == call[c].user
    IN  /\ LedgerTypeOK' /\ LedgerFinite' /\ BalanceTracksLedger' /\ LocksKept(c)
        /\ \A v \in Users : lockedBy[v] # c => balance'[v] = balance[v]
        /\ txns \subseteq txns'
        /\ \A t \in txns' \ txns : t.key = e
        /\ call[c].posts =>
             \E t \in txns' : t.user = u /\ t.type = PostType(e) /\ t.key = e

\* BalanceTracksLedger, of one user.
Tracks(v) ==
    /\ LedgerSum(v) <= balance[v]
    /\ LedgerSum(v) = balance[v] \/ Reversed(v)

\* A reversal is never forgotten.
LEMMA ReversedStays ==
  ASSUME NEW u, txns \subseteq txns', Reversed(u)
  PROVE  Reversed(u)'
  BY DEF Reversed, RowsOf

\* What one new row is.
LEMMA RowAdded ==
  ASSUME NEW u, NEW type, NEW k, NEW n, txns' = txns \cup {Row(u, type, k, n)}
  PROVE  /\ txns \subseteq txns' /\ \A t \in txns' \ txns : t.key = k
         /\ \E t \in txns' : t.user = u /\ t.type = type /\ t.key = k
<1> DEFINE r == Row(u, type, k, n)
<1>1. r.user = u /\ r.type = type /\ r.key = k
  BY DEF Row
<1>2. txns' = txns \cup {r}
  OBVIOUS
<1> HIDE DEF r
<1> QED
  BY <1>1, <1>2

LEMMA UnlockFact ==
  ASSUME TypeOK, NEW c \in Calls, NEW u \in Users, Unlock(u, c)
  PROVE  LocksKept(c)
  BY DEF TypeOK, Unlock, LocksKept

LEMMA GrantCommits ==
  ASSUME TypeOK, LedgerFinite, BalanceTracksLedger, PaymentIsPosted, NEW c \in Calls, Committing(c),
         call[c].posts, call[c].event \in Purchases,
         CommitGrant(call[c].user, c, call[c].event, call[c].credits, call[c].seen)
  PROVE  CommitsLedger(c)
<1> DEFINE e == call[c].event
           u == call[c].user
           n == call[c].credits
           seen == call[c].seen
<1>1. /\ e \in Keys /\ u \in Users /\ n \in Nat /\ seen \in Nat /\ ~Posted(u, "grant", e)
      /\ lockedBy[u] = c /\ seen = balance[u] /\ PostType(e) = "grant"
  <2>1. e \in Events /\ ~Recorded(e)
    BY DEF Committing
  <2> QED
    BY <2>1, EventFact, NotPosted DEF Committing, PostType
<1>2. CommitGrant(u, c, e, n, seen)
  OBVIOUS
<1>3. LedgerTypeOK
  BY DEF TypeOK
<1> HIDE DEF n, seen
<1>4. LedgerTypeOK' /\ Unlock(u, c)
  <2> HIDE DEF e, u
  <2> QED
    BY <1>1, <1>2, <1>3, GrantType
<1>5. /\ LedgerFinite'
      /\ \A v \in Users : LedgerSum(v)' = LedgerSum(v) + (IF v = u THEN n ELSE 0)
  <2> HIDE DEF e, u
  <2> QED
    BY <1>1, <1>2, <1>3, GrantSum
<1>6. /\ balance' = [balance EXCEPT ![u] = seen + n]
      /\ txns' = txns \cup {Row(u, "grant", e, n)}
  BY <1>2 DEF CommitGrant
<1>7. \A v \in Users : balance'[v] = IF v = u THEN balance[v] + n ELSE balance[v]
  BY <1>1, <1>3, <1>6 DEF LedgerTypeOK
<1>8. BalanceTracksLedger'
  <2> SUFFICES ASSUME NEW v \in Users PROVE Tracks(v)'
    BY DEF BalanceTracksLedger, Tracks
  <2>1. LedgerSum(v) \in Int /\ balance[v] \in Nat /\ LedgerSum(v) <= balance[v]
        /\ (LedgerSum(v) = balance[v] \/ Reversed(v))
    BY <1>3, LedgerSumType DEF BalanceTracksLedger, LedgerTypeOK
  <2>2. LedgerSum(v)' <= balance'[v] /\ (LedgerSum(v) = balance[v] => LedgerSum(v)' = balance'[v])
    BY <1>1, <1>5, <1>7, <2>1
  <2>3. txns \subseteq txns'
    BY <1>6
  <2> QED
    BY <2>1, <2>2, <2>3, ReversedStays DEF Tracks
<1>9. LocksKept(c)
  BY <1>1, <1>4, UnlockFact
<1>10. \A v \in Users : lockedBy[v] # c => balance'[v] = balance[v]
  <2> HIDE DEF e, u
  <2> QED
    BY <1>1, <1>7
<1> HIDE DEF e, u
<1>11. /\ txns \subseteq txns' /\ \A t \in txns' \ txns : t.key = e
       /\ \E t \in txns' : t.user = u /\ t.type = "grant" /\ t.key = e
  BY <1>6, RowAdded
<1> QED
  BY <1>1, <1>4, <1>5, <1>8, <1>9, <1>10, <1>11 DEF CommitsLedger, e, u

LEMMA ReversalCommits ==
  ASSUME TypeOK, LedgerFinite, BalanceTracksLedger, PaymentIsPosted, NEW c \in Calls, Committing(c),
         call[c].posts, call[c].event \notin Purchases,
         CommitReversal(call[c].user, c, call[c].event, call[c].credits,
                        MayOverdraw(call[c].event), call[c].seen)
  PROVE  CommitsLedger(c)
<1> DEFINE e == call[c].event
           u == call[c].user
           n == call[c].credits
           seen == call[c].seen
           allow == MayOverdraw(e)
<1>1. /\ e \in Keys /\ u \in Users /\ n \in Nat /\ seen \in Nat /\ ~Posted(u, "reversal", e)
      /\ lockedBy[u] = c /\ seen = balance[u] /\ PostType(e) = "reversal"
  <2>1. e \in Events /\ ~Recorded(e)
    BY DEF Committing
  <2> QED
    BY <2>1, EventFact, NotPosted DEF Committing, PostType
<1>2. CommitReversal(u, c, e, n, allow, seen)
  OBVIOUS
<1>3. LedgerTypeOK /\ allow \in BOOLEAN
  BY EventAssumption DEF TypeOK, MayOverdraw
<1> HIDE DEF n, seen, allow
<1>4. LedgerTypeOK' /\ Unlock(u, c)
  <2> HIDE DEF e, u
  <2> QED
    BY <1>1, <1>2, <1>3, ReversalType
<1>5. LedgerFinite' /\ LowersBoth(u, seen)
  <2> HIDE DEF e, u
  <2> QED
    BY <1>1, <1>2, <1>3, ReversalSum
<1>6. PICK d \in Nat :
        /\ \A v \in Users : LedgerSum(v)' = LedgerSum(v) - (IF v = u THEN d ELSE 0)
        /\ balance'[u] >= seen - d
        /\ \A v \in Users \ {u} : balance'[v] = balance[v]
  BY <1>5 DEF LowersBoth
<1>7. txns' = txns \cup {Row(u, "reversal", e, -Deducted(n, allow, seen))}
  BY <1>2 DEF CommitReversal
<1>8. BalanceTracksLedger'
  <2> SUFFICES ASSUME NEW v \in Users PROVE Tracks(v)'
    BY DEF BalanceTracksLedger, Tracks
  <2>1. LedgerSum(v) \in Int /\ balance[v] \in Nat /\ LedgerSum(v) <= balance[v]
        /\ (LedgerSum(v) = balance[v] \/ Reversed(v)) /\ balance'[v] \in Nat
    BY <1>3, <1>4, LedgerSumType DEF BalanceTracksLedger, LedgerTypeOK
  <2>2. CASE v = u
    <3>1. LedgerSum(v)' = LedgerSum(v) - d /\ balance'[v] >= balance[v] - d
      BY <1>1, <1>6, <2>2
    <3>2. Reversed(v)'
      <4> DEFINE deduct == -Deducted(n, allow, seen)
      <4>1. txns' = txns \cup {Row(u, "reversal", e, deduct)}
        BY <1>7
      <4> HIDE DEF deduct
      <4> QED
        BY <2>2, <4>1, RowAdded DEF Reversed, RowsOf
    <3> QED
      BY <2>1, <3>1, <3>2 DEF Tracks
  <2>3. CASE v # u
    <3>1. LedgerSum(v)' = LedgerSum(v) - 0 /\ balance'[v] = balance[v]
      BY <1>6, <2>3
    <3>2. txns \subseteq txns'
      BY <1>7
    <3>3. LedgerSum(v)' = LedgerSum(v)
      BY <2>1, <3>1
    <3> QED
      BY <2>1, <3>1, <3>2, <3>3, ReversedStays DEF Tracks
  <2> QED
    BY <2>2, <2>3
<1>9. LocksKept(c)
  BY <1>1, <1>4, UnlockFact
<1>10. \A v \in Users : lockedBy[v] # c => balance'[v] = balance[v]
  <2> HIDE DEF e, u
  <2> QED
    BY <1>1, <1>6
<1> HIDE DEF e, u
<1>11. /\ txns \subseteq txns' /\ \A t \in txns' \ txns : t.key = e
       /\ \E t \in txns' : t.user = u /\ t.type = "reversal" /\ t.key = e
  <2> DEFINE deduct == -Deducted(n, allow, seen)
  <2>1. txns' = txns \cup {Row(u, "reversal", e, deduct)}
    BY <1>7
  <2> HIDE DEF deduct
  <2> QED
    BY <2>1, RowAdded
<1> QED
  BY <1>1, <1>4, <1>5, <1>8, <1>9, <1>10, <1>11 DEF CommitsLedger, e, u

\* A ledger that nothing is done to.
LEMMA SameLedger ==
  ASSUME LedgerFinite, BalanceTracksLedger, txns' = txns, balance' = balance
  PROVE  LedgerFinite' /\ BalanceTracksLedger'
  BY LedgerSumSame DEF BalanceTracksLedger, Reversed, RowsOf

LEMMA LedgerCommits ==
  ASSUME TypeOK, LedgerFinite, BalanceTracksLedger, PaymentIsPosted, CallsGood, NEW c \in Calls,
         Commit(c)
  PROVE  CommitsLedger(c)
<1>1. Committing(c)
  BY CommittingFact
<1>2. CASE ~call[c].posts
  <2>1. UNCHANGED ledgerVars
    BY <1>2 DEF Commit, CommitPost
  <2>2. LedgerFinite' /\ BalanceTracksLedger'
    BY <2>1, SameLedger DEF ledgerVars
  <2>3. LedgerTypeOK' /\ LocksKept(c)
    BY <2>1 DEF TypeOK, LedgerTypeOK, ledgerVars, LocksKept
  <2> QED
    BY <1>2, <2>1, <2>2, <2>3 DEF CommitsLedger, ledgerVars
<1>3. CASE call[c].posts /\ call[c].event \in Purchases
  <2>1. CommitGrant(call[c].user, c, call[c].event, call[c].credits, call[c].seen)
    BY <1>3 DEF Commit, CommitPost, LedgerKey
  <2> QED
    BY <1>1, <1>3, <2>1, GrantCommits
<1>4. CASE call[c].posts /\ call[c].event \notin Purchases
  <2>1. CommitReversal(call[c].user, c, call[c].event, call[c].credits,
                       MayOverdraw(call[c].event), call[c].seen)
    BY <1>4 DEF Commit, CommitPost, LedgerKey
  <2> QED
    BY <1>1, <1>4, <2>1, ReversalCommits
<1> QED
  BY <1>2, <1>3, <1>4

-----------------------------------------------------------------------------
(* The commit of a call: the payment, the subscription and the plans.      *)

Paid(r) == [event |-> r.event, kind |-> Kind[r.event], user |-> r.user,
            credits |-> r.credits]

LEMMA PaidFact ==
  ASSUME NEW r, r.event \in Events, r.user \in Users, r.credits \in Nat
  PROVE  /\ Paid(r) \in Payment /\ Paid(r).event = r.event /\ Paid(r).user = r.user
         /\ Paid(r).kind = Kind[r.event] /\ Paid(r).credits = r.credits
<1>1. Kind[r.event] \in Kinds
  BY EventFact
<1> QED
  BY <1>1 DEF Paid, Payment

\* What the commit of call c, whose state is r, leaves in the tables.
Writes(c, r) ==
    /\ payments' = payments \cup {Paid(r)}
    /\ opened' \subseteq Users
    /\ r.newSub => subs' = [subs EXCEPT ![r.user][PlanOf[r.event]] = @ + 1]
    /\ ~r.newSub => subs' = subs
    /\ BuysPlan(r.event) => Entitles(r.user, r.plans, PlanOf[r.event])
    /\ ~BuysPlan(r.event) => plans' = plans
    /\ call' = [call EXCEPT ![c] = IdleCall]
    /\ patch' = patch /\ duplicates' = duplicates
    /\ acked' \subseteq acked \cup {r.event} /\ faults' \in 0..MaxFaults

LEMMA CommitWrites ==
  ASSUME TypeOK, NEW c \in Calls, Commit(c), NEW r, r = call[c], r.user \in Users
  PROVE  Writes(c, r)
<1>1. payments' = payments \cup {Paid(r)}
  BY DEF Commit, Paid
<1>2. opened' \subseteq Users
  <2>1. opened' = IF r.posts THEN opened \cup {r.user} ELSE opened
    BY DEF Commit
  <2> QED
    BY <2>1 DEF TypeOK
<1>3. /\ r.newSub => subs' = [subs EXCEPT ![r.user][PlanOf[r.event]] = @ + 1]
      /\ ~r.newSub => subs' = subs
  BY DEF Commit
<1>4. /\ BuysPlan(r.event) => Entitles(r.user, r.plans, PlanOf[r.event])
      /\ ~BuysPlan(r.event) => plans' = plans
  BY DEF Commit, BuysPlan
<1>5. acked' \subseteq acked \cup {r.event} /\ faults' \in 0..MaxFaults
  <2>1. (acked' = acked \cup {r.event} /\ faults' = faults) \/ (Fault /\ acked' = acked)
    BY DEF Commit
  <2> QED
    BY <2>1, ActorAssumption DEF Fault, TypeOK
<1>6. call' = [call EXCEPT ![c] = IdleCall] /\ patch' = patch /\ duplicates' = duplicates
  BY DEF Commit, Continues
<1> QED
  BY <1>1, <1>2, <1>3, <1>4, <1>5, <1>6 DEF Writes

\* A committing call, as a constant.
Ends(c, r) ==
    /\ r = call[c] /\ r \in CallState /\ r.pc = "commit"
    /\ r.event \in Events /\ r.user \in Users /\ r.credits \in Nat
    /\ CallSource(r) /\ CallPlans(r)
    /\ ~Recorded(r.event)
    /\ r.credits > 0 => r.posts
    /\ r.posts => lockedBy[r.user] = c
    /\ r.newSub => BuysPlan(r.event)
    /\ BuysPlan(r.event) => lockedBy[r.user] = c /\ PlanOf[r.event] \in SubPlans
                            /\ (r.newSub <=> subs[r.user][PlanOf[r.event]] = 0)
    /\ Writes(c, r) /\ CommitsLedger(c)

LEMMA EndsFact ==
  ASSUME TypeOK, LedgerFinite, BalanceTracksLedger, PaymentIsPosted, CallsGood, NEW c \in Calls,
         Commit(c)
  PROVE  \E r \in CallState : Ends(c, r)
<1>1. Committing(c) /\ CommitsLedger(c)
  BY CommittingFact, LedgerCommits
<1> PICK r \in CallState : r = call[c]
  BY <1>1 DEF Committing
<1>2. /\ r.pc = "commit" /\ r.event \in Events /\ r.user \in Users /\ r.credits \in Nat
      /\ ~Recorded(r.event) /\ (r.credits > 0 => r.posts) /\ (r.posts => lockedBy[r.user] = c)
      /\ (r.newSub => BuysPlan(r.event))
  BY <1>1 DEF Committing
<1>3. BuysPlan(r.event) => lockedBy[r.user] = c /\ PlanOf[r.event] \in SubPlans
                            /\ (r.newSub <=> subs[r.user][PlanOf[r.event]] = 0)
  BY <1>1 DEF Committing, BuysPlan
<1>4. CallSource(r) /\ CallPlans(r)
  BY GoodFact
<1>5. Writes(c, r)
  BY <1>2, CommitWrites
<1> QED
  BY <1>1, <1>2, <1>3, <1>4, <1>5 DEF Ends

\* The list of one user only is written, and keeps what was read and the plan bought.
LEMMA CommitEntitles ==
  ASSUME TypeOK, NEW c \in Calls, NEW r \in CallState, Ends(c, r)
  PROVE  /\ plans' \in [Users -> SUBSET SubPlans]
         /\ \A u \in Users : (BuysPlan(r.event) /\ u = r.user) \/ plans'[u] = plans[u]
         /\ BuysPlan(r.event) =>
              \/ r.plans \cup {PlanOf[r.event]} \subseteq plans'[r.user]
              \/ PlanOf[r.event] \in r.plans /\ plans' = plans
<1> DEFINE T == r.plans \cup {PlanOf[r.event]}
<1>1. r.plans \in SUBSET SubPlans /\ plans \in [Users -> SUBSET SubPlans] /\ r.user \in Users
  BY DEF CallState, TypeOK, Ends
<1>2. CASE BuysPlan(r.event) /\ plans' = [plans EXCEPT ![r.user] = T]
  <2>1. T \in SUBSET SubPlans
    BY <1>1, <1>2 DEF BuysPlan
  <2> HIDE DEF T
  <2>2. /\ plans' \in [Users -> SUBSET SubPlans] /\ plans'[r.user] = T
        /\ \A u \in Users \ {r.user} : plans'[u] = plans[u]
    BY <1>1, <1>2, <2>1
  <2> QED
    BY <1>2, <2>2 DEF T
<1>3. CASE plans' = plans /\ (BuysPlan(r.event) => PlanOf[r.event] \in r.plans)
  BY <1>1, <1>3
<1> QED
  BY <1>2, <1>3 DEF Ends, Writes, Entitles, WithPlan

LEMMA CommitType ==
  ASSUME TypeOK, NEW c \in Calls, NEW r \in CallState, Ends(c, r)
  PROVE  TypeOK'
<1>1. LedgerTypeOK' /\ lockedBy' \in [Users -> Calls \cup {None}]
  BY DEF Ends, CommitsLedger, LocksKept
<1>2. opened' \subseteq Users /\ payments' \subseteq Payment
  BY PaidFact DEF Ends, Writes, TypeOK
<1>3. subs' \in [Users -> [SubPlans -> Nat]]
  <2>1. CASE r.newSub
    <3> DEFINE s == PlanOf[r.event]
               u == r.user
    <3>1. subs' = [subs EXCEPT ![u][s] = @ + 1] /\ s \in SubPlans /\ u \in Users
      BY <2>1 DEF Ends, Writes
    <3>2. subs \in [Users -> [SubPlans -> Nat]]
      BY DEF TypeOK
    <3> HIDE DEF s, u
    <3>3. [subs[u] EXCEPT ![s] = @ + 1] \in [SubPlans -> Nat]
      BY <3>1, <3>2
    <3> QED
      BY <3>1, <3>2, <3>3
  <2>2. CASE ~r.newSub
    BY <2>2 DEF Ends, Writes, TypeOK
  <2> QED
    BY <2>1, <2>2
<1>4. plans' \in [Users -> SUBSET SubPlans]
  BY CommitEntitles
<1>5. /\ call' \in [Calls -> CallState]
      /\ \A d \in Calls : call'[d] = IF d = c THEN IdleCall ELSE call[d]
  BY IdleFact DEF Ends, Writes, TypeOK
<1>6. /\ \A d \in Calls : call'[d].pc # "idle" => call'[d].event \in Events
      /\ \A d \in Calls : call'[d].pc \in Inserted \cup {"insert"} => call'[d].user \in Users
  BY <1>5, IdleFact DEF TypeOK, Inserted
<1>7. /\ patch' \in [Patches -> PatchState] /\ acked' \subseteq Events
      /\ duplicates' \in 0..MaxDuplicates /\ faults' \in 0..MaxFaults
  BY DEF Ends, Writes, TypeOK
<1> QED
  BY <1>1, <1>2, <1>3, <1>4, <1>5, <1>6, <1>7 DEF TypeOK

\* What the other calls rely on is not touched.
LEMMA CommitKeeps ==
  ASSUME TypeOK, CallsGood, NEW c \in Calls, NEW r \in CallState, Ends(c, r),
         NEW d \in Calls, d # c, NEW q \in CallState, q = call[d]
  PROVE  CallGood(d)'
<1>1. CallSource(q) /\ CallPosts(d, q) /\ CallPlans(q)
      /\ (q.pc \in Inserted => q.user \in Users)
  BY GoodFact
<1>2. call'[d] = q
  BY DEF Ends, Writes, TypeOK
<1>3. CallSource(q)'
  <2>1. payments \subseteq payments'
    BY DEF Ends, Writes
  <2>2. Originals(q.event) \subseteq Originals(q.event)'
    BY <2>1 DEF Originals
  <2> QED
    BY <1>1, <2>2 DEF CallSource
<1>4. q.posts => /\ lockedBy'[q.user] = d /\ q.seen = balance'[q.user]
                 /\ lockedBy[q.user] = d /\ q.user \in Users
  <2>1. q.posts => q.user \in Users /\ lockedBy[q.user] = d /\ q.seen = balance[q.user]
    BY <1>1 DEF CallPosts, Afterwards, Inserted
  <2>2. d # None
    BY ActorAssumption
  <2> QED
    BY <2>1, <2>2 DEF Ends, CommitsLedger, LocksKept
<1>5. q.pc \in Inserted => ~Recorded(q.event)'
  <2>1. q.pc \in Inserted => ~Recorded(q.event) /\ q.event # r.event
    <3>1. r.pc \in Inserted
      BY DEF Ends, Inserted
    <3> QED
      BY <1>1, <3>1 DEF CallPosts, CallsGood, OnePerEvent, Ends
  <2>2. payments' = payments \cup {Paid(r)} /\ Paid(r).event = r.event
    BY PaidFact DEF Ends, Writes
  <2> QED
    BY <2>1, <2>2 DEF Recorded
<1>6. CallPosts(d, q)'
  BY <1>1, <1>4, <1>5 DEF CallPosts
<1>7. CallPlans(q)'
  <2> DEFINE s == PlanOf[q.event]
  <2>1. ASSUME q.pc \in {"entitle", "commit"}, BuysPlan(q.event)
        PROVE  BuysPlan(r.event) => r.user # q.user
    <3>1. q.credits > 0 /\ q.pc \in Afterwards
      <4>1. q.pc \in Inserted /\ q.pc # "idle" /\ q.event \in Events
        BY <2>1, GoodFact DEF Inserted
      <4>2. q.credits = Credits[q.event] /\ Credits[q.event] > 0
        BY <1>1, <2>1, <4>1, EventFact DEF CallSource, BuysPlan
      <4> QED
        BY <2>1, <4>2 DEF Afterwards
    <3>2. lockedBy[q.user] = d
      BY <1>1, <1>4, <3>1 DEF CallPosts
    <3> QED
      BY <3>2 DEF Ends
  <2>2. ASSUME q.pc \in {"entitle", "commit"}, BuysPlan(q.event)
        PROVE  subs'[q.user] = subs[q.user]
    <3>1. q.user \in Users
      BY <1>1, <2>2 DEF Inserted
    <3> QED
      BY <2>1, <2>2, <3>1 DEF Ends, Writes, TypeOK
  <2>3. ASSUME q.pc = "commit", BuysPlan(q.event),
               NEW p \in payments', p.user = q.user, p.kind = "purchase",
               PlanOf[p.event] \in SubPlans
        PROVE  PlanOf[p.event] \in q.plans \/ Overwritten(q.user, PlanOf[p.event])'
    <3>1. p # Paid(r)
      <4>1. SUFFICES ASSUME p = Paid(r) PROVE FALSE
        OBVIOUS
      <4>2. p.event = r.event /\ p.kind = Kind[r.event] /\ p.user = r.user
        BY <4>1, PaidFact DEF Ends
      <4>3. BuysPlan(r.event)
        BY <2>3, <4>2 DEF BuysPlan, Purchases, Ends
      <4> QED
        BY <2>1, <2>3, <4>2, <4>3
    <3>2. p \in payments
      BY <3>1 DEF Ends, Writes
    <3>3. PlanOf[p.event] \in q.plans \/ Overwritten(q.user, PlanOf[p.event])
      BY <1>1, <2>3, <3>2 DEF CallPlans
    <3> QED
      BY <3>3 DEF Overwritten, Ends, Writes
  <2>4. ASSUME q.pc = "commit", BuysPlan(q.event), NEW t \in q.plans
        PROVE  t \in plans'[q.user] \/ Overwritten(q.user, t)'
    <3>1. plans'[q.user] = plans[q.user]
      BY <1>1, <2>1, <2>4, CommitEntitles DEF Inserted
    <3>2. t \in plans[q.user] \/ Overwritten(q.user, t)
      BY <1>1, <2>4 DEF CallPlans
    <3> QED
      BY <3>1, <3>2 DEF Overwritten, Ends, Writes
  <2> QED
    BY <1>1, <2>2, <2>3, <2>4 DEF CallPlans
<1> QED
  BY <1>2, <1>3, <1>6, <1>7 DEF CallGood

LEMMA CommitCalls ==
  ASSUME TypeOK, CallsGood, NEW c \in Calls, NEW r \in CallState, Ends(c, r)
  PROVE  CallsGood'
<1>1. \A d \in Calls : call'[d] = IF d = c THEN IdleCall ELSE call[d]
  BY DEF Ends, Writes, TypeOK
<1>2. CallGood(c)'
  <2>1. call'[c] = IdleCall
    BY <1>1
  <2>2. CallSource(IdleCall)' /\ CallPosts(c, IdleCall)' /\ CallPlans(IdleCall)'
    BY IdleFact DEF CallSource, CallPosts, CallPlans, Inserted, Afterwards
  <2> QED
    BY <2>1, <2>2 DEF CallGood
<1>3. ASSUME NEW d \in Calls, d # c PROVE CallGood(d)'
  <2> PICK q \in CallState : q = call[d]
    BY DEF TypeOK
  <2> QED
    BY <1>3, CommitKeeps
<1>4. OnePerEvent'
  BY <1>1, IdleFact DEF CallsGood, OnePerEvent, Inserted
<1> QED
  BY <1>2, <1>3, <1>4 DEF CallsGood

LEMMA CommitStored ==
  ASSUME TypeOK, Stored, NEW c \in Calls, NEW r \in CallState, Ends(c, r)
  PROVE  Stored'
<1> DEFINE e == r.event
           u == r.user
           n == Paid(r)
<1>1. /\ payments' = payments \cup {n} /\ n \in Payment
      /\ n.event = e /\ n.user = u /\ n.kind = Kind[e] /\ n.credits = r.credits
  BY PaidFact DEF Ends, Writes
<1>2. n.kind = "purchase" <=> e \in Purchases
  BY <1>1 DEF Ends, Purchases
<1>3. e \in Events /\ u \in Users /\ ~Recorded(e) /\ payments \subseteq payments'
  BY <1>1 DEF Ends
<1> HIDE DEF n
<1>4. PaymentSource'
  <2>1. \A f : Originals(f) \subseteq Originals(f)'
    BY <1>1 DEF Originals
  <2>2. CallSource(r) /\ r.pc \in Inserted
    BY DEF Ends, Inserted
  <2> SUFFICES ASSUME NEW p \in payments'
               PROVE  /\ p.kind = Kind[p.event]
                      /\ p.kind = "purchase" =>
                           p.user = Buyer[p.event] /\ p.credits = Credits[p.event]
                      /\ p.kind # "purchase" /\ p.event \notin Named =>
                           \E q \in Originals(p.event)' : p.user = q.user /\ p.credits = q.credits
    BY DEF PaymentSource
  <2>3. CASE p \in payments
    BY <2>1, <2>3 DEF Stored, PaymentSource
  <2>4. CASE p = n
    <3>1. p.kind = "purchase" => p.user = Buyer[p.event] /\ p.credits = Credits[p.event]
      BY <1>1, <1>2, <2>2, <2>4 DEF CallSource
    <3>2. p.kind # "purchase" /\ p.event \notin Named =>
            \E q \in Originals(p.event) : p.user = q.user /\ p.credits = q.credits
      BY <1>1, <1>2, <2>2, <2>4 DEF CallSource
    <3> QED
      BY <1>1, <2>1, <2>4, <3>1, <3>2
  <2> QED
    BY <1>1, <2>3, <2>4
<1>5. PaymentIsPosted'
  <2>1. txns \subseteq txns' /\ \A t \in txns' \ txns : t.key = e
    BY DEF Ends, CommitsLedger
  <2>2. \A p \in payments' : p.credits > 0 => Posted(p.user, PostType(p.event), p.event)'
    <3> SUFFICES ASSUME NEW p \in payments', p.credits > 0
                 PROVE  \E t \in txns' : t.user = p.user /\ t.type = PostType(p.event)
                                         /\ t.key = p.event
      BY DEF Posted
    <3>1. CASE p \in payments
      BY <2>1, <3>1 DEF Stored, PaymentIsPosted, Posted
    <3>2. CASE p = n
      <4>1. r.posts
        BY <1>1, <3>2 DEF Ends
      <4>2. \E t \in txns' : t.user = u /\ t.type = PostType(e) /\ t.key = e
        BY <4>1 DEF Ends, CommitsLedger
      <4> QED
        BY <1>1, <3>2, <4>2
    <3> QED
      BY <1>1, <3>1, <3>2
  <2>3. /\ Recorded(e)'
        /\ \A f : Recorded(f) => Recorded(f)'
    BY <1>1 DEF Recorded
  <2>4. \A t \in txns' : t.type \in {"grant", "reversal"} =>
                           t.key \in {Opening} \cup Gifts \/ Recorded(t.key)'
    BY <2>1, <2>3 DEF Stored, PaymentIsPosted
  <2>5. \A f \in acked' : Recorded(f)'
    BY <2>3 DEF Stored, PaymentIsPosted, Ends, Writes
  <2> QED
    BY <2>2, <2>4, <2>5 DEF PaymentIsPosted
<1>6. OneSubscription'
  <2> SUFFICES ASSUME NEW v \in Users, NEW s \in SubPlans
               PROVE  /\ subs'[v][s] <= 1
                      /\ subs'[v][s] = 1 <=> \E p \in payments' :
                           p.user = v /\ p.kind = "purchase" /\ PlanOf[p.event] = s
    BY DEF OneSubscription
  <2>1. /\ subs[v][s] <= 1 /\ subs[v][s] \in Nat
        /\ (subs[v][s] = 1 <=> \E p \in payments :
              p.user = v /\ p.kind = "purchase" /\ PlanOf[p.event] = s)
    BY DEF Stored, OneSubscription, TypeOK
  <2>2. CASE BuysPlan(e) /\ v = u /\ s = PlanOf[e]
    <3>1. n.user = v /\ n.kind = "purchase" /\ PlanOf[n.event] = s /\ n \in payments'
      BY <1>1, <1>2, <2>2 DEF BuysPlan
    <3>2. subs'[v][s] = 1
      <4>1. CASE r.newSub
        <5>1. subs[v][s] = 0
          BY <2>2, <4>1 DEF Ends
        <5>2. subs'[v][s] = subs[v][s] + 1
          BY <2>2, <4>1 DEF Ends, Writes, TypeOK
        <5> QED
          BY <5>1, <5>2
      <4>2. CASE ~r.newSub
        <5>1. subs[v][s] # 0 /\ subs' = subs
          BY <2>2, <4>2 DEF Ends, Writes
        <5> QED
          BY <2>1, <5>1
      <4> QED
        BY <4>1, <4>2
    <3> QED
      BY <3>1, <3>2
  <2>3. CASE ~(BuysPlan(e) /\ v = u /\ s = PlanOf[e])
    <3>1. subs'[v][s] = subs[v][s]
      BY <2>3 DEF Ends, Writes, TypeOK
    <3>2. ~(n.user = v /\ n.kind = "purchase" /\ PlanOf[n.event] = s)
      BY <1>1, <1>2, <2>3 DEF BuysPlan
    <3> QED
      BY <1>1, <2>1, <3>1, <3>2
  <2> QED
    BY <2>2, <2>3
<1>7. EntitledByPurchase'
  <2> SUFFICES ASSUME NEW p \in payments', p.kind = "purchase", PlanOf[p.event] \in SubPlans
               PROVE  PlanOf[p.event] \in plans'[p.user]
                      \/ Overwritten(p.user, PlanOf[p.event])'
    BY DEF EntitledByPurchase
  <2>1. \A v, s : Overwritten(v, s)' <=> Overwritten(v, s)
    BY DEF Ends, Writes, Overwritten
  <2>2. p.user \in Users
    BY <1>1 DEF TypeOK, Payment
  <2>3. CASE p = n
    <3>1. BuysPlan(e)
      BY <1>1, <1>2, <2>3 DEF BuysPlan
    <3>2. CASE PlanOf[e] \in r.plans /\ plans' = plans
      BY <1>1, <2>1, <2>3, <3>1, <3>2 DEF Ends, CallPlans
    <3>3. CASE PlanOf[e] \in plans'[u]
      BY <1>1, <2>3, <3>3
    <3> QED
      BY <3>1, <3>2, <3>3, CommitEntitles
  <2>4. CASE p \in payments /\ BuysPlan(e) /\ p.user = u
    <3>1. CASE plans' = plans
      BY <2>1, <2>4, <3>1 DEF Stored, EntitledByPurchase
    <3>2. CASE r.plans \subseteq plans'[u]
      <4>1. PlanOf[p.event] \in r.plans \/ Overwritten(u, PlanOf[p.event])
        BY <2>4 DEF Ends, CallPlans
      <4> QED
        BY <2>1, <2>4, <3>2, <4>1
    <3> QED
      BY <2>4, <3>1, <3>2, CommitEntitles
  <2>5. CASE p \in payments /\ ~(BuysPlan(e) /\ p.user = u)
    <3>1. plans'[p.user] = plans[p.user]
      BY <2>2, <2>5, CommitEntitles
    <3> QED
      BY <2>1, <2>5, <3>1 DEF Stored, EntitledByPurchase
  <2> QED
    BY <1>1, <2>3, <2>4, <2>5
<1> QED
  BY <1>4, <1>5, <1>6, <1>7 DEF Stored

-----------------------------------------------------------------------------
(* The users and the admin.                                                *)

\* A step of somebody else that moves the ledger: no balance that a call has locked
\* changes, and no key of an event is used.
LedgerMoves ==
    /\ UNCHANGED <<lockedBy, payments, subs, plans, call, patch, acked, duplicates, faults>>
    /\ opened' \subseteq Users
    /\ LedgerTypeOK' /\ LedgerFinite' /\ BalanceTracksLedger'
    /\ \A v \in Users : lockedBy[v] # None => balance'[v] = balance[v]
    /\ txns \subseteq txns'
    /\ \A t \in txns' \ txns : t.type \in {"grant", "reversal"} => t.key \in Gifts

LEMMA LedgerMovesFact ==
  ASSUME IInv, LedgerMoves
  PROVE  IInv'
<1>1. TypeOK'
  BY DEF IInv, TypeOK, LedgerMoves
<1>2. CallsGood'
  <2>1. ASSUME NEW c \in Calls PROVE CallGood(c)'
    <3> PICK r \in CallState : r = call[c]
      BY DEF IInv, TypeOK
    <3>1. /\ call'[c] = r /\ CallSource(r) /\ CallPosts(c, r) /\ CallPlans(r)
          /\ r.pc \in Inserted => r.user \in Users
      BY GoodFact DEF IInv, LedgerMoves
    <3>2. CallSource(r)' /\ CallPlans(r)'
      BY <3>1 DEF LedgerMoves, CallSource, CallPlans, Originals, Overwritten
    <3>3. r.posts => lockedBy'[r.user] = c /\ r.seen = balance'[r.user]
      <4>1. r.posts => r.user \in Users /\ lockedBy[r.user] = c
        BY <3>1 DEF CallPosts, Afterwards, Inserted
      <4>2. c # None
        BY ActorAssumption
      <4> QED
        BY <3>1, <4>1, <4>2 DEF CallPosts, LedgerMoves
    <3>4. CallPosts(c, r)'
      BY <3>1, <3>3 DEF CallPosts, Recorded, LedgerMoves
    <3> QED
      BY <3>1, <3>2, <3>4 DEF CallGood
  <2>2. OnePerEvent'
    BY DEF IInv, CallsGood, OnePerEvent, LedgerMoves
  <2> QED
    BY <2>1, <2>2 DEF CallsGood
<1>3. Stored'
  <2>1. PaymentSource'
    BY DEF IInv, Stored, PaymentSource, Originals, LedgerMoves
  <2>2. PaymentIsPosted'
    <3>1. \A u, type, k : Posted(u, type, k) => Posted(u, type, k)'
      BY DEF Posted, LedgerMoves
    <3>2. \A e : Recorded(e)' <=> Recorded(e)
      BY DEF Recorded, LedgerMoves
    <3> QED
      BY <3>1, <3>2 DEF IInv, Stored, PaymentIsPosted, LedgerMoves
  <2>3. OneSubscription' /\ EntitledByPurchase'
    BY DEF IInv, Stored, OneSubscription, EntitledByPurchase, Overwritten, LedgerMoves
  <2> QED
    BY <2>1, <2>2, <2>3 DEF Stored
<1>4. PatchesGood'
  BY DEF IInv, PatchesGood, LedgerMoves
<1> QED
  BY <1>1, <1>2, <1>3, <1>4 DEF IInv, LedgerMoves

\* Nobody had the lock that the end of a transaction of no call gives up.
LEMMA UnlockFree ==
  ASSUME TypeOK, NEW u \in Users, RowLockFree(u), Unlock(u, None)
  PROVE  lockedBy' = lockedBy
  BY DEF TypeOK, RowLockFree, Unlock

LEMMA HoldMoves ==
  ASSUME IInv, NEW s \in Spends, HoldCost(s)
  PROVE  LedgerMoves
<1> DEFINE u == Spender[s]
           n == Cost[s]
<1>1. u \in Users /\ n \in Nat /\ {s} \in SUBSET Keys /\ IsFiniteSet({s})
  <2>1. IsFiniteSet({s})
    BY FS_Singleton
  <2>2. u \in Users /\ n \in Nat /\ s \in Keys
    BY ActorAssumption, EventAssumption
  <2> QED
    BY <2>1, <2>2
<1>2. /\ CommitHolds(u, None, {s}, n) /\ RowLockFree(u)
      /\ UNCHANGED <<storeVars, sentVars, call, patch, faults>>
  BY DEF HoldCost
<1>3. LedgerTypeOK /\ LedgerFinite /\ BalanceTracksLedger
  BY DEF IInv, TypeOK
<1> HIDE DEF u, n
<1>4. LedgerTypeOK' /\ Unlock(u, None)
  BY <1>1, <1>2, <1>3, CommitHoldsType
<1>5. LedgerFinite' /\ \A v \in Users : LedgerSum(v)' = LedgerSum(v)
  BY <1>1, <1>2, <1>3, CommitHoldsSum
<1>6. lockedBy' = lockedBy
  BY <1>1, <1>2, <1>4, UnlockFree DEF IInv
<1>7. balance' = balance /\ txns' = txns \cup {Row(u, "hold", k, 0) : k \in {s}}
  BY <1>2 DEF CommitHolds
<1>8. BalanceTracksLedger'
  <2>1. txns \subseteq txns'
    BY <1>7
  <2> QED
    BY <1>3, <1>5, <1>7, <2>1, ReversedStays DEF BalanceTracksLedger
<1>9. \A t \in txns' \ txns : t.type = "hold"
  BY <1>7 DEF Row
<1> QED
  BY <1>2, <1>4, <1>5, <1>6, <1>7, <1>8, <1>9 DEF LedgerMoves, storeVars, sentVars, IInv, TypeOK

LEMMA ChargeMoves ==
  ASSUME IInv, NEW s \in Spends, ChargeCost(s)
  PROVE  LedgerMoves
<1> DEFINE u == Spender[s]
           n == Cost[s]
<1>1. u \in Users /\ n \in Nat /\ s \in Keys
  BY ActorAssumption, EventAssumption
<1>2. Debit(u, s, n) /\ UNCHANGED <<storeVars, sentVars, call, patch, faults>>
  BY DEF ChargeCost
<1>3. LedgerTypeOK /\ LedgerFinite /\ BalanceTracksLedger
  BY DEF IInv, TypeOK
<1> HIDE DEF u, n
<1>4. LedgerTypeOK'
  BY <1>1, <1>2, <1>3, DebitType
<1>5. /\ LedgerFinite'
      /\ \A v \in Users : LedgerSum(v)' = LedgerSum(v) - (IF v = u THEN n ELSE 0)
  BY <1>1, <1>2, <1>3, DebitSum
<1>6. /\ lockedBy' = lockedBy /\ lockedBy[u] = None
      /\ balance' = [balance EXCEPT ![u] = @ - n]
      /\ txns' = txns \cup {Row(u, "debit", s, -n)}
  BY <1>2 DEF Debit, RowLockFree
<1>7. \A v \in Users : balance'[v] = balance[v] - (IF v = u THEN n ELSE 0)
  BY <1>1, <1>3, <1>6 DEF LedgerTypeOK
<1>8. BalanceTracksLedger'
  <2> SUFFICES ASSUME NEW v \in Users PROVE Tracks(v)'
    BY DEF BalanceTracksLedger, Tracks
  <2>1. LedgerSum(v) \in Int /\ balance[v] \in Nat /\ LedgerSum(v) <= balance[v]
        /\ (LedgerSum(v) = balance[v] \/ Reversed(v))
    BY <1>3, LedgerSumType DEF BalanceTracksLedger, LedgerTypeOK
  <2>2. LedgerSum(v)' <= balance'[v] /\ (LedgerSum(v) = balance[v] => LedgerSum(v)' = balance'[v])
    BY <1>1, <1>5, <1>7, <2>1
  <2>3. txns \subseteq txns'
    BY <1>6
  <2> QED
    BY <2>1, <2>2, <2>3, ReversedStays DEF Tracks
<1>9. \A t \in txns' \ txns : t.type = "debit"
  <2> DEFINE d == -n
  <2>1. txns' = txns \cup {Row(u, "debit", s, d)}
    BY <1>6
  <2> HIDE DEF d
  <2> QED
    BY <2>1 DEF Row
<1>10. \A v \in Users : lockedBy[v] # None => balance'[v] = balance[v]
  BY <1>6
<1> QED
  BY <1>2, <1>4, <1>5, <1>6, <1>8, <1>9, <1>10 DEF LedgerMoves, storeVars, sentVars, IInv, TypeOK

LEMMA GiftMoves ==
  ASSUME IInv, NEW g \in Gifts, AdminGrant(g)
  PROVE  LedgerMoves
<1> DEFINE u == Recipient[g]
           seen == balance[u]
<1>1. u \in Users /\ Gift \in Nat /\ g \in Keys
  BY ActorAssumption, EventAssumption
<1>2. /\ CommitGrant(u, None, g, Gift, seen) /\ RowLockFree(u) /\ ~Posted(u, "grant", g)
      /\ opened' = opened \cup {u}
      /\ UNCHANGED <<payments, subs, plans, sentVars, call, patch, faults>>
  BY DEF AdminGrant
<1>3. LedgerTypeOK /\ LedgerFinite /\ BalanceTracksLedger /\ seen \in Nat /\ seen = balance[u]
  BY <1>1 DEF IInv, TypeOK, LedgerTypeOK
<1> HIDE DEF u, seen
<1>4. LedgerTypeOK' /\ Unlock(u, None)
  BY <1>1, <1>2, <1>3, GrantType
<1>5. /\ LedgerFinite'
      /\ \A v \in Users : LedgerSum(v)' = LedgerSum(v) + (IF v = u THEN Gift ELSE 0)
  BY <1>1, <1>2, <1>3, GrantSum
<1>6. lockedBy' = lockedBy /\ lockedBy[u] = None
  BY <1>1, <1>2, <1>4, UnlockFree DEF IInv, RowLockFree
<1>7. /\ balance' = [balance EXCEPT ![u] = seen + Gift]
      /\ txns' = txns \cup {Row(u, "grant", g, Gift)}
  BY <1>2 DEF CommitGrant
<1>8. \A v \in Users : balance'[v] = IF v = u THEN balance[v] + Gift ELSE balance[v]
  BY <1>1, <1>3, <1>7 DEF LedgerTypeOK
<1>9. BalanceTracksLedger'
  <2> SUFFICES ASSUME NEW v \in Users PROVE Tracks(v)'
    BY DEF BalanceTracksLedger, Tracks
  <2>1. LedgerSum(v) \in Int /\ balance[v] \in Nat /\ LedgerSum(v) <= balance[v]
        /\ (LedgerSum(v) = balance[v] \/ Reversed(v))
    BY <1>3, LedgerSumType DEF BalanceTracksLedger, LedgerTypeOK
  <2>2. LedgerSum(v)' <= balance'[v] /\ (LedgerSum(v) = balance[v] => LedgerSum(v)' = balance'[v])
    BY <1>1, <1>5, <1>8, <2>1
  <2>3. txns \subseteq txns'
    BY <1>7
  <2> QED
    BY <2>1, <2>2, <2>3, ReversedStays DEF Tracks
<1>10. txns \subseteq txns' /\ \A t \in txns' \ txns : t.key \in Gifts
  BY <1>7, RowAdded
<1>11. \A v \in Users : lockedBy[v] # None => balance'[v] = balance[v]
  BY <1>6, <1>8
<1>12. opened' \subseteq Users
  BY <1>1, <1>2 DEF IInv, TypeOK
<1> QED
  BY <1>2, <1>4, <1>5, <1>6, <1>9, <1>10, <1>11, <1>12 DEF LedgerMoves, sentVars

-----------------------------------------------------------------------------
(* The settings calls.                                                     *)

\* A list of plans is written over; what it loses is written down.
SettingsMove ==
    /\ UNCHANGED <<ledgerVars, opened, payments, subs, call, acked, duplicates, faults>>
    /\ plans' \in [Users -> SUBSET SubPlans] /\ patch' \in [Patches -> PatchState]
    /\ PatchesGood'
    /\ \A v, s : Overwritten(v, s) => Overwritten(v, s)'
    /\ \A v \in Users : \A s \in plans[v] : s \in plans'[v] \/ Overwritten(v, s)'

LEMMA SettingsFact ==
  ASSUME IInv, SettingsMove
  PROVE  IInv'
<1>1. TypeOK'
  BY DEF IInv, TypeOK, LedgerTypeOK, SettingsMove, ledgerVars
<1>2. LedgerFinite' /\ BalanceTracksLedger'
  BY SameLedger DEF IInv, SettingsMove, ledgerVars
<1>3. CallsGood'
  <2>1. ASSUME NEW c \in Calls PROVE CallGood(c)'
    <3> PICK r \in CallState : r = call[c]
      BY DEF IInv, TypeOK
    <3>1. call'[c] = r /\ CallSource(r) /\ CallPosts(c, r) /\ CallPlans(r)
      BY GoodFact DEF IInv, SettingsMove
    <3>0. r.pc = "commit" => r.user \in Users
      BY GoodFact DEF IInv, Inserted
    <3>2. CallSource(r)' /\ CallPosts(c, r)'
      BY <3>1 DEF SettingsMove, CallSource, CallPosts, Originals, Recorded, ledgerVars
    <3>3. CallPlans(r)'
      <4>1. ASSUME r.pc = "commit", BuysPlan(r.event), NEW t \in r.plans
            PROVE  t \in plans'[r.user] \/ Overwritten(r.user, t)'
        BY <3>0, <3>1, <4>1 DEF CallPlans, SettingsMove
      <4> QED
        BY <3>1, <4>1 DEF SettingsMove, CallPlans
    <3> QED
      BY <3>1, <3>2, <3>3 DEF CallGood
  <2>2. OnePerEvent'
    BY DEF IInv, CallsGood, OnePerEvent, SettingsMove
  <2> QED
    BY <2>1, <2>2 DEF CallsGood
<1>4. Stored'
  <2>1. PaymentSource' /\ OneSubscription'
    BY DEF IInv, Stored, PaymentSource, OneSubscription, Originals, SettingsMove
  <2>2. PaymentIsPosted'
    BY DEF IInv, Stored, PaymentIsPosted, Posted, Recorded, SettingsMove, ledgerVars
  <2>3. EntitledByPurchase'
    <3> SUFFICES ASSUME NEW p \in payments, p.kind = "purchase", PlanOf[p.event] \in SubPlans
                 PROVE  PlanOf[p.event] \in plans'[p.user]
                        \/ Overwritten(p.user, PlanOf[p.event])'
      BY DEF EntitledByPurchase, SettingsMove
    <3>1. p.user \in Users
      BY DEF IInv, TypeOK, Payment
    <3> QED
      BY <3>1 DEF IInv, Stored, EntitledByPurchase, SettingsMove
  <2> QED
    BY <2>1, <2>2, <2>3 DEF Stored
<1> QED
  BY <1>1, <1>2, <1>3, <1>4 DEF IInv, SettingsMove

\* A settings call that has lost nothing so far goes on.
LEMMA PatchGoes ==
  ASSUME IInv, NEW q \in Patches, patch[q].pc # "done", NEW T \in SUBSET SubPlans,
         NEW L \in SUBSET SubPlans, NEW pc \in {"merge", "done"}, L # {} => pc = "done",
         patch' = [patch EXCEPT ![q] = [pc |-> pc, plans |-> T, lost |-> L]]
  PROVE  /\ patch' \in [Patches -> PatchState] /\ PatchesGood'
         /\ \A v, s : Overwritten(v, s) => Overwritten(v, s)'
         /\ \A s \in L : Overwritten(Patcher[q], s)'
<1> PICK n : n = [pc |-> pc, plans |-> T, lost |-> L]
  OBVIOUS
<1>1. n \in PatchState /\ n.pc = pc /\ n.lost = L
  BY DEF PatchState
<1>2. \A p \in Patches : patch'[p] = IF p = q THEN n ELSE patch[p]
  BY DEF IInv, TypeOK
<1>3. patch[q].lost = {}
  BY DEF IInv, PatchesGood
<1>4. patch' \in [Patches -> PatchState]
  BY <1>1 DEF IInv, TypeOK
<1>5. PatchesGood'
  BY <1>1, <1>2 DEF IInv, PatchesGood
<1>6. \A p \in Patches : patch[p].lost \subseteq patch'[p].lost
  BY <1>2, <1>3
<1>7. patch'[q].lost = L
  BY <1>1, <1>2
<1> QED
  BY <1>4, <1>5, <1>6, <1>7 DEF Overwritten

LEMMA PatchReadMoves ==
  ASSUME IInv, NEW q \in Patches, PatchRead(q)
  PROVE  SettingsMove
<1> DEFINE T == plans[Patcher[q]]
<1>1. /\ patch[q].pc # "done" /\ T \in SUBSET SubPlans
      /\ patch' = [patch EXCEPT ![q] = [pc |-> "merge", plans |-> T, lost |-> {}]]
      /\ UNCHANGED <<ledgerVars, storeVars, sentVars, call, faults>>
  BY ActorAssumption DEF PatchRead, IInv, TypeOK
<1> HIDE DEF T
<1>2. /\ patch' \in [Patches -> PatchState] /\ PatchesGood'
      /\ \A v, s : Overwritten(v, s) => Overwritten(v, s)'
  BY <1>1, PatchGoes
<1> QED
  BY <1>1, <1>2 DEF SettingsMove, storeVars, sentVars, IInv, TypeOK

LEMMA PatchWriteMoves ==
  ASSUME IInv, NEW q \in Patches, PatchWrite(q)
  PROVE  SettingsMove
<1> DEFINE u == Patcher[q]
<1>0. u \in Users /\ patch[q].plans \in SUBSET SubPlans /\ plans[u] \in SUBSET SubPlans
  BY ActorAssumption DEF IInv, TypeOK, PatchState
<1> PICK T \in SUBSET SubPlans :
          /\ patch[q].pc = "merge" /\ plans' = [plans EXCEPT ![u] = T]
          /\ patch' = [patch EXCEPT ![q] = [pc |-> "done", plans |-> {}, lost |-> plans[u] \ T]]
          /\ UNCHANGED <<ledgerVars, opened, payments, subs, sentVars, call, faults>>
  BY <1>0 DEF PatchWrite
<1> DEFINE L == plans[u] \ T
<1>1. /\ patch[q].pc = "merge" /\ plans' = [plans EXCEPT ![u] = T]
      /\ patch' = [patch EXCEPT ![q] = [pc |-> "done", plans |-> {}, lost |-> L]]
      /\ UNCHANGED <<ledgerVars, opened, payments, subs, sentVars, call, faults>>
  OBVIOUS
<1>2. u \in Users /\ T \in SUBSET SubPlans /\ L \in SUBSET SubPlans
  BY ActorAssumption DEF IInv, TypeOK, PatchState
<1>3. plans \in [Users -> SUBSET SubPlans] /\ plans[u] \subseteq T \cup L
  BY DEF IInv, TypeOK
<1> HIDE DEF L
<1>4. /\ patch' \in [Patches -> PatchState] /\ PatchesGood'
      /\ \A v, s : Overwritten(v, s) => Overwritten(v, s)'
      /\ \A s \in L : Overwritten(u, s)'
  BY <1>1, <1>2, PatchGoes
<1> HIDE DEF u
<1>5. plans' \in [Users -> SUBSET SubPlans]
  BY <1>1, <1>2, <1>3
<1>6. \A v \in Users : \A s \in plans[v] : s \in plans'[v] \/ Overwritten(v, s)'
  <2> SUFFICES ASSUME NEW v \in Users, NEW s \in plans[v]
               PROVE  s \in plans'[v] \/ Overwritten(v, s)'
    OBVIOUS
  <2>1. CASE v = u
    BY <1>1, <1>2, <1>3, <1>4, <2>1
  <2>2. CASE v # u
    BY <1>1, <1>3, <2>2
  <2> QED
    BY <2>1, <2>2
<1> QED
  BY <1>1, <1>4, <1>5, <1>6 DEF SettingsMove, sentVars

-----------------------------------------------------------------------------
(* The invariant.                                                          *)

LEMMA InvInit ==
  ASSUME Init
  PROVE  IInv
<1>1. LedgerTypeOK
  <2>1. balance \in [Users -> Nat] /\ held \in [Users -> Nat]
    BY LedgerAssumption DEF Init, LedgerInit
  <2>2. \A u \in Users : Row(u, "grant", Opening, InitialBalance[u]) \in Txn
    BY LedgerAssumption DEF Row, Txn, TxnType
  <2>3. txns \subseteq Txn
    BY <2>2 DEF Init, LedgerInit
  <2> QED
    BY <2>1, <2>3 DEF LedgerTypeOK
<1>2. /\ call \in [Calls -> CallState]
      /\ \A c \in Calls : call[c] = IdleCall
  BY IdleFact DEF Init
<1>3. TypeOK
  <2>1. patch \in [Patches -> PatchState]
    BY DEF Init, PatchState
  <2>2. lockedBy \in [Users -> Calls \cup {None}]
    BY DEF Init, LedgerInit
  <2>3. /\ \A c \in Calls : call[c].pc # "idle" => call[c].event \in Events
        /\ \A c \in Calls : call[c].pc \in Inserted \cup {"insert"} => call[c].user \in Users
    BY <1>2, IdleFact DEF Inserted
  <2>4. opened \subseteq Users /\ payments \subseteq Payment /\ acked \subseteq Events
    BY DEF Init
  <2>5. subs \in [Users -> [SubPlans -> Nat]] /\ plans \in [Users -> SUBSET SubPlans]
    BY DEF Init
  <2>6. duplicates \in 0..MaxDuplicates /\ faults \in 0..MaxFaults
    BY ActorAssumption DEF Init
  <2> QED
    BY <1>1, <1>2, <2>1, <2>2, <2>3, <2>4, <2>5, <2>6 DEF TypeOK
<1>4. LedgerFinite /\ BalanceTracksLedger
  <2>1. LedgerFinite /\ \A u \in Users : LedgerSum(u) = balance[u]
    BY <1>1, LedgerSumInit DEF Init
  <2> QED
    BY <1>1, <2>1 DEF BalanceTracksLedger, LedgerTypeOK
<1>5. CallsGood
  <2>1. \A c \in Calls : CallGood(c)
    BY <1>2, IdleFact DEF CallGood, CallSource, CallPosts, CallPlans, Inserted, Afterwards
  <2> QED
    BY <1>2, <2>1, IdleFact DEF CallsGood, OnePerEvent, Inserted
<1>6. Stored
  <2>1. PaymentSource /\ EntitledByPurchase
    BY DEF Init, PaymentSource, EntitledByPurchase
  <2>2. OneSubscription
    BY DEF Init, OneSubscription
  <2>3. PaymentIsPosted
    <3>1. \A t \in txns : t.key = Opening
      BY DEF Init, LedgerInit, Row
    <3> QED
      BY <3>1 DEF Init, PaymentIsPosted
  <2> QED
    BY <2>1, <2>2, <2>3 DEF Stored
<1>7. PatchesGood
  BY DEF Init, PatchesGood
<1> QED
  BY <1>3, <1>4, <1>5, <1>6, <1>7 DEF IInv

LEMMA StepsKeep ==
  ASSUME IInv, NEW c \in Calls, Steps(c), \A e \in acked' : e \in acked \/ Recorded(e)
  PROVE  IInv'
<1> PICK s : Local(c, s) /\ Fits(c, s)
  BY DEF Steps
<1>1. TypeOK' /\ CallsGood'
  BY LocalType, LocalCalls DEF IInv
<1>2. Still
  BY DEF Local
<1>3. LedgerFinite' /\ BalanceTracksLedger'
  BY <1>2, SameLedger DEF IInv, Still
<1>4. Stored'
  BY <1>2, StillStored DEF IInv
<1>5. PatchesGood'
  BY <1>2 DEF IInv, PatchesGood, Still
<1> QED
  BY <1>1, <1>3, <1>4, <1>5 DEF IInv

LEMMA CommitKeepsInv ==
  ASSUME IInv, NEW c \in Calls, Commit(c)
  PROVE  IInv'
<1>1. TypeOK /\ LedgerFinite /\ BalanceTracksLedger /\ PaymentIsPosted /\ CallsGood /\ Stored
  BY DEF IInv, Stored
<1> PICK r \in CallState : Ends(c, r)
  BY <1>1, EndsFact
<1>2. TypeOK' /\ CallsGood' /\ Stored'
  BY <1>1, CommitType, CommitCalls, CommitStored
<1>3. LedgerFinite' /\ BalanceTracksLedger'
  BY DEF Ends, CommitsLedger
<1>4. PatchesGood'
  BY DEF IInv, PatchesGood, Ends, Writes
<1> QED
  BY <1>2, <1>3, <1>4 DEF IInv

LEMMA CallStepKeeps ==
  ASSUME IInv, NEW c \in Calls, CallStep(c)
  PROVE  IInv'
<1>1. TypeOK /\ CallsGood /\ PaymentIsPosted /\ EntitledByPurchase
  BY DEF IInv, Stored
<1>2. CASE Lookup(c)
  <2>1. \A e \in acked' : e \in acked \/ Recorded(e)
    BY <1>2 DEF Lookup
  <2> QED
    BY <1>1, <1>2, <2>1, LookupSteps, StepsKeep
<1>3. CASE Find(c)
  BY <1>1, <1>3, FindSteps, StepsKeep DEF Find, sentVars
<1>4. CASE Insert(c)
  BY <1>1, <1>4, InsertSteps, StepsKeep DEF Insert, sentVars
<1>5. CASE Post(c)
  BY <1>1, <1>5, PostSteps, StepsKeep DEF Post, sentVars
<1>6. CASE Open(c)
  BY <1>1, <1>6, OpenSteps, StepsKeep DEF Open, sentVars
<1>7. CASE Subscribe(c)
  BY <1>1, <1>7, SubscribeSteps, StepsKeep DEF Subscribe, sentVars
<1>8. CASE Entitle(c)
  BY <1>1, <1>8, EntitleSteps, StepsKeep DEF Entitle, sentVars
<1>9. CASE Commit(c)
  BY <1>9, CommitKeepsInv
<1> QED
  BY <1>2, <1>3, <1>4, <1>5, <1>6, <1>7, <1>8, <1>9 DEF CallStep

LEMMA BeginKeeps ==
  ASSUME IInv, NEW c \in Calls, NEW e \in Events, Deliver(c, e) \/ Replay(c, e)
  PROVE  IInv'
<1>1. Begin(c, e) /\ acked' = acked
  BY DEF Deliver, Replay, Begin
<1>2. duplicates' \in 0..MaxDuplicates
  BY ActorAssumption DEF Deliver, Replay, IInv, TypeOK
<1>3. Steps(c)
  BY <1>1, <1>2, BeginSteps DEF IInv
<1> QED
  BY <1>1, <1>3, StepsKeep

LEMMA CallFailsKeeps ==
  ASSUME IInv, NEW c \in Calls, CallFails(c)
  PROVE  IInv'
<1>1. /\ Fails(c) /\ UNCHANGED <<storeVars, patch>> /\ acked' = acked
      /\ duplicates' = duplicates /\ Fault
  BY DEF CallFails, sentVars
<1>2. faults' \in 0..MaxFaults
  BY <1>1, ActorAssumption DEF Fault, IInv, TypeOK
<1>3. Steps(c)
  BY <1>1, <1>2, FailsLocally DEF IInv, TypeOK
<1> QED
  BY <1>1, <1>3, StepsKeep

LEMMA StutterKeeps ==
  ASSUME IInv, UNCHANGED vars
  PROVE  IInv'
<1>1. SettingsMove
  BY DEF IInv, TypeOK, PatchesGood, SettingsMove, vars, storeVars, sentVars, Overwritten
<1> QED
  BY <1>1, SettingsFact

LEMMA InvNext ==
  ASSUME IInv, [Next]_vars
  PROVE  IInv'
<1>1. CASE \E c \in Calls, e \in Events : Deliver(c, e) \/ Replay(c, e)
  BY <1>1, BeginKeeps
<1>2. CASE \E c \in Calls : CallStep(c) \/ CallFails(c)
  BY <1>2, CallStepKeeps, CallFailsKeeps
<1>3. CASE \E s \in Spends : HoldCost(s) \/ ChargeCost(s)
  BY <1>3, HoldMoves, ChargeMoves, LedgerMovesFact
<1>4. CASE \E g \in Gifts : AdminGrant(g)
  BY <1>4, GiftMoves, LedgerMovesFact
<1>5. CASE \E q \in Patches : PatchRead(q) \/ PatchWrite(q)
  BY <1>5, PatchReadMoves, PatchWriteMoves, SettingsFact
<1>6. CASE UNCHANGED vars
  BY <1>6, StutterKeeps
<1> QED
  BY <1>1, <1>2, <1>3, <1>4, <1>5, <1>6 DEF Next

THEOREM Invariant == Spec => []IInv
<1>1. Init => IInv
  BY InvInit
<1>2. IInv /\ [Next]_vars => IInv'
  BY InvNext
<1> QED
  BY <1>1, <1>2, PTL DEF Spec

-----------------------------------------------------------------------------
\* Whatever the calls, the users and the admin do, the state has its type.
THEOREM TypeCorrect == Spec => []TypeOK
<1>1. IInv => TypeOK
  BY DEF IInv
<1> QED
  BY <1>1, Invariant, PTL

\* One subscription row for a user and plan, however many calls race to insert it: the
\* lock that the grant takes keeps the second one waiting until the first has committed.
THEOREM OneSubscriptionCorrect == Spec => []OneSubscription
<1>1. IInv => OneSubscription
  BY DEF IInv, Stored
<1> QED
  BY <1>1, Invariant, PTL

\* A purchase takes no plan off the list that another one has put there: nothing but a
\* settings call of the buyer can, by naming plans or by writing an old list back.
THEOREM EntitledByPurchaseCorrect == Spec => []EntitledByPurchase
<1>1. IInv => EntitledByPurchase
  BY DEF IInv, Stored
<1> QED
  BY <1>1, Invariant, PTL

\* The balance is what the ledger adds up to, and more only after a reversal.
THEOREM BalanceTracksLedgerCorrect == Spec => []BalanceTracksLedger
<1>1. IInv => BalanceTracksLedger
  BY DEF IInv
<1> QED
  BY <1>1, Invariant, PTL

\* A payment, its ledger entry and its acknowledgement come in this order or not at all.
THEOREM PaymentIsPostedCorrect == Spec => []PaymentIsPosted
<1>1. IInv => PaymentIsPosted
  BY DEF IInv, Stored
<1> QED
  BY <1>1, Invariant, PTL

\* A refund or chargeback that names no user is of the purchase it is about.
THEOREM RefundReversesCorrect == Spec => []RefundReverses
<1>1. IInv => RefundReverses
  <2> SUFFICES ASSUME IInv, NEW p \in payments, NEW q \in payments, p.kind # "purchase",
                      p.event \notin Named, Originals(p.event) = {q}
               PROVE  /\ p.user = q.user /\ p.credits = q.credits
                      /\ Posted(p.user, "reversal", p.event)
    BY DEF RefundReverses
  <2>1. p.event \in Events /\ q.event \in Events
    BY DEF IInv, TypeOK, Payment
  <2>2. p.user = q.user /\ p.credits = q.credits /\ p.kind = Kind[p.event]
    BY DEF IInv, Stored, PaymentSource
  <2>3. q.kind = "purchase" /\ q.credits > 0
    <3>1. q \in Originals(p.event)
      OBVIOUS
    <3>2. q.kind = "purchase"
      BY <3>1 DEF Originals, IsOriginal
    <3>3. q.event \in Purchases /\ q.credits = Credits[q.event]
      BY <2>1, <3>2 DEF IInv, Stored, PaymentSource, Purchases
    <3> QED
      BY <2>1, <3>2, <3>3, EventFact
  <2>4. PostType(p.event) = "reversal"
    BY <2>1, <2>2, EventFact DEF PostType
  <2> QED
    BY <2>2, <2>3, <2>4 DEF IInv, Stored, PaymentIsPosted
<1> QED
  BY <1>1, Invariant, PTL
=============================================================================
