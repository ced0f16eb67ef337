-------------------------- MODULE AccountsProofs --------------------------
(***************************************************************************)
(* Proofs about Accounts for every value of its constants.                 *)
(*                                                                         *)
(* A step changes accounts in two ways (UsersStep) and tokens and calls in *)
(* seven (Shape); what a shape makes of the rows is stated once, in the    *)
(* lemmas named ...Rows.  On top of it stand three inductive invariants:   *)
(*                                                                         *)
(*   Typed      the types, and that what a call has loaded is still there; *)
(*   TokenInv   a token that was exchanged and is held, or is held twice,  *)
(*              was read by two calls while it was live; FamilyInv says    *)
(*              the same of the tokens of a lineage;                       *)
(*   EndedInv   no call holds the standing of a session that was ended.    *)
(***************************************************************************)
EXTENDS Accounts, SequenceTheorems, TLAPS

-----------------------------------------------------------------------------
(* What the operators on rows make of them.                                *)

SecretKind == {"verify", "reset", "session"}

LEMMA IssuedFact ==
  ASSUME NEW rows \in Seq(Secret)
  PROVE  /\ DOMAIN rows = 1..Len(rows) /\ Len(rows) \in Nat
         /\ \A t \in DOMAIN rows : t \in Nat /\ t # NoSecret /\ rows[t] \in Secret
<1>1. DOMAIN rows = 1..Len(rows) /\ Len(rows) \in Nat
  BY LenProperties
<1>2. \A t \in 1..Len(rows) : rows[t] \in Secret
  BY ElementOfSeq
<1> QED
  BY <1>1, <1>2 DEF NoSecret

\* The row that WithSecret adds.
NewSecret(n, kind, u, family, standing) ==
    [kind |-> kind, user |-> u, family |-> IF family = NoSecret THEN n ELSE family,
     spent |-> FALSE, standing |-> standing, uses |-> 0, forked |-> FALSE]

\* new is rows with that row.
HasIssued(new, rows, kind, u, family, standing) ==
    LET n == Len(rows) + 1
    IN  /\ new \in Seq(Secret) /\ Len(new) = n
        /\ n \notin DOMAIN rows /\ DOMAIN new = DOMAIN rows \cup {n}
        /\ \A t \in DOMAIN rows : new[t] = rows[t]
        /\ new[n] = NewSecret(n, kind, u, family, standing)

LEMMA WithSecretFact ==
  ASSUME NEW rows \in Seq(Secret), Len(rows) < MaxSecrets,
         NEW kind \in SecretKind, NEW u \in Ids, NEW family \in SecretNo \cup {NoSecret},
         NEW standing \in Standing
  PROVE  HasIssued(WithSecret(rows, kind, u, family, standing), rows, kind, u, family, standing)
<1> DEFINE n == Len(rows) + 1
           r == NewSecret(n, kind, u, family, standing)
<1>1. DOMAIN rows = 1..Len(rows) /\ Len(rows) \in Nat
  BY IssuedFact
<1>2. n \in SecretNo
  BY <1>1, AccountAssumption DEF SecretNo
<1>3. r \in Secret
  BY <1>2 DEF NewSecret, Secret, SecretKind
<1>4. WithSecret(rows, kind, u, family, standing) = Append(rows, r)
  BY DEF WithSecret, NewSecret
<1> HIDE DEF r
<1>5. /\ Append(rows, r) \in Seq(Secret) /\ Len(Append(rows, r)) = n
      /\ \A t \in 1..Len(rows) : Append(rows, r)[t] = rows[t]
      /\ Append(rows, r)[n] = r
  BY <1>3, AppendProperties
<1>6. DOMAIN Append(rows, r) = 1..n
  BY <1>5, LenProperties
<1>7. n \notin DOMAIN rows /\ 1..n = DOMAIN rows \cup {n}
  BY <1>1
<1> QED
  BY <1>1, <1>4, <1>5, <1>6, <1>7 DEF r, HasIssued

\* A row whose history moves on keeps who it belongs to.
SameOwner(s, r) == s.kind = r.kind /\ s.user = r.user /\ s.family = r.family

LEMMA ExchangedFact ==
  ASSUME NEW rows \in Seq(Secret), NEW t \in DOMAIN rows
  PROVE  LET new == Exchanged(rows, t)
         IN  /\ new \in Seq(Secret) /\ DOMAIN new = DOMAIN rows /\ Len(new) = Len(rows)
             /\ \A s \in DOMAIN rows \ {t} : new[s] = rows[s]
             /\ SameOwner(new[t], rows[t])
             /\ new[t].spent = TRUE
             /\ new[t].uses = rows[t].uses + 1
             /\ new[t].forked = rows[t].forked /\ new[t].standing = rows[t].standing
<1> DEFINE r == [rows[t] EXCEPT !.spent = TRUE, !.uses = rows[t].uses + 1]
<1>1. rows[t] \in Secret /\ DOMAIN rows = 1..Len(rows)
  BY IssuedFact
<1>2. /\ r.spent = TRUE /\ r.uses = rows[t].uses + 1
      /\ r.forked = rows[t].forked /\ r.standing = rows[t].standing
  BY <1>1 DEF Secret
<1>6. SameOwner(r, rows[t])
  BY <1>1 DEF Secret, SameOwner
<1>7. r \in Secret
  <2>1. rows[t].uses + 1 \in Nat
    BY <1>1 DEF Secret
  <2> QED
    BY <1>1, <2>1 DEF Secret
<1>3. Exchanged(rows, t) = [rows EXCEPT ![t] = r]
  BY DEF Exchanged
<1> HIDE DEF r
<1>4. /\ [rows EXCEPT ![t] = r] \in Seq(Secret) /\ Len([rows EXCEPT ![t] = r]) = Len(rows)
      /\ \A s \in DOMAIN rows : [rows EXCEPT ![t] = r][s] = IF s = t THEN r ELSE rows[s]
  BY <1>1, <1>7, ExceptSeq
<1>5. DOMAIN [rows EXCEPT ![t] = r] = DOMAIN rows
  OBVIOUS
<1> QED
  BY <1>1, <1>2, <1>3, <1>4, <1>5, <1>6

\* The rows may also change at one place (a read, a logout) or at many (an ending).
LEMMA RowChangeFact ==
  ASSUME NEW rows \in Seq(Secret), NEW t \in DOMAIN rows, NEW r \in Secret
  PROVE  LET new == [rows EXCEPT ![t] = r]
         IN  /\ new \in Seq(Secret) /\ DOMAIN new = DOMAIN rows /\ Len(new) = Len(rows)
             /\ \A s \in DOMAIN rows \ {t} : new[s] = rows[s]
             /\ new[t] = r
<1>1. DOMAIN rows = 1..Len(rows)
  BY IssuedFact
<1> QED
  BY <1>1, ExceptSeq

LEMMA SessionsEndedFact ==
  ASSUME NEW rows \in Seq(Secret), NEW u, NEW found
  PROVE  LET new == SessionsEnded(rows, u, found)
         IN  /\ new \in Seq(Secret) /\ DOMAIN new = DOMAIN rows /\ Len(new) = Len(rows)
             /\ \A t \in DOMAIN rows :
                  /\ SameOwner(new[t], rows[t])
                  /\ new[t].uses = rows[t].uses /\ new[t].forked = rows[t].forked
                  /\ rows[t].spent => new[t].spent
                  /\ rows[t].kind = "session" /\ new[t].standing = "ended" =>
                       new[t].spent \/ rows[t].standing = "ended" 
<1> DEFINE r(t) == IF rows[t].kind # "session" \/ rows[t].user # u THEN rows[t]
                   ELSE [rows[t] EXCEPT !.spent = rows[t].spent \/ t \in found,
                                        !.standing = IF t \in found \/ rows[t].spent
                                                     THEN "ended" ELSE "raced"]
<1>1. /\ DOMAIN rows = 1..Len(rows) /\ Len(rows) \in Nat
      /\ \A t \in DOMAIN rows : rows[t] \in Secret
  BY IssuedFact
<1>2. ASSUME NEW t \in DOMAIN rows
      PROVE  /\ r(t) \in Secret /\ SameOwner(r(t), rows[t])
             /\ r(t).uses = rows[t].uses /\ r(t).forked = rows[t].forked
             /\ rows[t].spent => r(t).spent
             /\ rows[t].kind = "session" /\ r(t).standing = "ended" =>
                  r(t).spent \/ rows[t].standing = "ended"
  <2> DEFINE q == rows[t]
             sp == q.spent \/ t \in found
             st == IF t \in found \/ q.spent THEN "ended" ELSE "raced"
             e == [q EXCEPT !.spent = sp, !.standing = st]
  <2>1. q \in Secret /\ sp \in BOOLEAN /\ st \in Standing /\ (st = "ended" => sp) /\ (q.spent => sp)
    BY <1>1 DEF Standing
  <2> HIDE DEF q, sp, st
  <2>2. SameOwner(e, q) /\ e.uses = q.uses /\ e.forked = q.forked /\ e.standing = st
    BY <2>1 DEF Secret, SameOwner
  <2>3. e.spent = sp
    BY <2>1 DEF Secret
  <2>4. e \in Secret
    BY <2>1 DEF Secret
  <2> HIDE DEF e
  <2>5. r(t) = q \/ r(t) = e
    BY DEF q, e, sp, st
  <2>6. CASE r(t) = q
    BY <2>1, <2>6 DEF SameOwner, q
  <2>7. CASE r(t) = e
    BY <2>1, <2>2, <2>3, <2>4, <2>7 DEF SameOwner, q
  <2> QED
    BY <2>5, <2>6, <2>7
<1>3. SessionsEnded(rows, u, found) = [t \in DOMAIN rows |-> r(t)]
  BY DEF SessionsEnded
<1> HIDE DEF r
<1>4. [t \in 1..Len(rows) |-> r(t)] \in Seq(Secret)
  BY <1>1, <1>2, IsASeq
<1>5. Len([t \in 1..Len(rows) |-> r(t)]) = Len(rows)
  BY <1>1
<1> QED
  BY <1>1, <1>2, <1>3, <1>4, <1>5

-----------------------------------------------------------------------------
(* Type correctness.  Beside the types, what a call has loaded is there    *)
(* for good: an account is never removed, and neither is a token.          *)

Known == {u \in Ids : Exists(u)}

\* Operations that exchange a token.
ByToken == {"verify", "refresh", "reset"}

\* The local state s of a call is about accounts and tokens that there are.
Knows(s, known, issued) ==
    /\ s.user # None => s.user \in known
    /\ s.token \in issued \cup {NoSecret} /\ s.found \subseteq issued
    /\ s.pc = "exchange" => s.op = "oauth"
    /\ s.pc = "find" => s.op \in Endings
    /\ s.pc # "idle" =>
         /\ s.op \in Ops
         /\ s.op = "oauth" => s.identity \in Identities
         /\ s.op \in ByToken => s.token \in issued
         /\ s.op \notin {"register", "oauth"} => s.user \in known

LinkedKnown == \A i \in Identities : linked[i] # None => linked[i] \in Known
CallsKnow   == \A c \in Calls : Knows(call[c], Known, Issued)
Typed == TypeOK /\ LinkedKnown /\ CallsKnow

LEMMA IdleFact ==
  ASSUME NEW known, NEW issued
  PROVE  /\ IdleCall \in CallState /\ Knows(IdleCall, known, issued)
         /\ IdleCall.token = NoSecret /\ IdleCall.standing = "good"
<1>1. IdleCall \in CallState
  BY AccountAssumption DEF IdleCall, CallState, NoSecret, Standing, Status
<1>2. Knows(IdleCall, known, issued)
  BY DEF IdleCall, Knows
<1> QED
  BY <1>1, <1>2 DEF IdleCall

LEMMA TypedInit == Init => Typed
<1> SUFFICES ASSUME Init PROVE Typed
  OBVIOUS
<1>1. secrets \in Seq(Secret) /\ Len(secrets) = 0
  BY EmptySeq DEF Init
<1>2. Issued = {}
  BY <1>1, IssuedFact DEF Issued
<1>3. NoUser \in User
  BY DEF NoUser, User, Status
<1>4. \A c \in Calls : call[c] = IdleCall
  BY DEF Init
<1>5. call \in [Calls -> CallState]
  BY IdleFact DEF Init
<1>6. users \in [Ids -> User]
  BY <1>3 DEF Init
<1>7. /\ linked \in [Identities -> Ids \cup {None}]
      /\ grants \in [Identities -> SUBSET {"state", "code"}]
      /\ begun \in 0..MaxCalls /\ Len(secrets) <= MaxSecrets
  BY <1>1, AccountAssumption DEF Init
<1>8. CallsKnow
  BY <1>4, IdleFact DEF CallsKnow
<1>9. TypeOK
  BY <1>1, <1>2, <1>5, <1>6, <1>7, <1>8 DEF TypeOK, CallsKnow, Knows
<1> QED
  BY <1>8, <1>9 DEF Typed, Init, LinkedKnown

LEMMA KnowsMore ==
  ASSUME NEW s, NEW known, NEW issued, NEW known2, NEW issued2, Knows(s, known, issued),
         known \subseteq known2, issued \subseteq issued2
  PROVE  Knows(s, known2, issued2)
  BY DEF Knows

\* A row that is written is one of the user.
LEMMA UserFact ==
  ASSUME NEW u \in User
  PROVE  /\ [u EXCEPT !.verified = TRUE] \in User /\ [u EXCEPT !.verified = TRUE].status = u.status
         /\ [u EXCEPT !.verified = TRUE].email = u.email
         /\ [u EXCEPT !.password = TRUE] \in User /\ [u EXCEPT !.password = TRUE].status = u.status
         /\ [u EXCEPT !.password = TRUE].email = u.email
         /\ \A s \in Status : [u EXCEPT !.status = s] \in User /\ [u EXCEPT !.status = s].status = s
                              /\ [u EXCEPT !.status = s].email = u.email
  BY DEF User

LEMMA ScrubFact ==
  ASSUME NEW u \in User
  PROVE  LET new == [u EXCEPT !.email = None, !.password = FALSE]
         IN  new \in User /\ new.status = u.status /\ new.email = None
<1> DEFINE new == [u EXCEPT !.email = None, !.password = FALSE]
<1>1. new.status = u.status
  BY DEF User
<1>2. new.email = None
  BY DEF User
<1>3. new \in User
  BY DEF User
<1> QED
  BY <1>1, <1>2, <1>3

LEMMA RegisteredFact ==
  ASSUME NEW e \in Emails \cup {None}, NEW v \in BOOLEAN, NEW p \in BOOLEAN
  PROVE  /\ Registered(e, v, p) \in User
         /\ Registered(e, v, p).status = "active" /\ Registered(e, v, p).email = e
  BY DEF Registered, User, Status

-----------------------------------------------------------------------------
(* Accounts: a step creates one, changes one, or leaves them alone.        *)

\* An account with an address that no other one has, or with none.
Creates(u) ==
    \E r \in User : /\ ~Exists(u) /\ users' = [users EXCEPT ![u] = r] /\ r.status # "none"
                    /\ r.email # None => ~HasEmail(r.email)

\* It keeps its address, or gives it up.
Changes(u) ==
    \E r \in User : /\ Exists(u) /\ users' = [users EXCEPT ![u] = r] /\ r.status # "none"
                    /\ r.email \in {users[u].email, None}

UsersStep == users' = users \/ \E u \in Ids : Creates(u) \/ Changes(u)

LEMMA CreatesFact ==
  ASSUME Typed, NEW u \in Ids, ~Exists(u), NEW e \in Emails \cup {None}, NEW v \in BOOLEAN,
         NEW p \in BOOLEAN, e # None => ~HasEmail(e), users' = [users EXCEPT ![u] = Registered(e, v, p)]
  PROVE  UsersStep
  BY RegisteredFact DEF Creates, UsersStep

LEMMA ChangesFact ==
  ASSUME Typed, NEW u \in Ids, Exists(u), NEW r \in User, r.status # "none",
         r.email \in {users[u].email, None}, users' = [users EXCEPT ![u] = r]
  PROVE  UsersStep
  BY DEF Changes, UsersStep

LEMMA StatusFact ==
  ASSUME Typed, NEW u \in Ids, Exists(u), NEW seen, NEW new \in Status \ {"none"},
         StatusWritten(u, seen, new)
  PROVE  UsersStep
<1>1. CASE seen = new
  BY <1>1 DEF StatusWritten, UsersStep
<1>2. CASE seen # new
  <2> DEFINE r == [users[u] EXCEPT !.status = new]
  <2>1. users[u] \in User
    BY DEF Typed, TypeOK
  <2>2. users' = [users EXCEPT ![u] = r]
    BY <1>2 DEF StatusWritten
  <2>3. r \in User /\ r.status = new /\ r.email = users[u].email
    BY <2>1, UserFact
  <2> HIDE DEF r
  <2> QED
    BY <2>2, <2>3, ChangesFact
<1> QED
  BY <1>1, <1>2

\* A call at its commit has the account it is about.
LEMMA CallKnows ==
  ASSUME Typed, NEW c \in Calls, call[c].pc # "idle"
  PROVE  /\ call[c] \in CallState /\ call[c].op \in Ops
         /\ call[c].op \notin {"register", "oauth"} =>
              call[c].user \in Ids /\ Exists(call[c].user) /\ users[call[c].user] \in User
         /\ call[c].op = "oauth" => call[c].identity \in Identities
         /\ call[c].op \in ByToken => call[c].token \in Issued
  BY DEF Typed, TypeOK, CallsKnow, Knows, Known

LEMMA UsersNext ==
  ASSUME Typed, [Next]_vars
  PROVE  UsersStep
<1>1. ASSUME NEW c \in Calls, NEW u \in Ids, RegisterCommit(c, u) PROVE UsersStep
  <2>1. call[c].email \in Emails \cup {None}
    BY DEF Typed, TypeOK, CallState
  <2>2. ~Exists(u) /\ ~HasEmail(call[c].email)
        /\ users' = [users EXCEPT ![u] = Registered(call[c].email, FALSE, TRUE)]
    BY <1>1 DEF RegisterCommit
  <2> QED
    BY <2>1, <2>2, CreatesFact
<1>2. ASSUME NEW c \in Calls, VerifyCommit(c) PROVE UsersStep
  <2> DEFINE u == call[c].user
  <2>1. u \in Ids /\ Exists(u) /\ users[u] \in User
    BY <1>2, CallKnows DEF VerifyCommit, Commits
  <2>2. users' = [users EXCEPT ![u] = [users[u] EXCEPT !.verified = TRUE]]
    BY <1>2 DEF VerifyCommit
  <2> HIDE DEF u
  <2> QED
    BY <2>1, <2>2, UserFact, ChangesFact DEF Exists
<1>3. ASSUME NEW u \in Ids, GuestSession(u) PROVE UsersStep
  <2>1. ~Exists(u) /\ users' = [users EXCEPT ![u] = Registered(None, TRUE, TRUE)]
    BY <1>3 DEF GuestSession
  <2> QED
    BY <2>1, CreatesFact
<1>4. ASSUME NEW c \in Calls, NEW u \in Ids, OAuthCommit(c, u) PROVE UsersStep
  <2>1. CASE call[c].user = None
    <3>1. call[c].identity \in Identities
      BY <1>4, CallKnows DEF OAuthCommit, Commits
    <3>2. IdentityEmail[call[c].identity] \in Emails
      BY <3>1, AccountAssumption
    <3>3. /\ ~Exists(u) /\ ~HasEmail(IdentityEmail[call[c].identity])
          /\ users' = [users EXCEPT ![u] = Registered(IdentityEmail[call[c].identity], TRUE, FALSE)]
      BY <1>4, <2>1 DEF OAuthCommit
    <3> QED
      BY <3>2, <3>3, CreatesFact
  <2>2. CASE call[c].user # None
    BY <1>4, <2>2 DEF OAuthCommit, UsersStep
  <2> QED
    BY <2>1, <2>2
<1>5. ASSUME NEW c \in Calls, EndCommit(c) PROVE UsersStep
  <2> DEFINE u == call[c].user
  <2>1. call[c].pc # "idle" /\ call[c].op \in Endings
    BY <1>5 DEF EndCommit
  <2>2. u \in Ids /\ Exists(u) /\ users[u] \in User
    BY <2>1, CallKnows DEF Endings
  <2>3. CASE call[c].op = "reset"
    <3>1. users' = [users EXCEPT ![u] = [users[u] EXCEPT !.password = TRUE]]
      BY <1>5, <2>3 DEF EndCommit
    <3> HIDE DEF u
    <3> QED
      BY <2>2, <3>1, UserFact, ChangesFact DEF Exists
  <2>4. CASE call[c].op = "suspend"
    <3>1. StatusWritten(u, call[c].seen, "suspended")
      BY <1>5, <2>4 DEF EndCommit
    <3> HIDE DEF u
    <3> QED
      BY <2>2, <3>1, StatusFact DEF Status
  <2>5. CASE call[c].op = "close"
    <3>1. StatusWritten(u, call[c].seen, "deleted")
      BY <1>5, <2>5 DEF EndCommit
    <3> HIDE DEF u
    <3> QED
      BY <2>2, <3>1, StatusFact DEF Status
  <2> QED
    BY <2>1, <2>3, <2>4, <2>5 DEF Endings
<1>6. ASSUME NEW c \in Calls, ReinstateCommit(c) PROVE UsersStep
  <2>1. call[c].user \in Ids /\ Exists(call[c].user)
    BY <1>6, CallKnows DEF ReinstateCommit, Commits
  <2>2. StatusWritten(call[c].user, call[c].seen, "active")
    BY <1>6 DEF ReinstateCommit
  <2> QED
    BY <2>1, <2>2, StatusFact DEF Status
<1>7. ASSUME NEW u \in Ids, Scrub(u) PROVE UsersStep
  <2>1. users[u] \in User /\ Exists(u)
    BY <1>7 DEF Typed, TypeOK, Scrub, Exists
  <2>2. users' = [users EXCEPT ![u] = [users[u] EXCEPT !.email = None, !.password = FALSE]]
    BY <1>7 DEF Scrub
  <2> QED
    BY <2>1, <2>2, ScrubFact, ChangesFact DEF Exists
<1>8. CASE users' = users
  BY <1>8 DEF UsersStep
<1>9. ASSUME NEW c \in Calls, RegisterStep(c) PROVE UsersStep
  BY <1>1, <1>2, <1>8, <1>9 DEF RegisterStep, RegisterLoad, VerifyLoad
<1>10. ASSUME NEW c \in Calls, SessionStep(c) PROVE UsersStep
  BY <1>8, <1>10 DEF SessionStep, LoginLoad, LoginCommit, RefreshLoad, RefreshCommit
<1>11. ASSUME NEW c \in Calls, OAuthStep(c) PROVE UsersStep
  BY <1>4, <1>8, <1>11 DEF OAuthStep, OAuthCheck, OAuthRefused, OAuthExchange
<1>12. ASSUME NEW c \in Calls, EndStep(c) PROVE UsersStep
  BY <1>5, <1>6, <1>8, <1>12 DEF EndStep, ResetLoad, AdminLoad, CloseLoad, FindSessions
<1>13. ASSUME NEW c \in Calls, CallFails(c) PROVE UsersStep
  BY <1>8, <1>13 DEF CallFails
<1>14. CASE \/ \E u \in Ids : GuestSession(u) \/ ForgotPassword(u) \/ Scrub(u)
            \/ \E t \in Issued : Logout(t)
            \/ \E i \in Identities : OAuthStart(i)
            \/ UNCHANGED vars
  BY <1>3, <1>7, <1>8, <1>14 DEF ForgotPassword, Logout, OAuthStart, vars
<1> QED
  BY <1>9, <1>10, <1>11, <1>12, <1>13, <1>14 DEF Next

\* No account is ever removed.
LEMMA UsersStay ==
  ASSUME Typed, UsersStep
  PROVE  users' \in [Ids -> User] /\ Known \subseteq Known'
<1>1. users \in [Ids -> User]
  BY DEF Typed, TypeOK
<1>2. CASE users' = users
  BY <1>1, <1>2 DEF Known, Exists
<1>3. ASSUME NEW u \in Ids, Creates(u) \/ Changes(u)
      PROVE  users' \in [Ids -> User] /\ Known \subseteq Known'
  BY <1>1, <1>3 DEF Creates, Changes, Known, Exists
<1> QED
  BY <1>2, <1>3 DEF UsersStep

-----------------------------------------------------------------------------
(* The seven shapes that a step has, as far as tokens and calls go.        *)

NewCall(c, s) ==
    /\ call' = [call EXCEPT ![c] = s]
    /\ s \in CallState /\ Knows(s, Known, Issued)

Quiet == call' = call \/ \E c \in Calls : NewCall(c, IdleCall)

\* A call goes on, and reads no token.
Silent ==
    /\ secrets' = secrets
    /\ \/ call' = call
       \/ \E c \in Calls, s \in CallState :
            /\ NewCall(c, s)
            /\ s.token \in {NoSecret, call[c].token}
            /\ s.standing \in {"good", call[c].standing}

\* Call c reads token t.
Reading(c, t) ==
    /\ Live(t)
    /\ \E r \in Secret :
         /\ secrets' = [secrets EXCEPT ![t] = r]
         /\ SameOwner(r, secrets[t]) /\ r.uses = secrets[t].uses
         /\ r.spent = secrets[t].spent /\ r.standing = secrets[t].standing
         /\ r.forked <=> secrets[t].forked \/ Held(c, t)
    /\ \E s \in CallState :
         /\ NewCall(c, s) /\ s.token = t
         /\ \/ s.standing = "good"
            \/ s.standing = secrets[t].standing /\ secrets[t].kind = "session"

\* A token is issued whose family is its own.
Issuing(kind, u, standing) ==
    /\ Room /\ secrets' = WithSecret(secrets, kind, u, NoSecret, standing)
    /\ standing = "good" \/ \E c \in Calls : standing = call[c].standing
    /\ Quiet

\* A token is exchanged for what it is good for ...
Spending(c) ==
    /\ call[c].token \in Issued
    /\ secrets' = Exchanged(secrets, call[c].token)
    /\ NewCall(c, IdleCall)

\* ... or for its successor.
Rotating(c) ==
    LET t == call[c].token
    IN  /\ t \in Issued /\ call[c].user \in Known /\ Room
        /\ secrets' = WithSecret(Exchanged(secrets, t), "session", call[c].user,
                                 secrets[t].family, call[c].standing)
        /\ NewCall(c, IdleCall)

\* Nobody can exchange the token any more.
Dropping(t) ==
    /\ \E r \in Secret :
         /\ secrets' = [secrets EXCEPT ![t] = r]
         /\ SameOwner(r, secrets[t]) /\ r.uses = secrets[t].uses
         /\ r.spent = TRUE /\ r.forked = secrets[t].forked
         /\ r.standing = secrets[t].standing
    /\ call' = call

\* Call c ends the sessions of its account.
Ending(c) ==
    LET t == call[c].token
        rows == IF call[c].op = "reset" THEN Exchanged(secrets, t) ELSE secrets
    IN  /\ call[c].op = "reset" => t \in Issued
        /\ secrets' = SessionsEnded(rows, call[c].user, call[c].found)
        /\ Overtaken(c, call[c].user)

Shape ==
    \/ Silent
    \/ \E c \in Calls, t \in Issued : Reading(c, t)
    \/ \E kind \in SecretKind, u \in Ids, standing \in Standing :
         u \in Known' /\ Issuing(kind, u, standing)
    \/ \E c \in Calls : Spending(c) \/ Rotating(c) \/ Ending(c)
    \/ \E t \in Issued : Dropping(t)

\* What IdleCall holds is nothing.
LEMMA IdleFields ==
  /\ IdleCall \in CallState /\ IdleCall.pc = "idle"
  /\ IdleCall.user = None /\ IdleCall.token = NoSecret /\ IdleCall.found = {}
  /\ IdleCall.standing = "good"
  BY IdleFact DEF IdleCall

LEMMA EndsFact ==
  ASSUME Typed, NEW c \in Calls, call' = [call EXCEPT ![c] = IdleCall]
  PROVE  NewCall(c, IdleCall)
  BY IdleFact DEF NewCall

LEMMA EndsSilently ==
  ASSUME Typed, NEW c \in Calls, call' = [call EXCEPT ![c] = IdleCall], secrets' = secrets
  PROVE  Silent
  BY EndsFact, IdleFact DEF Silent

\* The loads that read no token.
LEMMA LoadShape ==
  ASSUME Typed, NEW c \in Calls, secrets' = secrets,
         NEW s \in CallState, call' = [call EXCEPT ![c] = s],
         s.user = None \/ s.user \in Known, s.token = NoSecret, s.found = {},
         s.standing = "good",
         \/ s.pc = "commit" /\ s.op = "register"
         \/ s.pc = "exchange" /\ s.op = "oauth" /\ s.identity \in Identities
         \/ s.pc = "commit" /\ s.op \in {"login", "reinstate"} /\ s.user \in Known
         \/ s.pc = "find" /\ s.op \in {"suspend", "close"} /\ s.user \in Known
  PROVE  Silent
<1>1. Knows(s, Known, Issued)
  BY DEF Knows, Endings, Ops, ByToken
<1> QED
  BY <1>1 DEF Silent, NewCall

LEMMA RegisterLoadShape ==
  ASSUME Typed, NEW c \in Calls, NEW e \in Emails, RegisterLoad(c, e)
  PROVE  Silent
<1> DEFINE s == [IdleCall EXCEPT !.pc = "commit", !.op = "register", !.email = e]
<1>1. s \in CallState
  BY IdleFields DEF CallState, Ops
<1>2. s.pc = "commit" /\ s.op = "register" /\ s.user = None /\ s.token = NoSecret
  BY IdleFields DEF CallState
<1>3. s.found = {} /\ s.standing = "good"
  BY IdleFields DEF CallState
<1>4. secrets' = secrets /\ call' = [call EXCEPT ![c] = s]
  BY DEF RegisterLoad, Begins
<1> HIDE DEF s
<1> QED
  BY <1>1, <1>2, <1>3, <1>4, LoadShape

LEMMA LoginLoadShape ==
  ASSUME Typed, NEW c \in Calls, NEW u \in Ids, LoginLoad(c, u)
  PROVE  Silent
<1> DEFINE s == [IdleCall EXCEPT !.pc = "commit", !.op = "login", !.user = u]
<1>1. s \in CallState
  BY IdleFields DEF CallState, Ops
<1>2. s.pc = "commit" /\ s.op = "login" /\ s.user = u /\ s.token = NoSecret
  BY IdleFields DEF CallState
<1>3. s.found = {} /\ s.standing = "good"
  BY IdleFields DEF CallState
<1>4. secrets' = secrets /\ call' = [call EXCEPT ![c] = s] /\ u \in Known
  BY DEF LoginLoad, Begins, Known, Exists
<1> HIDE DEF s
<1> QED
  BY <1>1, <1>2, <1>3, <1>4, LoadShape

LEMMA OAuthCheckShape ==
  ASSUME Typed, NEW c \in Calls, NEW i \in Identities, OAuthCheck(c, i)
  PROVE  Silent
<1> DEFINE s == [IdleCall EXCEPT !.pc = "exchange", !.op = "oauth", !.identity = i]
<1>1. s \in CallState
  BY IdleFields DEF CallState, Ops
<1>2. s.pc = "exchange" /\ s.op = "oauth" /\ s.identity = i /\ s.user = None
  BY IdleFields DEF CallState
<1>3. s.found = {} /\ s.standing = "good" /\ s.token = NoSecret
  BY IdleFields DEF CallState
<1>4. secrets' = secrets /\ call' = [call EXCEPT ![c] = s]
  BY DEF OAuthCheck, Begins
<1> HIDE DEF s
<1> QED
  BY <1>1, <1>2, <1>3, <1>4, LoadShape

LEMMA AdminLoadShape ==
  ASSUME Typed, NEW c \in Calls, NEW u \in Ids, NEW op \in {"suspend", "reinstate"},
         AdminLoad(c, u, op)
  PROVE  Silent
<1> DEFINE pc == IF op = "suspend" THEN "find" ELSE "commit"
           seen == users[u].status
           s == [IdleCall EXCEPT !.pc = pc, !.op = op, !.user = u, !.seen = seen]
<1>1. seen \in Status /\ pc \in {"find", "commit"}
  BY DEF Typed, TypeOK, User
<1>2. (pc = "find" /\ op = "suspend") \/ (pc = "commit" /\ op = "reinstate")
  <2>1. CASE op = "suspend"
    BY <2>1
  <2>2. CASE op = "reinstate"
    BY <2>2
  <2> QED
    BY <2>1, <2>2
<1>3. call' = [call EXCEPT ![c] = s]
  BY DEF AdminLoad, Begins
<1> HIDE DEF pc, seen
<1>4. s \in CallState
  BY <1>1, IdleFields DEF CallState, Ops
<1>5. s.pc = pc /\ s.op = op /\ s.user = u /\ s.token = NoSecret
  BY IdleFields DEF CallState
<1>6. s.found = {} /\ s.standing = "good"
  BY IdleFields DEF CallState
<1>7. secrets' = secrets /\ u \in Known
  BY DEF AdminLoad, Known
<1> HIDE DEF s
<1> QED
  BY <1>2, <1>3, <1>4, <1>5, <1>6, <1>7, LoadShape

LEMMA CloseLoadShape ==
  ASSUME Typed, NEW c \in Calls, NEW u \in Ids, CloseLoad(c, u)
  PROVE  Silent
<1> DEFINE s == [IdleCall EXCEPT !.pc = "find", !.op = "close", !.user = u, !.seen = "active"]
<1>1. s \in CallState
  BY IdleFields DEF CallState, Ops, Status
<1>2. s.pc = "find" /\ s.op = "close" /\ s.user = u /\ s.token = NoSecret
  BY IdleFields DEF CallState
<1>3. s.found = {} /\ s.standing = "good"
  BY IdleFields DEF CallState
<1>4. secrets' = secrets /\ call' = [call EXCEPT ![c] = s] /\ u \in Known
  BY DEF CloseLoad, Begins, Known, Exists
<1> HIDE DEF s
<1> QED
  BY <1>1, <1>2, <1>3, <1>4, LoadShape

LEMMA FindSessionsShape ==
  ASSUME Typed, NEW c \in Calls, FindSessions(c)
  PROVE  Silent
<1> DEFINE found == {t \in SessionsOf(call[c].user) : Live(t)}
           s == [call[c] EXCEPT !.pc = "commit", !.found = found]
<1>1. call[c] \in CallState /\ Knows(call[c], Known, Issued) /\ call[c].pc = "find"
  BY DEF Typed, TypeOK, CallsKnow, FindSessions
<1>2. found \subseteq Issued /\ found \subseteq SecretNo
  <2>1. found \subseteq Issued
    BY DEF SessionsOf
  <2>2. Issued = 1..Len(secrets) /\ Len(secrets) \in Nat /\ Len(secrets) <= MaxSecrets
    BY IssuedFact DEF Typed, TypeOK, Issued
  <2> QED
    BY <2>1, <2>2, AccountAssumption DEF SecretNo
<1>3. secrets' = secrets /\ call' = [call EXCEPT ![c] = s]
  BY DEF FindSessions, Goes
<1> HIDE DEF found
<1>4. s \in CallState
  BY <1>1, <1>2 DEF CallState
<1>5. s.pc = "commit" /\ s.op = call[c].op /\ s.user = call[c].user
  BY <1>1 DEF CallState
<1>6. s.token = call[c].token /\ s.found = found /\ s.standing = call[c].standing
  BY <1>1 DEF CallState
<1> HIDE DEF s
<1>7. Knows(s, Known, Issued)
  BY <1>1, <1>2, <1>5, <1>6 DEF Knows, Endings
<1> QED
  BY <1>3, <1>4, <1>6, <1>7 DEF Silent, NewCall

LEMMA ProvisionedFact ==
  ASSUME Typed, NEW i \in Identities
  PROVE  Provisioned(i) = None \/ Provisioned(i) \in Known
<1>1. CASE linked[i] # None
  BY <1>1 DEF Provisioned, Typed, LinkedKnown
<1>2. CASE linked[i] = None /\ HasEmail(IdentityEmail[i])
  <2> DEFINE E(u) == Exists(u) /\ users[u].email = IdentityEmail[i]
  <2>1. \E u \in Ids : E(u)
    BY <1>2 DEF HasEmail
  <2>2. (CHOOSE u \in Ids : E(u)) \in Ids /\ E(CHOOSE u \in Ids : E(u))
    BY <2>1
  <2>3. Provisioned(i) = CHOOSE u \in Ids : E(u)
    BY <1>2 DEF Provisioned
  <2> QED
    BY <2>2, <2>3 DEF Known
<1>3. CASE linked[i] = None /\ ~HasEmail(IdentityEmail[i])
  BY <1>3 DEF Provisioned
<1> QED
  BY <1>1, <1>2, <1>3

LEMMA OAuthExchangeShape ==
  ASSUME Typed, NEW c \in Calls, OAuthExchange(c)
  PROVE  Silent
<1> DEFINE i == call[c].identity
           u == Provisioned(i)
           s == [call[c] EXCEPT !.pc = "commit", !.user = u]
<1>1. call[c] \in CallState /\ Knows(call[c], Known, Issued) /\ call[c].pc = "exchange"
  BY DEF Typed, TypeOK, CallsKnow, OAuthExchange
<1>2. call[c].op = "oauth" /\ i \in Identities
  BY <1>1 DEF Knows
<1>3. /\ secrets' = secrets
      /\ call' = [call EXCEPT ![c] = IdleCall] \/ call' = [call EXCEPT ![c] = s]
  BY DEF OAuthExchange, Ends, Goes
<1>4. u = None \/ u \in Known
  BY <1>2, ProvisionedFact
<1>5. u \in Ids \cup {None}
  BY <1>4 DEF Known
<1> HIDE DEF u
<1>6. s \in CallState
  BY <1>1, <1>5 DEF CallState
<1>7. s.pc = "commit" /\ s.op = "oauth" /\ s.user = u
  BY <1>1, <1>2 DEF CallState
<1>8. s.token = call[c].token /\ s.found = call[c].found /\ s.standing = call[c].standing
  BY <1>1 DEF CallState
<1>9. s.identity = i
  BY <1>1 DEF CallState
<1> HIDE DEF s, i
<1>10. Knows(s, Known, Issued)
  BY <1>1, <1>2, <1>4, <1>7, <1>8, <1>9 DEF Knows, ByToken
<1>11. CASE call' = [call EXCEPT ![c] = s]
  BY <1>3, <1>6, <1>8, <1>10, <1>11 DEF Silent, NewCall
<1> QED
  BY <1>3, <1>11, EndsSilently

LEMMA ForkedFact ==
  ASSUME NEW q \in Secret, NEW h \in BOOLEAN
  PROVE  LET r == [q EXCEPT !.forked = h]
         IN  /\ r \in Secret /\ SameOwner(r, q) /\ r.uses = q.uses /\ r.forked = h
             /\ r.spent = q.spent /\ r.standing = q.standing
<1> DEFINE r == [q EXCEPT !.forked = h]
<1>1. r \in Secret
  BY DEF Secret
<1>2. SameOwner(r, q) /\ r.uses = q.uses /\ r.standing = q.standing
  BY DEF Secret, SameOwner
<1>3. r.forked = h
  BY DEF Secret
<1>4. r.spent = q.spent
  BY DEF Secret
<1> QED
  BY <1>1, <1>2, <1>3, <1>4

LEMMA ReadShape ==
  ASSUME Typed, NEW c \in Calls, NEW t \in Issued, Live(t), NEW state \in CallState,
         Reads(c, t, state),
         state.found = {}, state.op \in ByToken,
         \/ state.pc = "commit" /\ state.op # "reset"
         \/ state.pc = "find" /\ state.op = "reset",
         \/ state.standing = "good"
         \/ state.standing = secrets[t].standing /\ secrets[t].kind = "session"
  PROVE  Reading(c, t)
<1> DEFINE h == secrets[t].forked \/ Held(c, t)
           r == [secrets[t] EXCEPT !.forked = h]
           u == secrets[t].user
           s == [state EXCEPT !.token = t, !.user = u]
<1>1. secrets' = [secrets EXCEPT ![t] = r] /\ call' = [call EXCEPT ![c] = s]
  BY DEF Reads, Begins
<1>2. secrets[t] \in Secret /\ t \in SecretNo /\ u \in Known
  <2>1. Issued = 1..Len(secrets) /\ Len(secrets) \in Nat /\ Len(secrets) <= MaxSecrets
        /\ secrets[t] \in Secret
    BY IssuedFact DEF Typed, TypeOK, Issued
  <2>2. secrets[t].user \in Ids /\ Exists(secrets[t].user)
    BY <2>1 DEF Typed, TypeOK, Secret
  <2> QED
    BY <2>1, <2>2, AccountAssumption DEF SecretNo, Known
<1>3. (h <=> secrets[t].forked \/ Held(c, t)) /\ h \in BOOLEAN
  OBVIOUS
<1> HIDE DEF h
<1>4. /\ r \in Secret /\ SameOwner(r, secrets[t]) /\ r.uses = secrets[t].uses
      /\ r.forked = h
      /\ r.spent = secrets[t].spent /\ r.standing = secrets[t].standing
  BY <1>2, <1>3, ForkedFact
<1>5. r.forked <=> secrets[t].forked \/ Held(c, t)
  BY <1>3, <1>4
<1>6. s \in CallState
  <2>1. u \in Ids /\ t \in 0..MaxSecrets
    BY <1>2, AccountAssumption DEF Known, SecretNo
  <2> HIDE DEF u
  <2> QED
    BY <2>1 DEF CallState
<1>7. s.pc = state.pc /\ s.op = state.op /\ s.user = u /\ s.token = t
  BY DEF CallState
<1>8. s.found = {} /\ s.standing = state.standing
  BY DEF CallState
<1> HIDE DEF r, s
<1>9. Knows(s, Known, Issued)
  BY <1>2, <1>7, <1>8 DEF Knows, ByToken, Endings, Ops
<1>10. \E q \in CallState : /\ NewCall(c, q) /\ q.token = t
                            /\ \/ q.standing = "good"
                               \/ q.standing = secrets[t].standing /\ secrets[t].kind = "session"
  BY <1>1, <1>6, <1>7, <1>8, <1>9 DEF NewCall
<1> QED
  BY <1>1, <1>4, <1>5, <1>10 DEF Reading

LEMMA VerifyLoadShape ==
  ASSUME Typed, NEW c \in Calls, NEW t \in Issued, VerifyLoad(c, t)
  PROVE  Reading(c, t)
<1> DEFINE s == [IdleCall EXCEPT !.pc = "commit", !.op = "verify"]
<1>1. s \in CallState
  BY IdleFields DEF CallState, Ops
<1>2. s.pc = "commit" /\ s.op = "verify" /\ s.found = {} /\ s.standing = "good"
  BY IdleFields DEF CallState
<1>3. Live(t) /\ Reads(c, t, s)
  BY DEF VerifyLoad
<1> HIDE DEF s
<1> QED
  BY <1>1, <1>2, <1>3, ReadShape DEF ByToken

LEMMA ResetLoadShape ==
  ASSUME Typed, NEW c \in Calls, NEW t \in Issued, ResetLoad(c, t)
  PROVE  Reading(c, t)
<1> DEFINE s == [IdleCall EXCEPT !.pc = "find", !.op = "reset"]
<1>1. s \in CallState
  BY IdleFields DEF CallState, Ops
<1>2. s.pc = "find" /\ s.op = "reset" /\ s.found = {} /\ s.standing = "good"
  BY IdleFields DEF CallState
<1>3. Live(t) /\ Reads(c, t, s)
  BY DEF ResetLoad
<1> HIDE DEF s
<1> QED
  BY <1>1, <1>2, <1>3, ReadShape DEF ByToken

LEMMA RefreshLoadShape ==
  ASSUME Typed, NEW c \in Calls, NEW t \in Issued, RefreshLoad(c, t)
  PROVE  Reading(c, t)
<1> DEFINE st == secrets[t].standing
           s == [IdleCall EXCEPT !.pc = "commit", !.op = "refresh", !.standing = st]
<1>1. st \in Standing
  BY IssuedFact DEF Typed, TypeOK, Issued, Secret
<1>2. Live(t) /\ secrets[t].kind = "session" /\ Reads(c, t, s)
  BY DEF RefreshLoad
<1>3. st = secrets[t].standing
  OBVIOUS
<1> HIDE DEF st
<1>4. s \in CallState
  BY <1>1, IdleFields DEF CallState, Ops
<1>5. s.pc = "commit" /\ s.op = "refresh" /\ s.found = {} /\ s.standing = st
  BY IdleFields DEF CallState
<1> HIDE DEF s
<1> QED
  BY <1>2, <1>3, <1>4, <1>5, ReadShape DEF ByToken

LEMMA LogoutShape ==
  ASSUME Typed, NEW t \in Issued, Logout(t)
  PROVE  Dropping(t)
<1> DEFINE r == [secrets[t] EXCEPT !.spent = TRUE]
<1>1. secrets[t] \in Secret
  BY IssuedFact DEF Typed, TypeOK, Issued
<1>2. secrets' = [secrets EXCEPT ![t] = r] /\ call' = call
  BY DEF Logout
<1>3. /\ r \in Secret /\ SameOwner(r, secrets[t]) /\ r.uses = secrets[t].uses
      /\ r.forked = secrets[t].forked /\ r.standing = secrets[t].standing
  BY <1>1 DEF Secret, SameOwner
<1>4. r.spent = TRUE
  BY <1>1 DEF Secret
<1> HIDE DEF r
<1> QED
  BY <1>2, <1>3, <1>4 DEF Dropping

LEMMA IssueShape ==
  ASSUME Typed, NEW kind \in SecretKind, NEW u \in Known', NEW standing \in Standing,
         Room, secrets' = WithSecret(secrets, kind, u, NoSecret, standing),
         standing = "good" \/ \E c \in Calls : standing = call[c].standing,
         Quiet
  PROVE  Shape
<1>1. u \in Ids
  BY DEF Known
<1> QED
  BY <1>1 DEF Shape, Issuing

LEMMA RegisterStepShape ==
  ASSUME Typed, [Next]_vars, NEW c \in Calls, RegisterStep(c)
  PROVE  Shape
<1>1. ASSUME NEW u \in Ids, RegisterCommit(c, u) PROVE Shape
  <2>1. users' \in [Ids -> User] /\ users'[u].status # "none"
    <3>1. users' = [users EXCEPT ![u] = Registered(call[c].email, FALSE, TRUE)]
      BY <1>1 DEF RegisterCommit
    <3>2. call[c].email \in Emails \cup {None}
      BY DEF Typed, TypeOK, CallState
    <3> QED
      BY <3>1, <3>2, UsersNext, UsersStay, RegisteredFact DEF Typed, TypeOK
  <2>2. u \in Known'
    BY <2>1 DEF Known, Exists
  <2>3. /\ Room /\ secrets' = WithSecret(secrets, "verify", u, NoSecret, "good")
        /\ call' = [call EXCEPT ![c] = IdleCall]
    BY <1>1 DEF RegisterCommit, Ends, Goes
  <2>4. Quiet
    BY <2>3, EndsFact DEF Quiet
  <2> QED
    BY <2>2, <2>3, <2>4, IssueShape DEF SecretKind, Standing
<1>2. ASSUME VerifyCommit(c) PROVE Shape
  <2>1. call[c].token \in Issued
    BY <1>2, CallKnows DEF VerifyCommit, Commits, ByToken
  <2>2. secrets' = Exchanged(secrets, call[c].token) /\ call' = [call EXCEPT ![c] = IdleCall]
    BY <1>2 DEF VerifyCommit, Ends, Goes
  <2> QED
    BY <2>1, <2>2, EndsFact DEF Shape, Spending
<1> QED
  BY <1>1, <1>2, RegisterLoadShape, VerifyLoadShape DEF RegisterStep, Shape

LEMMA SessionStepShape ==
  ASSUME Typed, [Next]_vars, NEW c \in Calls, SessionStep(c)
  PROVE  Shape
<1>0. Known \subseteq Known' /\ call[c].standing \in Standing
  BY UsersNext, UsersStay DEF Typed, TypeOK, CallState
<1>1. ASSUME LoginCommit(c) PROVE Shape
  <2>1. call[c].user \in Known
    BY <1>1, CallKnows DEF LoginCommit, Commits, Known
  <2>2. /\ Room /\ secrets' = WithSecret(secrets, "session", call[c].user, NoSecret, call[c].standing)
        /\ call' = [call EXCEPT ![c] = IdleCall]
    BY <1>1 DEF LoginCommit, Ends, Goes
  <2>3. Quiet
    BY <2>2, EndsFact DEF Quiet
  <2> QED
    BY <1>0, <2>1, <2>2, <2>3, IssueShape DEF SecretKind
<1>2. ASSUME RefreshCommit(c) PROVE Shape
  <2>1. call[c].token \in Issued /\ call[c].user \in Known
    BY <1>2, CallKnows DEF RefreshCommit, Commits, ByToken, Known
  <2>2. /\ Room /\ call' = [call EXCEPT ![c] = IdleCall]
        /\ secrets' = WithSecret(Exchanged(secrets, call[c].token), "session", call[c].user,
                                 secrets[call[c].token].family, call[c].standing)
    BY <1>2 DEF RefreshCommit, Ends, Goes
  <2> QED
    BY <2>1, <2>2, EndsFact DEF Shape, Rotating
<1> QED
  BY <1>1, <1>2, LoginLoadShape, RefreshLoadShape DEF SessionStep, Shape

LEMMA OAuthStepShape ==
  ASSUME Typed, [Next]_vars, NEW c \in Calls, OAuthStep(c)
  PROVE  Shape
<1>0. /\ Known \subseteq Known' /\ call[c].standing \in Standing
      /\ users \in [Ids -> User]
  BY UsersNext, UsersStay DEF Typed, TypeOK, CallState
<1>1. ASSUME NEW u \in Ids, OAuthCommit(c, u) PROVE Shape
  <2>1. u \in Known'
    <3>1. CASE call[c].user = None
      <4> DEFINE e == IdentityEmail[call[c].identity]
      <4>1. call[c].identity \in Identities
        BY <1>1, CallKnows DEF OAuthCommit, Commits
      <4>2. e \in Emails
        BY <4>1, AccountAssumption
      <4>3. users' = [users EXCEPT ![u] = Registered(e, TRUE, FALSE)]
        BY <1>1, <3>1 DEF OAuthCommit
      <4> HIDE DEF e
      <4>4. users'[u].status # "none"
        BY <1>0, <4>2, <4>3, RegisteredFact
      <4> QED
        BY <4>4 DEF Known, Exists
    <3>2. CASE call[c].user # None
      <4>1. u = call[c].user
        BY <1>1, <3>2 DEF OAuthCommit
      <4>2. u \in Known
        BY <3>2, <4>1 DEF Typed, CallsKnow, Knows
      <4> QED
        BY <1>0, <4>2
    <3> QED
      BY <3>1, <3>2
  <2>2. /\ Room /\ secrets' = WithSecret(secrets, "session", u, NoSecret, call[c].standing)
        /\ call' = [call EXCEPT ![c] = IdleCall]
    BY <1>1 DEF OAuthCommit, Ends, Goes
  <2>3. Quiet
    BY <2>2, EndsFact DEF Quiet
  <2> QED
    BY <1>0, <2>1, <2>2, <2>3, IssueShape DEF SecretKind
<1>2. ASSUME OAuthRefused(c) PROVE Silent
  BY <1>2, EndsSilently DEF OAuthRefused, Ends, Goes
<1> QED
  BY <1>1, <1>2, OAuthCheckShape, OAuthExchangeShape DEF OAuthStep, Shape

LEMMA EndStepShape ==
  ASSUME Typed, [Next]_vars, NEW c \in Calls, EndStep(c)
  PROVE  Shape
<1>1. ASSUME EndCommit(c) PROVE Ending(c)
  <2>1. call[c].pc # "idle"
    BY <1>1 DEF EndCommit
  <2>2. call[c].op = "reset" => call[c].token \in Issued
    BY <2>1, CallKnows DEF ByToken
  <2> QED
    BY <1>1, <2>2 DEF EndCommit, Ending
<1>2. ASSUME ReinstateCommit(c) PROVE Silent
  BY <1>2, EndsSilently DEF ReinstateCommit, Ends, Goes
<1> QED
  BY <1>1, <1>2, ResetLoadShape, AdminLoadShape, CloseLoadShape, FindSessionsShape
     DEF EndStep, Shape

\* Every step has one of the shapes.
LEMMA ShapeNext ==
  ASSUME Typed, [Next]_vars
  PROVE  Shape
<1>0. Known \subseteq Known'
  BY UsersNext, UsersStay
<1>1. ASSUME NEW c \in Calls, CallFails(c) PROVE Silent
  BY <1>1, EndsSilently DEF CallFails, Ends, Goes
<1>2. ASSUME NEW u \in Ids, GuestSession(u) PROVE Shape
  <2>1. users' = [users EXCEPT ![u] = Registered(None, TRUE, TRUE)]
    BY <1>2 DEF GuestSession
  <2>2. users'[u].status # "none"
    BY <2>1, RegisteredFact DEF Typed, TypeOK
  <2>3. u \in Known'
    BY <2>2 DEF Known, Exists
  <2>4. Room /\ secrets' = WithSecret(secrets, "session", u, NoSecret, "good") /\ Quiet
    BY <1>2 DEF GuestSession, Quiet
  <2> QED
    BY <2>3, <2>4, IssueShape DEF SecretKind, Standing
<1>3. ASSUME NEW u \in Ids, ForgotPassword(u) PROVE Shape
  <2>1. u \in Known
    BY <1>3 DEF ForgotPassword, Known
  <2>2. Room /\ secrets' = WithSecret(secrets, "reset", u, NoSecret, "good") /\ Quiet
    BY <1>3 DEF ForgotPassword, Quiet
  <2> QED
    BY <1>0, <2>1, <2>2, IssueShape DEF SecretKind, Standing
<1>4. ASSUME NEW u \in Ids, Scrub(u) PROVE Silent
  BY <1>4 DEF Scrub, Silent
<1>5. ASSUME NEW i \in Identities, OAuthStart(i) PROVE Silent
  BY <1>5 DEF OAuthStart, Silent
<1>6. CASE UNCHANGED vars
  BY <1>6 DEF vars, Shape, Silent
<1> QED
  BY <1>1, <1>2, <1>3, <1>4, <1>5, <1>6, RegisterStepShape, SessionStepShape, OAuthStepShape,
     EndStepShape, LogoutShape DEF Next, Shape

\* The tokens there are, and those there are after a step.
RowsKeep ==
    /\ secrets' \in Seq(Secret) /\ Len(secrets') <= MaxSecrets
    /\ Issued \subseteq Issued'
    /\ \A t \in Issued' : secrets'[t].user \in Known' /\ secrets'[t].family <= t

LEMMA RowsTyped ==
  ASSUME Typed
  PROVE  /\ secrets \in Seq(Secret) /\ Len(secrets) <= MaxSecrets /\ Len(secrets) \in Nat
         /\ Issued = 1..Len(secrets) /\ Issued \subseteq SecretNo
         /\ \A t \in Issued : /\ t \in Nat \ {0} /\ secrets[t] \in Secret
                              /\ secrets[t].user \in Known /\ secrets[t].family <= t
<1>1. secrets \in Seq(Secret) /\ Len(secrets) <= MaxSecrets
  BY DEF Typed, TypeOK
<1>2. /\ Issued = 1..Len(secrets) /\ Len(secrets) \in Nat
      /\ \A t \in Issued : t \in Nat \ {0} /\ secrets[t] \in Secret
  BY <1>1, IssuedFact DEF Issued, NoSecret
<1>3. Issued \subseteq SecretNo
  BY <1>1, <1>2, AccountAssumption DEF SecretNo
<1>4. ASSUME NEW t \in Issued PROVE secrets[t].user \in Known /\ secrets[t].family <= t
  <2>1. secrets[t].user \in Ids
    BY <1>2 DEF Secret
  <2>2. Exists(secrets[t].user) /\ secrets[t].family <= t
    BY DEF Typed, TypeOK
  <2> QED
    BY <2>1, <2>2 DEF Known
<1> QED
  BY <1>1, <1>2, <1>3, <1>4

\* Rows that change and stay where they are.
LEMMA SameRows ==
  ASSUME Typed, Known \subseteq Known', secrets' \in Seq(Secret), Len(secrets') = Len(secrets),
         \A t \in Issued : SameOwner(secrets'[t], secrets[t])
  PROVE  RowsKeep /\ Issued' = Issued
<1>1. Issued' = Issued
  BY RowsTyped, IssuedFact DEF Issued
<1> QED
  BY <1>1, RowsTyped DEF RowsKeep, SameOwner

LEMMA ReadingRows ==
  ASSUME Typed, NEW t \in Issued, NEW r \in Secret, secrets' = [secrets EXCEPT ![t] = r]
  PROVE  /\ secrets' \in Seq(Secret) /\ Len(secrets') = Len(secrets) /\ Issued' = Issued
         /\ secrets'[t] = r /\ \A s \in Issued \ {t} : secrets'[s] = secrets[s]
  BY RowsTyped, RowChangeFact DEF Issued

LEMMA SpendingRows ==
  ASSUME Typed, NEW c \in Calls, Spending(c)
  PROVE  LET t == call[c].token
         IN  /\ secrets' \in Seq(Secret) /\ Len(secrets') = Len(secrets) /\ Issued' = Issued
             /\ t \in Issued /\ \A s \in Issued \ {t} : secrets'[s] = secrets[s]
             /\ SameOwner(secrets'[t], secrets[t]) /\ secrets'[t].spent
             /\ secrets'[t].uses = secrets[t].uses + 1
             /\ secrets'[t].forked = secrets[t].forked
             /\ secrets'[t].standing = secrets[t].standing
  BY RowsTyped, ExchangedFact DEF Issued, Spending

LEMMA IssuingRows ==
  ASSUME Typed, NEW kind \in SecretKind, NEW u \in Ids, NEW standing \in Standing,
         Issuing(kind, u, standing)
  PROVE  LET n == Len(secrets) + 1
         IN  /\ secrets' \in Seq(Secret) /\ Len(secrets') = n /\ n \notin Issued
             /\ Issued' = Issued \cup {n}
             /\ \A s \in Issued : secrets'[s] = secrets[s]
             /\ secrets'[n] = NewSecret(n, kind, u, NoSecret, standing)
<1>1. secrets \in Seq(Secret) /\ Len(secrets) < MaxSecrets /\ DOMAIN secrets = Issued
  BY RowsTyped DEF Issuing, Room, Issued
<1>2. NoSecret \in SecretNo \cup {NoSecret}
  OBVIOUS
<1>3. secrets' = WithSecret(secrets, kind, u, NoSecret, standing)
  BY DEF Issuing
<1>4. HasIssued(secrets', secrets, kind, u, NoSecret, standing)
  BY <1>1, <1>2, <1>3, WithSecretFact
<1> QED
  BY <1>1, <1>4 DEF HasIssued, Issued

LEMMA RotatingRows ==
  ASSUME Typed, NEW c \in Calls, Rotating(c)
  PROVE  LET t == call[c].token
             n == Len(secrets) + 1
         IN  /\ secrets' \in Seq(Secret) /\ Len(secrets') = n /\ n \notin Issued
             /\ Issued' = Issued \cup {n}
             /\ t \in Issued /\ \A s \in Issued \ {t} : secrets'[s] = secrets[s]
             /\ SameOwner(secrets'[t], secrets[t]) /\ secrets'[t].spent
             /\ secrets'[t].uses = secrets[t].uses + 1
             /\ secrets'[t].forked = secrets[t].forked
             /\ secrets'[t].standing = secrets[t].standing
             /\ secrets'[n] = NewSecret(n, "session", call[c].user, secrets[t].family,
                                        call[c].standing)
<1> DEFINE t == call[c].token
           rows == Exchanged(secrets, t)
           f == secrets[t].family
           st == call[c].standing
           u == call[c].user
<1>1. t \in Issued /\ u \in Ids /\ st \in Standing
  BY DEF Rotating, Known, Typed, TypeOK, CallState
<1>2. f \in SecretNo \cup {NoSecret}
  BY <1>1, RowsTyped DEF Secret
<1>3. /\ rows \in Seq(Secret) /\ DOMAIN rows = Issued /\ Len(rows) = Len(secrets)
      /\ \A s \in Issued \ {t} : rows[s] = secrets[s]
      /\ SameOwner(rows[t], secrets[t]) /\ rows[t].spent = TRUE
      /\ rows[t].uses = secrets[t].uses + 1
      /\ rows[t].forked = secrets[t].forked /\ rows[t].standing = secrets[t].standing
  BY <1>1, RowsTyped, ExchangedFact DEF Issued
<1>4. Len(secrets) < MaxSecrets /\ secrets' = WithSecret(rows, "session", u, f, st)
  BY DEF Rotating, Room
<1> HIDE DEF t, rows, f, st, u
<1>5. "session" \in SecretKind
  BY DEF SecretKind
<1>6. HasIssued(secrets', rows, "session", u, f, st)
  BY <1>1, <1>2, <1>3, <1>4, <1>5, WithSecretFact
<1> QED
  BY <1>1, <1>3, <1>6 DEF HasIssued, Issued, t, f, st, u

LEMMA EndingRows ==
  ASSUME Typed, NEW c \in Calls, Ending(c)
  PROVE  LET e == call[c].token
         IN  /\ secrets' \in Seq(Secret) /\ Len(secrets') = Len(secrets) /\ Issued' = Issued
             /\ call[c].op = "reset" => e \in Issued
             /\ \A t \in Issued :
                  /\ SameOwner(secrets'[t], secrets[t])
                  /\ secrets'[t].forked = secrets[t].forked
                  /\ secrets[t].spent => secrets'[t].spent
                  /\ IF call[c].op = "reset" /\ t = e
                     THEN secrets'[t].uses = secrets[t].uses + 1 /\ secrets'[t].spent
                     ELSE secrets'[t].uses = secrets[t].uses
                  /\ secrets[t].kind = "session" /\ secrets'[t].standing = "ended" =>
                       secrets'[t].spent \/ secrets[t].standing = "ended"
<1> DEFINE e == call[c].token
           rows == IF call[c].op = "reset" THEN Exchanged(secrets, e) ELSE secrets
<1>1. /\ call[c].op = "reset" => e \in Issued
      /\ secrets' = SessionsEnded(rows, call[c].user, call[c].found)
  BY DEF Ending
<1>2. /\ rows \in Seq(Secret) /\ DOMAIN rows = Issued /\ Len(rows) = Len(secrets)
      /\ \A t \in Issued :
           /\ SameOwner(rows[t], secrets[t])
           /\ rows[t].forked = secrets[t].forked /\ rows[t].standing = secrets[t].standing
           /\ secrets[t].spent => rows[t].spent
           /\ IF call[c].op = "reset" /\ t = e
              THEN rows[t].uses = secrets[t].uses + 1 /\ rows[t].spent
              ELSE rows[t].uses = secrets[t].uses
  <2>1. CASE call[c].op = "reset"
    <3>1. e \in DOMAIN secrets
      BY <1>1, <2>1 DEF Issued
    <3>2. rows = Exchanged(secrets, e)
      BY <2>1
    <3> HIDE DEF e, rows
    <3>3. /\ rows \in Seq(Secret) /\ DOMAIN rows = DOMAIN secrets /\ Len(rows) = Len(secrets)
          /\ \A s \in DOMAIN secrets \ {e} : rows[s] = secrets[s]
          /\ SameOwner(rows[e], secrets[e]) /\ rows[e].spent
          /\ rows[e].uses = secrets[e].uses + 1
          /\ rows[e].forked = secrets[e].forked /\ rows[e].standing = secrets[e].standing
      BY <3>1, <3>2, RowsTyped, ExchangedFact
    <3> QED
      BY <2>1, <3>3 DEF Issued, SameOwner
  <2>2. CASE call[c].op # "reset"
    BY <2>2, RowsTyped DEF Issued, SameOwner
  <2> QED
    BY <2>1, <2>2
<1> HIDE DEF e, rows
<1>3. /\ secrets' \in Seq(Secret) /\ DOMAIN secrets' = Issued /\ Len(secrets') = Len(secrets)
      /\ \A t \in Issued :
           /\ SameOwner(secrets'[t], rows[t])
           /\ secrets'[t].uses = rows[t].uses /\ secrets'[t].forked = rows[t].forked
           /\ rows[t].spent => secrets'[t].spent
           /\ rows[t].kind = "session" /\ secrets'[t].standing = "ended" =>
                secrets'[t].spent \/ rows[t].standing = "ended"
  BY <1>1, <1>2, SessionsEndedFact
<1> QED
  BY <1>1, <1>2, <1>3 DEF Issued, SameOwner, e

CallsKeep == call' \in [Calls -> CallState] /\ CallsKnow'

LEMMA CallsStay ==
  ASSUME Typed, Known \subseteq Known', Issued \subseteq Issued',
         call' = call \/ \E c \in Calls, s \in CallState : NewCall(c, s)
  PROVE  CallsKeep
<1>1. /\ call \in [Calls -> CallState]
      /\ \A c \in Calls : Knows(call[c], Known, Issued)
  BY DEF Typed, TypeOK, CallsKnow
<1>2. CASE call' = call
  <2>1. \A c \in Calls : Knows(call[c], Known', Issued')
    BY <1>1, KnowsMore
  <2> QED
    BY <1>1, <1>2, <2>1 DEF CallsKeep, CallsKnow
<1>3. ASSUME NEW c \in Calls, NEW s \in CallState, NewCall(c, s) PROVE CallsKeep
  <2>1. /\ call' \in [Calls -> CallState]
        /\ \A d \in Calls : Knows(call'[d], Known, Issued)
    BY <1>1, <1>3 DEF NewCall
  <2>2. \A d \in Calls : Knows(call'[d], Known', Issued')
    BY <2>1, KnowsMore
  <2> QED
    BY <2>1, <2>2 DEF CallsKeep, CallsKnow
<1> QED
  BY <1>2, <1>3

\* What an ending leaves of the calls.
LEMMA OvertakenFact ==
  ASSUME Typed, NEW c \in Calls, NEW u, Overtaken(c, u)
  PROVE  /\ DOMAIN call' = Calls /\ call' = [d \in Calls |-> call'[d]] /\ call'[c] = IdleCall
         /\ \A d \in Calls :
              /\ call'[d] \in CallState /\ Knows(call'[d], Known, Issued)
              /\ call'[d].token \in {NoSecret, call[d].token}
              /\ call'[d].standing \in {"good", "raced", call[d].standing}
<1>1. call' = [d \in Calls |->
                 IF d = c THEN IdleCall
                 ELSE IF call[d].user = u /\ call[d].op \in {"login", "refresh", "oauth"}
                 THEN [call[d] EXCEPT !.standing = "raced"] ELSE call[d]]
  BY DEF Overtaken
<1>2. ASSUME NEW d \in Calls
      PROVE  /\ call'[d] \in CallState /\ Knows(call'[d], Known, Issued)
             /\ call'[d].token \in {NoSecret, call[d].token}
             /\ call'[d].standing \in {"good", "raced", call[d].standing}
  <2> DEFINE s == [call[d] EXCEPT !.standing = "raced"]
  <2>1. call[d] \in CallState /\ Knows(call[d], Known, Issued)
    BY DEF Typed, TypeOK, CallsKnow
  <2>2. s \in CallState
    BY <2>1 DEF CallState, Standing
  <2>3. s.pc = call[d].pc /\ s.op = call[d].op /\ s.user = call[d].user /\ s.token = call[d].token
    BY <2>1 DEF CallState
  <2>4. s.found = call[d].found /\ s.identity = call[d].identity /\ s.standing = "raced"
    BY <2>1 DEF CallState
  <2>5. call'[d] \in {IdleCall, s, call[d]}
    BY <1>1
  <2> HIDE DEF s
  <2>6. Knows(s, Known, Issued)
    BY <2>1, <2>3, <2>4 DEF Knows
  <2>7. Knows(IdleCall, Known, Issued)
    BY IdleFact
  <2>8. CASE call'[d] = IdleCall
    BY <2>7, <2>8, IdleFields
  <2>9. CASE call'[d] = s
    BY <2>2, <2>3, <2>4, <2>6, <2>9
  <2>10. CASE call'[d] = call[d]
    BY <2>1, <2>10
  <2> QED
    BY <2>5, <2>8, <2>9, <2>10
<1> QED
  BY <1>1, <1>2

LEMMA ShapeKeeps ==
  ASSUME Typed, Shape, Known \subseteq Known'
  PROVE  RowsKeep /\ CallsKeep
<1>0. IdleCall \in CallState
  BY IdleFields
<1>1. CASE Silent
  <2>1. RowsKeep /\ Issued' = Issued
    BY <1>1, SameRows, RowsTyped DEF Silent, SameOwner
  <2>2. call' = call \/ \E c \in Calls, s \in CallState : NewCall(c, s)
    BY <1>1 DEF Silent
  <2> QED
    BY <2>1, <2>2, CallsStay
<1>2. ASSUME NEW c \in Calls, NEW t \in Issued, Reading(c, t) PROVE RowsKeep /\ CallsKeep
  <2>1. PICK r \in Secret : secrets' = [secrets EXCEPT ![t] = r] /\ SameOwner(r, secrets[t])
    BY <1>2 DEF Reading
  <2>2. RowsKeep /\ Issued' = Issued
    BY <2>1, ReadingRows, SameRows DEF SameOwner
  <2>3. \E d \in Calls, s \in CallState : NewCall(d, s)
    BY <1>2 DEF Reading
  <2> QED
    BY <2>2, <2>3, CallsStay
<1>3. ASSUME NEW kind \in SecretKind, NEW u \in Ids, NEW standing \in Standing,
             u \in Known', Issuing(kind, u, standing)
      PROVE  RowsKeep /\ CallsKeep
  <2> DEFINE n == Len(secrets) + 1
  <2>1. /\ secrets' \in Seq(Secret) /\ Len(secrets') = n /\ Issued' = Issued \cup {n}
        /\ \A s \in Issued : secrets'[s] = secrets[s]
        /\ secrets'[n] = NewSecret(n, kind, u, NoSecret, standing)
    BY <1>3, IssuingRows
  <2>5. secrets'[n].user = u /\ secrets'[n].family = n
    BY <2>1 DEF NewSecret
  <2>2. Len(secrets) \in Nat /\ Len(secrets) < MaxSecrets /\ MaxSecrets \in Nat
    BY <1>3, RowsTyped, AccountAssumption DEF Issuing, Room
  <2>3. RowsKeep
    BY <1>3, <2>1, <2>2, <2>5, RowsTyped DEF RowsKeep
  <2>4. call' = call \/ \E d \in Calls, s \in CallState : NewCall(d, s)
    BY <1>0, <1>3 DEF Issuing, Quiet
  <2> QED
    BY <2>1, <2>3, <2>4, CallsStay
<1>4. ASSUME NEW c \in Calls, Spending(c) PROVE RowsKeep /\ CallsKeep
  <2>1. RowsKeep /\ Issued' = Issued
    BY <1>4, SpendingRows, SameRows DEF SameOwner
  <2>2. \E d \in Calls, s \in CallState : NewCall(d, s)
    BY <1>0, <1>4 DEF Spending
  <2> QED
    BY <2>1, <2>2, CallsStay
<1>5. ASSUME NEW c \in Calls, Rotating(c) PROVE RowsKeep /\ CallsKeep
  <2> DEFINE n == Len(secrets) + 1
             t == call[c].token
  <2>1. /\ secrets' \in Seq(Secret) /\ Len(secrets') = n /\ Issued' = Issued \cup {n}
        /\ t \in Issued /\ \A s \in Issued \ {t} : secrets'[s] = secrets[s]
        /\ SameOwner(secrets'[t], secrets[t])
        /\ secrets'[n] = NewSecret(n, "session", call[c].user, secrets[t].family,
                                   call[c].standing)
    BY <1>5, RotatingRows
  <2>2. secrets[t].family \in Nat \ {0} /\ secrets[t].family <= t /\ t <= Len(secrets)
    <3>1. t \in Issued /\ secrets[t] \in Secret /\ secrets[t].family <= t
      BY <2>1, RowsTyped
    <3>2. secrets[t].family \in SecretNo /\ t <= Len(secrets)
      BY <3>1, RowsTyped DEF Secret
    <3> QED
      BY <3>1, <3>2, AccountAssumption DEF SecretNo
  <2>3. secrets'[n].user = call[c].user /\ secrets'[n].family = secrets[t].family
    BY <2>1, <2>2 DEF NewSecret, NoSecret
  <2>4. /\ Len(secrets) \in Nat /\ Len(secrets) < MaxSecrets /\ MaxSecrets \in Nat
        /\ call[c].user \in Known
    BY <1>5, RowsTyped, AccountAssumption DEF Rotating, Room
  <2>5. ASSUME NEW s \in Issued PROVE secrets'[s].user \in Known' /\ secrets'[s].family <= s
    <3>1. secrets[s].user \in Known /\ secrets[s].family <= s
      BY RowsTyped
    <3>2. SameOwner(secrets'[s], secrets[s])
      BY <2>1 DEF SameOwner
    <3> QED
      BY <3>1, <3>2 DEF SameOwner
  <2>6. secrets'[n].user \in Known' /\ secrets'[n].family <= n
    BY <2>1, <2>2, <2>3, <2>4, RowsTyped
  <2>7. RowsKeep
    BY <2>1, <2>4, <2>5, <2>6 DEF RowsKeep
  <2>8. \E d \in Calls, s \in CallState : NewCall(d, s)
    BY <1>0, <1>5 DEF Rotating
  <2> QED
    BY <2>1, <2>7, <2>8, CallsStay
<1>6. ASSUME NEW c \in Calls, Ending(c) PROVE RowsKeep /\ CallsKeep
  <2>1. RowsKeep /\ Issued' = Issued
    BY <1>6, EndingRows, SameRows
  <2>2. Overtaken(c, call[c].user)
    BY <1>6 DEF Ending
  <2>3. /\ call' \in [Calls -> CallState]
        /\ \A d \in Calls : Knows(call'[d], Known, Issued)
    BY <2>2, OvertakenFact
  <2>4. \A d \in Calls : Knows(call'[d], Known', Issued')
    BY <2>1, <2>3, KnowsMore
  <2> QED
    BY <2>1, <2>3, <2>4 DEF CallsKeep, CallsKnow
<1>7. ASSUME NEW t \in Issued, Dropping(t) PROVE RowsKeep /\ CallsKeep
  <2>1. PICK r \in Secret : secrets' = [secrets EXCEPT ![t] = r] /\ SameOwner(r, secrets[t])
    BY <1>7 DEF Dropping
  <2>2. RowsKeep /\ Issued' = Issued
    BY <2>1, ReadingRows, SameRows DEF SameOwner
  <2>3. call' = call
    BY <1>7 DEF Dropping
  <2> QED
    BY <2>2, <2>3, CallsStay
<1> QED
  BY <1>1, <1>2, <1>3, <1>4, <1>5, <1>6, <1>7 DEF Shape

\* The account of an OAuth subject, the logins under way and the count of requests.
LEMMA LinksStay ==
  ASSUME Typed, [Next]_vars
  PROVE  /\ linked' \in [Identities -> Ids \cup {None}] /\ LinkedKnown'
         /\ grants' \in [Identities -> SUBSET {"state", "code"}]
         /\ begun' \in 0..MaxCalls
<1>0. /\ linked \in [Identities -> Ids \cup {None}]
      /\ \A i \in Identities : linked[i] # None => linked[i] \in Known
      /\ grants \in [Identities -> SUBSET {"state", "code"}]
      /\ begun \in 0..MaxCalls /\ Known \subseteq Known'
  BY UsersNext, UsersStay DEF Typed, TypeOK, LinkedKnown
<1>1. begun' = begun \/ (begun < MaxCalls /\ begun' = begun + 1)
  <2>1. ASSUME NEW c \in Calls, RegisterStep(c)
        PROVE  begun' = begun \/ (begun < MaxCalls /\ begun' = begun + 1)
    BY <2>1 DEF RegisterStep, RegisterLoad, RegisterCommit, VerifyLoad, VerifyCommit, Reads,
                Begins, Ends, Goes
  <2>2. ASSUME NEW c \in Calls, SessionStep(c)
        PROVE  begun' = begun \/ (begun < MaxCalls /\ begun' = begun + 1)
    BY <2>2 DEF SessionStep, LoginLoad, LoginCommit, RefreshLoad, RefreshCommit, Reads,
                Begins, Ends, Goes
  <2>3. ASSUME NEW c \in Calls, OAuthStep(c)
        PROVE  begun' = begun \/ (begun < MaxCalls /\ begun' = begun + 1)
    BY <2>3 DEF OAuthStep, OAuthCheck, OAuthRefused, OAuthExchange, OAuthCommit,
                Begins, Ends, Goes
  <2>4. ASSUME NEW c \in Calls, EndStep(c)
        PROVE  begun' = begun \/ (begun < MaxCalls /\ begun' = begun + 1)
    BY <2>4 DEF EndStep, ResetLoad, AdminLoad, CloseLoad, FindSessions, EndCommit,
                ReinstateCommit, Reads, Begins, Ends, Goes
  <2>5. ASSUME \/ \E c \in Calls : CallFails(c)
               \/ \E u \in Ids : GuestSession(u) \/ ForgotPassword(u) \/ Scrub(u)
               \/ \E t \in Issued : Logout(t)
               \/ \E i \in Identities : OAuthStart(i)
               \/ UNCHANGED vars
        PROVE  begun' = begun
    BY <2>5 DEF CallFails, GuestSession, ForgotPassword, Scrub, Logout, OAuthStart, Ends, Goes, vars
  <2> QED
    BY <2>1, <2>2, <2>3, <2>4, <2>5 DEF Next
<1>2. begun' \in 0..MaxCalls
  BY <1>0, <1>1, AccountAssumption
<1>3. CASE linked' = linked /\ grants' = grants
  BY <1>0, <1>2, <1>3 DEF LinkedKnown
<1>4. ASSUME NEW c \in Calls, OAuthRefused(c) \/ OAuthExchange(c)
      PROVE  linked' = linked /\ grants' \in [Identities -> SUBSET {"state", "code"}]
  BY <1>0, <1>4 DEF OAuthRefused, OAuthExchange
<1>5. ASSUME NEW c \in Calls, NEW u \in Ids, OAuthCommit(c, u)
      PROVE  /\ grants' = grants /\ linked' = [linked EXCEPT ![call[c].identity] = u]
             /\ u \in Known'
  <2>1. grants' = grants /\ linked' = [linked EXCEPT ![call[c].identity] = u]
    BY <1>5 DEF OAuthCommit
  <2>2. CASE call[c].user = None
    <3> DEFINE e == IdentityEmail[call[c].identity]
    <3>1. call[c].identity \in Identities
      BY <1>5, CallKnows DEF OAuthCommit, Commits
    <3>2. e \in Emails
      BY <3>1, AccountAssumption
    <3>3. users' = [users EXCEPT ![u] = Registered(e, TRUE, FALSE)]
      BY <1>5, <2>2 DEF OAuthCommit
    <3>4. users \in [Ids -> User]
      BY DEF Typed, TypeOK
    <3> HIDE DEF e
    <3>5. users'[u].status # "none"
      BY <3>2, <3>3, <3>4, RegisteredFact
    <3> QED
      BY <2>1, <3>5 DEF Known, Exists
  <2>3. CASE call[c].user # None
    <3>1. u = call[c].user
      BY <1>5, <2>3 DEF OAuthCommit
    <3>2. u \in Known
      BY <2>3, <3>1 DEF Typed, CallsKnow, Knows
    <3> QED
      BY <1>0, <2>1, <3>2
  <2> QED
    BY <2>2, <2>3
<1>6. ASSUME NEW i \in Identities, OAuthStart(i)
      PROVE  linked' = linked /\ grants' \in [Identities -> SUBSET {"state", "code"}]
  BY <1>0, <1>6 DEF OAuthStart
<1>7. CASE linked' = linked /\ grants' \in [Identities -> SUBSET {"state", "code"}]
  BY <1>0, <1>2, <1>7 DEF LinkedKnown
<1>8. ASSUME NEW c \in Calls, NEW u \in Ids, OAuthCommit(c, u)
      PROVE  /\ linked' \in [Identities -> Ids \cup {None}] /\ LinkedKnown'
             /\ grants' \in [Identities -> SUBSET {"state", "code"}]
  BY <1>0, <1>5, <1>8 DEF LinkedKnown
<1>9. ASSUME NEW c \in Calls, RegisterStep(c) PROVE linked' = linked /\ grants' = grants
  BY <1>9 DEF RegisterStep, RegisterLoad, RegisterCommit, VerifyLoad, VerifyCommit
<1>10. ASSUME NEW c \in Calls, SessionStep(c) PROVE linked' = linked /\ grants' = grants
  BY <1>10 DEF SessionStep, LoginLoad, LoginCommit, RefreshLoad, RefreshCommit
<1>11. ASSUME NEW c \in Calls, NEW i \in Identities, OAuthCheck(c, i)
       PROVE  linked' = linked /\ grants' = grants
  BY <1>11 DEF OAuthCheck
<1>12. ASSUME NEW c \in Calls, EndStep(c) PROVE linked' = linked /\ grants' = grants
  BY <1>12 DEF EndStep, ResetLoad, AdminLoad, CloseLoad, FindSessions, EndCommit, ReinstateCommit
<1>13. ASSUME \/ \E c \in Calls : CallFails(c)
              \/ \E u \in Ids : GuestSession(u) \/ ForgotPassword(u) \/ Scrub(u)
              \/ \E t \in Issued : Logout(t)
              \/ UNCHANGED vars
       PROVE  linked' = linked /\ grants' = grants
  BY <1>13 DEF CallFails, GuestSession, ForgotPassword, Scrub, Logout, vars
<1> QED
  BY <1>2, <1>3, <1>4, <1>6, <1>7, <1>8, <1>9, <1>10, <1>11, <1>12, <1>13 DEF Next, OAuthStep

LEMMA TypedNext ==
  ASSUME Typed, [Next]_vars
  PROVE  Typed'
<1>1. users' \in [Ids -> User] /\ Known \subseteq Known'
  BY UsersNext, UsersStay
<1>2. RowsKeep /\ CallsKeep
  BY <1>1, ShapeNext, ShapeKeeps
<1>3. /\ linked' \in [Identities -> Ids \cup {None}] /\ LinkedKnown'
      /\ grants' \in [Identities -> SUBSET {"state", "code"}]
      /\ begun' \in 0..MaxCalls
  BY LinksStay
<1>4. \A t \in Issued' : Exists(secrets[t].user)' /\ secrets'[t].family <= t
  BY <1>2 DEF RowsKeep, Known
<1>5. \A c \in Calls : call'[c].token \in Issued' \cup {NoSecret} /\ call'[c].found \subseteq Issued'
  BY <1>2 DEF CallsKeep, CallsKnow, Knows
<1>6. TypeOK'
  BY <1>1, <1>2, <1>3, <1>4, <1>5 DEF TypeOK, RowsKeep, CallsKeep
<1> QED
  BY <1>2, <1>3, <1>6 DEF Typed, CallsKeep

LEMMA TypedAlways == Spec => []Typed
  BY TypedInit, TypedNext, PTL DEF Spec

\* Every variable keeps its type, no token belongs to an account that is not there, and
\* what a call has loaded stays there until its commit.
THEOREM TypeCorrect == Spec => []TypeOK
<1>1. Typed => TypeOK
  BY DEF Typed
<1> QED
  BY <1>1, TypedAlways, PTL

-----------------------------------------------------------------------------
(* One account per address.                                                *)

OneAddress ==
    \A u, v \in Ids : Exists(u) /\ Exists(v) /\ users[u].email = users[v].email
                         => u = v \/ users[u].email = None

LEMMA OneAddressNext ==
  ASSUME Typed, OneAddress, [Next]_vars
  PROVE  OneAddress'
<1>0. users \in [Ids -> User]
  BY DEF Typed, TypeOK
<1>1. CASE users' = users
  BY <1>1 DEF OneAddress, Exists
<1>2. ASSUME NEW u \in Ids, Creates(u) PROVE OneAddress'
  <2>1. PICK r \in User : /\ users' = [users EXCEPT ![u] = r]
                          /\ r.email # None => ~HasEmail(r.email)
    BY <1>2 DEF Creates
  <2>2. users'[u] = r /\ \A v \in Ids \ {u} : users'[v] = users[v]
    BY <1>0, <2>1
  <2>3. \A v \in Ids \ {u} : Exists(v) /\ users[v].email = r.email => r.email = None
    BY <2>1 DEF HasEmail
  <2> QED
    BY <2>2, <2>3 DEF OneAddress, Exists
<1>3. ASSUME NEW u \in Ids, Changes(u) PROVE OneAddress'
  <2>1. PICK r \in User : /\ users' = [users EXCEPT ![u] = r]
                          /\ r.email \in {users[u].email, None} /\ Exists(u)
    BY <1>3 DEF Changes
  <2>2. users'[u] = r /\ \A v \in Ids \ {u} : users'[v] = users[v]
    BY <1>0, <2>1
  <2> QED
    BY <2>1, <2>2 DEF OneAddress, Exists
<1> QED
  BY <1>1, <1>2, <1>3, UsersNext DEF UsersStep

\* However registration, OAuth logins, status changes and the purge interleave, an address
\* belongs to one account, and an OAuth subject to an account that is there.
THEOREM OneAccountCorrect == Spec => []OneAccount
<1>1. Init => OneAddress
  BY DEF Init, OneAddress, Exists, NoUser
<1>2. Typed /\ OneAddress /\ [Next]_vars => OneAddress'
  BY OneAddressNext
<1>3. Typed /\ OneAddress => OneAccount
  BY DEF Typed, LinkedKnown, Known, OneAddress, OneAccount
<1> QED
  BY <1>1, <1>2, <1>3, TypedAlways, PTL DEF Spec

-----------------------------------------------------------------------------
(* Ended sessions.  A call takes the standing of a token that was live, so *)
(* it never holds "ended"; an ending in between makes it "raced".          *)

EndedInv ==
    /\ EndedSessionsStayEnded
    /\ \A c \in Calls : call[c].standing # "ended"

LEMMA EndedSame ==
  ASSUME Typed, EndedInv, Issued' = Issued, NEW t \in Issued,
         \A s \in Issued \ {t} : secrets'[s] = secrets[s],
         SameOwner(secrets'[t], secrets[t]), secrets'[t].standing = secrets[t].standing,
         secrets[t].spent => secrets'[t].spent
  PROVE  EndedSessionsStayEnded'
  BY DEF EndedInv, EndedSessionsStayEnded, SameOwner, Live

LEMMA EndedIssued ==
  ASSUME Typed, EndedInv, NEW n, Issued' = Issued \cup {n},
         \A s \in Issued : /\ SameOwner(secrets'[s], secrets[s])
                           /\ secrets'[s].standing = secrets[s].standing
                           /\ secrets[s].spent => secrets'[s].spent,
         secrets'[n].standing # "ended"
  PROVE  EndedSessionsStayEnded'
  BY DEF EndedInv, EndedSessionsStayEnded, SameOwner, Live

LEMMA EndedNext ==
  ASSUME Typed, EndedInv, [Next]_vars
  PROVE  EndedInv'
<1>0. call \in [Calls -> CallState] /\ IdleCall.standing = "good"
  BY IdleFields DEF Typed, TypeOK
<1>1. ASSUME call' = call \/ \E c \in Calls, s \in CallState : NewCall(c, s) /\ s.standing # "ended"
      PROVE  \A d \in Calls : call'[d].standing # "ended"
  BY <1>0, <1>1 DEF EndedInv, NewCall
<1>2. CASE Silent
  <2>1. EndedSessionsStayEnded'
    BY <1>2 DEF Silent, EndedInv, EndedSessionsStayEnded, Issued, Live
  <2>2. call' = call \/ \E c \in Calls, s \in CallState : NewCall(c, s) /\ s.standing # "ended"
    BY <1>2 DEF Silent, EndedInv
  <2> QED
    BY <1>1, <2>1, <2>2 DEF EndedInv
<1>3. ASSUME NEW c \in Calls, NEW t \in Issued, Reading(c, t) PROVE EndedInv'
  <2>1. PICK r \in Secret : /\ secrets' = [secrets EXCEPT ![t] = r] /\ SameOwner(r, secrets[t])
                            /\ r.standing = secrets[t].standing /\ r.spent = secrets[t].spent
    BY <1>3 DEF Reading
  <2>2. /\ Issued' = Issued /\ secrets'[t] = r
        /\ \A s \in Issued \ {t} : secrets'[s] = secrets[s]
    BY <2>1, ReadingRows
  <2>3. EndedSessionsStayEnded'
    BY <2>1, <2>2, EndedSame
  <2>4. \E d \in Calls, s \in CallState : NewCall(d, s) /\ s.standing # "ended"
    <3>1. secrets[t].kind = "session" => secrets[t].standing # "ended"
      BY <1>3 DEF Reading, EndedInv, EndedSessionsStayEnded
    <3> QED
      BY <1>3, <3>1 DEF Reading
  <2> QED
    BY <1>1, <2>3, <2>4 DEF EndedInv
<1>4. ASSUME NEW kind \in SecretKind, NEW u \in Ids, NEW standing \in Standing,
             Issuing(kind, u, standing)
      PROVE  EndedInv'
  <2> DEFINE n == Len(secrets) + 1
  <2>1. /\ Issued' = Issued \cup {n} /\ \A s \in Issued : secrets'[s] = secrets[s]
        /\ secrets'[n] = NewSecret(n, kind, u, NoSecret, standing)
    BY <1>4, IssuingRows
  <2>2. standing # "ended" /\ secrets'[n].standing = standing
    BY <1>4, <2>1 DEF Issuing, EndedInv, NewSecret
  <2> HIDE DEF n
  <2>3. EndedSessionsStayEnded'
    BY <2>1, <2>2, EndedIssued DEF SameOwner
  <2>4. call' = call \/ \E c \in Calls, s \in CallState : NewCall(c, s) /\ s.standing # "ended"
    BY <1>0, <1>4, IdleFields DEF Issuing, Quiet
  <2> QED
    BY <1>1, <2>3, <2>4 DEF EndedInv
<1>5. ASSUME NEW c \in Calls, Spending(c) PROVE EndedInv'
  <2>1. EndedSessionsStayEnded'
    BY <1>5, SpendingRows, EndedSame
  <2>2. \E d \in Calls, s \in CallState : NewCall(d, s) /\ s.standing # "ended"
    BY <1>0, <1>5, IdleFields DEF Spending
  <2> QED
    BY <1>1, <2>1, <2>2 DEF EndedInv
<1>6. ASSUME NEW c \in Calls, Rotating(c) PROVE EndedInv'
  <2> DEFINE n == Len(secrets) + 1
             t == call[c].token
  <2>1. /\ Issued' = Issued \cup {n}
        /\ t \in Issued /\ \A s \in Issued \ {t} : secrets'[s] = secrets[s]
        /\ SameOwner(secrets'[t], secrets[t]) /\ secrets'[t].spent
        /\ secrets'[t].standing = secrets[t].standing
        /\ secrets'[n] = NewSecret(n, "session", call[c].user, secrets[t].family,
                                   call[c].standing)
    BY <1>6, RotatingRows
  <2>2. secrets'[n].standing # "ended"
    BY <2>1 DEF NewSecret, EndedInv
  <2> HIDE DEF n, t
  <2>3. EndedSessionsStayEnded'
    <3>1. \A s \in Issued : /\ SameOwner(secrets'[s], secrets[s])
                            /\ secrets'[s].standing = secrets[s].standing
                            /\ secrets[s].spent => secrets'[s].spent
      BY <2>1 DEF SameOwner
    <3> QED
      BY <2>1, <2>2, <3>1, EndedIssued
  <2>4. \E d \in Calls, s \in CallState : NewCall(d, s) /\ s.standing # "ended"
    BY <1>0, <1>6, IdleFields DEF Rotating
  <2> QED
    BY <1>1, <2>3, <2>4 DEF EndedInv
<1>7. ASSUME NEW c \in Calls, Ending(c) PROVE EndedInv'
  <2>1. /\ Issued' = Issued
        /\ \A t \in Issued :
             /\ SameOwner(secrets'[t], secrets[t])
             /\ secrets[t].spent => secrets'[t].spent
             /\ secrets[t].kind = "session" /\ secrets'[t].standing = "ended" =>
                  secrets'[t].spent \/ secrets[t].standing = "ended"
    BY <1>7, EndingRows
  <2>2. EndedSessionsStayEnded'
    BY <2>1 DEF EndedInv, EndedSessionsStayEnded, SameOwner, Live
  <2>3. \A d \in Calls : call'[d].standing \in {"good", "raced", call[d].standing}
    BY <1>7, OvertakenFact DEF Ending
  <2> QED
    BY <2>2, <2>3 DEF EndedInv
<1>8. ASSUME NEW t \in Issued, Dropping(t) PROVE EndedInv'
  <2>1. PICK r \in Secret : /\ secrets' = [secrets EXCEPT ![t] = r] /\ SameOwner(r, secrets[t])
                            /\ r.standing = secrets[t].standing /\ r.spent
    BY <1>8 DEF Dropping
  <2>2. /\ Issued' = Issued /\ secrets'[t] = r
        /\ \A s \in Issued \ {t} : secrets'[s] = secrets[s]
    BY <2>1, ReadingRows
  <2>3. EndedSessionsStayEnded'
    BY <2>1, <2>2, EndedSame
  <2> QED
    BY <1>8, <2>3 DEF EndedInv, Dropping
<1> QED
  BY <1>2, <1>3, <1>4, <1>5, <1>6, <1>7, <1>8, ShapeNext DEF Shape

\* No rotation that reads a token after a reset, a suspension or a deletion ended it
\* revives the session.  One that had read it before may: what it issues is "raced".
THEOREM EndedSessionsStayEndedCorrect == Spec => []EndedSessionsStayEnded
<1>1. Init => EndedInv
  <2> SUFFICES ASSUME Init PROVE EndedInv
    OBVIOUS
  <2>1. Issued = {}
    BY DEF Init, Issued
  <2>2. \A c \in Calls : call[c].standing = "good"
    BY IdleFields DEF Init
  <2> QED
    BY <2>1, <2>2 DEF EndedInv, EndedSessionsStayEnded
<1>2. Typed /\ EndedInv /\ [Next]_vars => EndedInv'
  BY EndedNext
<1>3. EndedInv => EndedSessionsStayEnded
  BY DEF EndedInv
<1> QED
  BY <1>1, <1>2, <1>3, TypedAlways, PTL DEF Spec

-----------------------------------------------------------------------------
(* Tokens are exchanged once, and a family has one live token: what a step *)
(* does to the calls that hold a token, and to the family of a new one.    *)

\* A call that held t has exchanged it.
ExchangedNow(t) ==
    /\ secrets'[t].uses = secrets[t].uses + 1 /\ secrets'[t].spent
    /\ \E c \in Calls : call[c].token = t /\ call'[c].token = NoSecret

\* Token n founds a family, or is the successor of the token that c held.
Founds(n) == \A s \in Issued : secrets[s].family # secrets'[n].family
Succeeds(n, c) ==
    LET t == call[c].token
    IN  /\ t \in Issued /\ call'[c].token = NoSecret
        /\ secrets'[t].spent /\ secrets'[n].family = secrets[t].family

\* Call c has read a live token; if another call held it, the token is marked as forked.
NowReads(c) ==
    LET t == call'[c].token
    IN  /\ t \in Issued /\ Live(t) /\ Issued' = Issued /\ secrets'[t].uses = secrets[t].uses
        /\ \A d \in Calls \ {c} : call'[d].token = call[d].token
        /\ \A d \in Calls \ {c} : call[d].token = t => secrets'[t].forked

TokenStep ==
    /\ Issued \subseteq Issued' /\ \A m, n \in Issued' \ Issued : m = n
    /\ \A t \in Issued :
         /\ secrets'[t].family = secrets[t].family
         /\ secrets[t].spent => secrets'[t].spent
         /\ secrets[t].forked => secrets'[t].forked
         /\ secrets'[t].uses = secrets[t].uses \/ ExchangedNow(t)
    /\ \A n \in Issued' \ Issued :
         secrets'[n].uses = 0 /\ (Founds(n) \/ \E c \in Calls : Succeeds(n, c))
    /\ \A c \in Calls : call'[c].token \in {NoSecret, call[c].token} \/ NowReads(c)

\* Beside ExchangedOnce: a token that was exchanged is spent; one that is exchanged and
\* held, or held twice, was read by two calls while it was live.
UsedIsSpent  == \A t \in Issued : secrets[t].uses > 0 => secrets[t].spent
UsedIsForked ==
    \A c \in Calls : LET t == call[c].token
                     IN  t \in Issued /\ secrets[t].uses > 0 => secrets[t].forked
SharedIsForked ==
    \A c, d \in Calls : LET t == call[c].token
                        IN  c # d /\ t \in Issued /\ call[d].token = t => secrets[t].forked

TokenInv == UsedIsSpent /\ ExchangedOnce /\ UsedIsForked /\ SharedIsForked

\* Nobody holds a token that was issued by the step.
LEMMA HeldBefore ==
  ASSUME Typed, Typed', TokenStep
  PROVE  /\ NoSecret \notin Issued /\ NoSecret \notin Issued'
         /\ \A c \in Calls : call'[c].token \in Issued' => call'[c].token \in Issued
<1>1. NoSecret \notin Issued
  BY RowsTyped DEF NoSecret
<1>2. NoSecret \notin Issued'
  BY IssuedFact DEF Typed, TypeOK, Issued
<1>3. \A c \in Calls : call[c].token \in Issued \cup {NoSecret}
  BY DEF Typed, TypeOK
<1> QED
  BY <1>1, <1>2, <1>3 DEF TokenStep, NowReads

LEMMA TokenNext ==
  ASSUME Typed, Typed', TokenInv, TokenStep
  PROVE  TokenInv'
<1>0. \A t \in Issued : secrets[t].uses \in Nat
  BY RowsTyped DEF Secret
<1>1. \A c \in Calls : call'[c].token \in Issued' => call'[c].token \in Issued
  BY HeldBefore
<1>2. NoSecret \notin Issued
  BY HeldBefore
<1>3. UsedIsSpent'
  BY <1>0 DEF TokenInv, UsedIsSpent, TokenStep, ExchangedNow
<1>4. ExchangedOnce'
  <2> SUFFICES ASSUME NEW t \in Issued', secrets'[t].uses > 1 PROVE secrets'[t].forked
    BY DEF ExchangedOnce
  <2>1. t \in Issued
    BY DEF TokenStep
  <2>2. CASE secrets'[t].uses = secrets[t].uses
    BY <2>1, <2>2 DEF TokenInv, ExchangedOnce, TokenStep
  <2>3. CASE ExchangedNow(t)
    <3>1. secrets[t].uses > 0
      BY <1>0, <2>1, <2>3 DEF ExchangedNow
    <3>2. secrets[t].forked
      BY <2>1, <2>3, <3>1 DEF ExchangedNow, TokenInv, UsedIsForked
    <3> QED
      BY <2>1, <3>2 DEF TokenStep
  <2> QED
    BY <2>1, <2>2, <2>3 DEF TokenStep
<1>5. UsedIsForked'
  <2> SUFFICES ASSUME NEW c \in Calls, call'[c].token \in Issued',
                      secrets'[call'[c].token].uses > 0
               PROVE  secrets'[call'[c].token].forked
    BY DEF UsedIsForked
  <2> DEFINE t == call'[c].token
  <2>1. t \in Issued
    BY <1>1
  <2>2. CASE t = call[c].token /\ secrets'[t].uses = secrets[t].uses
    BY <2>1, <2>2 DEF TokenInv, UsedIsForked, TokenStep
  <2>3. CASE t = call[c].token /\ ExchangedNow(t)
    <3>1. PICK d \in Calls : call[d].token = t /\ call'[d].token = NoSecret
      BY <2>3 DEF ExchangedNow
    <3>2. c # d
      BY <1>2, <2>1, <3>1
    <3>3. secrets[t].forked
      BY <2>1, <2>3, <3>1, <3>2 DEF TokenInv, SharedIsForked
    <3> QED
      BY <2>1, <3>3 DEF TokenStep
  <2>4. CASE NowReads(c)
    <3>1. secrets[t].uses > 0 /\ Live(t)
      BY <2>4 DEF NowReads
    <3> QED
      BY <2>1, <3>1 DEF TokenInv, UsedIsSpent, Live
  <2>5. t = call[c].token \/ NowReads(c)
    BY <1>2, <2>1 DEF TokenStep
  <2>6. secrets'[t].uses = secrets[t].uses \/ ExchangedNow(t)
    BY <2>1 DEF TokenStep
  <2> QED
    BY <2>2, <2>3, <2>4, <2>5, <2>6
<1>6. SharedIsForked'
  <2> SUFFICES ASSUME NEW c \in Calls, NEW d \in Calls, c # d, call'[c].token \in Issued',
                      call'[d].token = call'[c].token
               PROVE  secrets'[call'[c].token].forked
    BY DEF SharedIsForked
  <2> DEFINE t == call'[c].token
  <2>1. t \in Issued
    BY <1>1
  <2>2. CASE call[c].token = t /\ call[d].token = t
    BY <2>1, <2>2 DEF TokenInv, SharedIsForked, TokenStep
  <2>3. CASE NowReads(c)
    BY <2>3 DEF NowReads
  <2>4. CASE NowReads(d)
    BY <2>4 DEF NowReads
  <2>5. (call[c].token = t \/ NowReads(c)) /\ (call[d].token = t \/ NowReads(d))
    BY <1>2, <2>1 DEF TokenStep
  <2> QED
    BY <2>2, <2>3, <2>4, <2>5
<1> QED
  BY <1>3, <1>4, <1>5, <1>6 DEF TokenInv

-----------------------------------------------------------------------------
(* In a family without a fork, a live token is the only one, and so is a   *)
(* token that is held; two calls never hold tokens of it.                  *)

Forked(f) == \E r \in Issued : secrets[r].family = f /\ secrets[r].forked

HeldIsAlone ==
    \A c \in Calls, s \in Issued :
      LET t == call[c].token
      IN  t \in Issued /\ s # t /\ secrets[s].family = secrets[t].family /\ Live(s)
            => Forked(secrets[t].family)

OneHolder ==
    \A c, d \in Calls :
      LET t == call[c].token
          s == call[d].token
      IN  c # d /\ t \in Issued /\ s \in Issued /\ secrets[s].family = secrets[t].family
            => Forked(secrets[t].family)

FamilyInv == OneLivePerFamily /\ HeldIsAlone /\ OneHolder

\* One more token of the family of t has been issued.
LEMMA NewInFamily ==
  ASSUME Typed, TokenStep, NEW n \in Issued', n \notin Issued, NEW t \in Issued,
         secrets'[n].family = secrets'[t].family
  PROVE  \E c \in Calls : Succeeds(n, c) /\ secrets[call[c].token].family = secrets[t].family
<1>1. secrets'[t].family = secrets[t].family
  BY DEF TokenStep
<1>2. ~Founds(n)
  BY <1>1 DEF Founds
<1>3. PICK c \in Calls : Succeeds(n, c)
  BY <1>2 DEF TokenStep
<1> QED
  BY <1>1, <1>3 DEF Succeeds

LEMMA FamilyNext ==
  ASSUME Typed, Typed', FamilyInv, TokenStep
  PROVE  FamilyInv'
<1>1. /\ NoSecret \notin Issued
      /\ \A c \in Calls : call'[c].token \in Issued' => call'[c].token \in Issued
  BY HeldBefore
<1>2. /\ \A t \in Issued : /\ t \in Issued' /\ secrets'[t].family = secrets[t].family
                           /\ secrets[t].forked => secrets'[t].forked
                           /\ ~secrets'[t].spent => Live(t)
      /\ \A m, n \in Issued' \ Issued : m = n
  BY DEF TokenStep, Live
<1>3. \A t \in Issued : Forked(secrets[t].family) =>
         \E r \in Issued' : secrets'[r].family = secrets'[t].family /\ secrets'[r].forked
  BY <1>2 DEF Forked
\* A live token of the family that c has a token of, and that is not new.
<1>4. ASSUME NEW c \in Calls, call'[c].token \in Issued, NEW s \in Issued, s # call'[c].token,
             secrets[s].family = secrets[call'[c].token].family, Live(s)
      PROVE  Forked(secrets[s].family)
  <2>1. CASE call'[c].token = call[c].token
    BY <1>4, <2>1 DEF FamilyInv, HeldIsAlone
  <2>2. CASE NowReads(c)
    BY <1>4, <2>2 DEF NowReads, FamilyInv, OneLivePerFamily, Forked
  <2> QED
    BY <1>1, <1>4, <2>1, <2>2 DEF TokenStep
<1>5. OneLivePerFamily'
  <2>1. ASSUME NEW s \in Issued', NEW t \in Issued, s # t,
               secrets'[s].family = secrets'[t].family, ~secrets'[s].spent, ~secrets'[t].spent
        PROVE  Forked(secrets[t].family)
    <3>1. CASE s \in Issued
      BY <1>2, <2>1, <3>1 DEF FamilyInv, OneLivePerFamily, Forked
    <3>2. CASE s \notin Issued
      <4>1. PICK c \in Calls : Succeeds(s, c) /\ secrets[call[c].token].family = secrets[t].family
        BY <2>1, <3>2, NewInFamily
      <4>2. call[c].token \in Issued /\ call[c].token # t /\ Live(t)
        BY <1>2, <2>1, <4>1 DEF Succeeds
      <4> QED
        BY <4>1, <4>2 DEF FamilyInv, HeldIsAlone
    <3> QED
      BY <3>1, <3>2
  <2> SUFFICES ASSUME NEW s \in Issued', NEW t \in Issued', s # t,
                      secrets'[s].family = secrets'[t].family, ~secrets'[s].spent,
                      ~secrets'[t].spent
               PROVE  \E r \in Issued' : secrets'[r].family = secrets'[t].family
                                         /\ secrets'[r].forked
    BY DEF OneLivePerFamily, Live
  <2>2. CASE t \in Issued
    BY <1>3, <2>1, <2>2
  <2>3. CASE s \in Issued
    BY <1>3, <2>1, <2>3
  <2> QED
    BY <1>2, <2>2, <2>3
<1>6. HeldIsAlone'
  <2> SUFFICES ASSUME NEW c \in Calls, NEW s \in Issued', call'[c].token \in Issued',
                      s # call'[c].token, ~secrets'[s].spent,
                      secrets'[s].family = secrets'[call'[c].token].family
               PROVE  \E r \in Issued' : /\ secrets'[r].family = secrets'[call'[c].token].family
                                         /\ secrets'[r].forked
    BY DEF HeldIsAlone, Live, Forked
  <2> DEFINE t == call'[c].token
  <2>1. t \in Issued
    BY <1>1
  <2>2. CASE s \in Issued
    BY <1>2, <1>3, <1>4, <2>1, <2>2
  <2>3. CASE s \notin Issued
    <3>1. PICK d \in Calls : Succeeds(s, d) /\ secrets[call[d].token].family = secrets[t].family
      BY <2>1, <2>3, NewInFamily
    <3>2. c # d /\ call[d].token \in Issued
      BY <1>1, <2>1, <3>1 DEF Succeeds
    <3>3. call[c].token = t
      BY <1>1, <2>1, <2>3 DEF TokenStep, NowReads
    <3>4. Forked(secrets[t].family)
      BY <2>1, <3>1, <3>2, <3>3 DEF FamilyInv, OneHolder
    <3> QED
      BY <1>3, <2>1, <3>4
  <2> QED
    BY <2>2, <2>3
<1>7. OneHolder'
  <2> SUFFICES ASSUME NEW c \in Calls, NEW d \in Calls, c # d, call'[c].token \in Issued',
                      call'[d].token \in Issued',
                      secrets'[call'[d].token].family = secrets'[call'[c].token].family
               PROVE  \E r \in Issued' : /\ secrets'[r].family = secrets'[call'[c].token].family
                                         /\ secrets'[r].forked
    BY DEF OneHolder, Forked
  <2> DEFINE t == call'[c].token
             s == call'[d].token
  <2>1. t \in Issued /\ s \in Issued /\ secrets[s].family = secrets[t].family
    BY <1>1, <1>2
  <2>2. CASE t = call[c].token /\ s = call[d].token
    BY <1>3, <2>1, <2>2 DEF FamilyInv, OneHolder
  <2>3. ASSUME s = t, NowReads(c) \/ NowReads(d)
        PROVE  secrets'[t].forked
    <3>1. CASE NowReads(c)
      BY <2>3, <3>1 DEF NowReads
    <3>2. CASE NowReads(d)
      BY <2>3, <3>2 DEF NowReads
    <3> QED
      BY <2>3, <3>1, <3>2
  <2>4. CASE s = t /\ (NowReads(c) \/ NowReads(d))
    BY <1>2, <2>1, <2>3, <2>4
  <2>5. ASSUME s # t, NowReads(c) PROVE Forked(secrets[t].family)
    <3>1. Live(t) /\ s = call[d].token
      BY <2>5 DEF NowReads
    <3> QED
      BY <2>1, <2>5, <3>1 DEF FamilyInv, HeldIsAlone
  <2>6. ASSUME s # t, NowReads(d) PROVE Forked(secrets[t].family)
    <3>1. Live(s) /\ t = call[c].token
      BY <2>6 DEF NowReads
    <3> QED
      BY <2>1, <2>6, <3>1 DEF FamilyInv, HeldIsAlone
  <2>7. CASE s # t /\ (NowReads(c) \/ NowReads(d))
    BY <1>3, <2>1, <2>5, <2>6, <2>7
  <2>8. (t = call[c].token \/ NowReads(c)) /\ (s = call[d].token \/ NowReads(d))
    BY <1>1, <2>1 DEF TokenStep
  <2> QED
    BY <2>2, <2>4, <2>7, <2>8
<1> QED
  BY <1>5, <1>6, <1>7 DEF FamilyInv

-----------------------------------------------------------------------------
(* Every shape is a TokenStep.                                             *)

\* Rows that keep what a family is made of, while calls only let go of tokens.
LEMMA KeepingTokens ==
  ASSUME Typed, Issued' = Issued,
         \A t \in Issued : /\ SameOwner(secrets'[t], secrets[t])
                           /\ secrets[t].spent => secrets'[t].spent
                           /\ secrets[t].forked => secrets'[t].forked
                           /\ secrets'[t].uses = secrets[t].uses \/ ExchangedNow(t),
         \A c \in Calls : call'[c].token \in {NoSecret, call[c].token} \/ NowReads(c)
  PROVE  TokenStep
  BY DEF TokenStep, SameOwner

\* What calls hold when one of them takes the state s.
LEMMA NewCallHolds ==
  ASSUME Typed, NEW c \in Calls, NEW s, NewCall(c, s)
  PROVE  call'[c] = s /\ \A d \in Calls \ {c} : call'[d] = call[d]
<1>1. call \in [Calls -> CallState] /\ call' = [call EXCEPT ![c] = s]
  BY DEF Typed, TypeOK, NewCall
<1> QED
  BY <1>1

LEMMA QuietHolds ==
  ASSUME Typed, Quiet
  PROVE  \A d \in Calls : call'[d].token \in {NoSecret, call[d].token}
<1>1. CASE call' = call
  BY <1>1
<1>2. ASSUME NEW c \in Calls, NewCall(c, IdleCall)
      PROVE  \A d \in Calls : call'[d].token \in {NoSecret, call[d].token}
  BY <1>2, NewCallHolds, IdleFields
<1> QED
  BY <1>1, <1>2 DEF Quiet

LEMMA SilentTokens ==
  ASSUME Typed, Silent
  PROVE  TokenStep
<1>1. /\ Issued' = Issued
      /\ \A t \in Issued : SameOwner(secrets'[t], secrets[t]) /\ secrets'[t] = secrets[t]
  BY DEF Silent, Issued, SameOwner
<1>2. \A d \in Calls : call'[d].token \in {NoSecret, call[d].token}
  <2>1. CASE call' = call
    BY <2>1
  <2>2. ASSUME NEW c \in Calls, NEW s \in CallState, NewCall(c, s),
               s.token \in {NoSecret, call[c].token}
        PROVE  \A d \in Calls : call'[d].token \in {NoSecret, call[d].token}
    BY <2>2, NewCallHolds
  <2> QED
    BY <2>1, <2>2 DEF Silent
<1> QED
  BY <1>1, <1>2, KeepingTokens

LEMMA ReadingTokens ==
  ASSUME Typed, NEW c \in Calls, NEW t \in Issued, Reading(c, t)
  PROVE  TokenStep
<1>1. PICK r \in Secret : /\ secrets' = [secrets EXCEPT ![t] = r]
                          /\ SameOwner(r, secrets[t]) /\ r.uses = secrets[t].uses
                          /\ r.spent = secrets[t].spent
                          /\ r.forked <=> secrets[t].forked \/ Held(c, t)
  BY DEF Reading
<1>2. PICK s \in CallState : NewCall(c, s) /\ s.token = t
  BY DEF Reading
<1>3. /\ Issued' = Issued /\ secrets'[t] = r
      /\ \A q \in Issued \ {t} : secrets'[q] = secrets[q]
  BY <1>1, ReadingRows
<1>4. call'[c].token = t /\ \A d \in Calls \ {c} : call'[d] = call[d]
  BY <1>2, NewCallHolds
<1>5. \A d \in Calls \ {c} : call[d].token = t => secrets'[t].forked
  BY <1>1, <1>3 DEF Held
<1>6. NowReads(c)
  BY <1>1, <1>3, <1>4, <1>5 DEF NowReads, Reading
<1>7. \A q \in Issued : /\ SameOwner(secrets'[q], secrets[q])
                        /\ secrets[q].spent => secrets'[q].spent
                        /\ secrets[q].forked => secrets'[q].forked
                        /\ secrets'[q].uses = secrets[q].uses
  BY <1>1, <1>3 DEF SameOwner
<1> QED
  BY <1>3, <1>4, <1>6, <1>7, KeepingTokens

LEMMA SpendingTokens ==
  ASSUME Typed, NEW c \in Calls, Spending(c)
  PROVE  TokenStep
<1> DEFINE t == call[c].token
<1>1. /\ Issued' = Issued /\ t \in Issued
      /\ \A s \in Issued \ {t} : secrets'[s] = secrets[s]
      /\ SameOwner(secrets'[t], secrets[t]) /\ secrets'[t].spent
      /\ secrets'[t].uses = secrets[t].uses + 1 /\ secrets'[t].forked = secrets[t].forked
  BY SpendingRows
<1>2. call'[c] = IdleCall /\ \A d \in Calls \ {c} : call'[d] = call[d]
  BY NewCallHolds DEF Spending
<1>3. ExchangedNow(t)
  BY <1>1, <1>2, IdleFields DEF ExchangedNow
<1> HIDE DEF t
<1>4. \A s \in Issued : /\ SameOwner(secrets'[s], secrets[s])
                        /\ secrets[s].spent => secrets'[s].spent
                        /\ secrets[s].forked => secrets'[s].forked
                        /\ secrets'[s].uses = secrets[s].uses \/ ExchangedNow(s)
  BY <1>1, <1>3 DEF SameOwner
<1> QED
  BY <1>1, <1>2, <1>4, IdleFields, KeepingTokens

LEMMA IssuingTokens ==
  ASSUME Typed, NEW kind \in SecretKind, NEW u \in Ids, NEW standing \in Standing,
         Issuing(kind, u, standing)
  PROVE  TokenStep
<1> DEFINE n == Len(secrets) + 1
<1>1. /\ n \notin Issued /\ Issued' = Issued \cup {n}
      /\ \A s \in Issued : secrets'[s] = secrets[s]
      /\ secrets'[n] = NewSecret(n, kind, u, NoSecret, standing)
  BY IssuingRows
<1>2. secrets'[n].uses = 0 /\ secrets'[n].family = n
  BY <1>1 DEF NewSecret
<1>3. \A s \in Issued : secrets[s].family # n
  <2> SUFFICES ASSUME NEW s \in Issued PROVE secrets[s].family # n
    OBVIOUS
  <2>1. /\ s \in 1..Len(secrets) /\ Len(secrets) \in Nat
        /\ secrets[s] \in Secret /\ secrets[s].family <= s
    BY RowsTyped
  <2>2. secrets[s].family \in Nat
    BY <2>1, AccountAssumption DEF Secret, SecretNo
  <2> QED
    BY <2>1, <2>2
<1> HIDE DEF n
<1>4. \A d \in Calls : call'[d].token \in {NoSecret, call[d].token}
  BY QuietHolds DEF Issuing
<1> QED
  BY <1>1, <1>2, <1>3, <1>4 DEF TokenStep, Founds

LEMMA RotatingTokens ==
  ASSUME Typed, NEW c \in Calls, Rotating(c)
  PROVE  TokenStep
<1> DEFINE t == call[c].token
           n == Len(secrets) + 1
           f == secrets[t].family
<1>1. /\ n \notin Issued /\ Issued' = Issued \cup {n}
      /\ t \in Issued /\ \A s \in Issued \ {t} : secrets'[s] = secrets[s]
      /\ SameOwner(secrets'[t], secrets[t]) /\ secrets'[t].spent
      /\ secrets'[t].uses = secrets[t].uses + 1 /\ secrets'[t].forked = secrets[t].forked
      /\ secrets'[n] = NewSecret(n, "session", call[c].user, f, call[c].standing)
  BY RotatingRows
<1>2. call'[c] = IdleCall /\ \A d \in Calls \ {c} : call'[d] = call[d]
  BY NewCallHolds DEF Rotating
<1>3. f # NoSecret
  <2>1. f \in SecretNo
    BY <1>1, RowsTyped DEF Secret
  <2> QED
    BY <2>1, AccountAssumption DEF SecretNo, NoSecret
<1>4. secrets'[n].uses = 0 /\ secrets'[n].family = f
  BY <1>1, <1>3 DEF NewSecret
<1>5. ExchangedNow(t)
  BY <1>1, <1>2, IdleFields DEF ExchangedNow
<1>6. Succeeds(n, c)
  BY <1>1, <1>2, <1>4, IdleFields DEF Succeeds
<1> HIDE DEF n, t
<1>7. \A s \in Issued : /\ secrets'[s].family = secrets[s].family
                        /\ secrets[s].spent => secrets'[s].spent
                        /\ secrets[s].forked => secrets'[s].forked
                        /\ secrets'[s].uses = secrets[s].uses \/ ExchangedNow(s)
  BY <1>1, <1>5 DEF SameOwner
<1>8. \A d \in Calls : call'[d].token \in {NoSecret, call[d].token}
  BY <1>2, IdleFields
<1> QED
  BY <1>1, <1>4, <1>6, <1>7, <1>8 DEF TokenStep

LEMMA EndingTokens ==
  ASSUME Typed, NEW c \in Calls, Ending(c)
  PROVE  TokenStep
<1> DEFINE e == call[c].token
<1>1. /\ Issued' = Issued
      /\ call[c].op = "reset" => e \in Issued
      /\ \A t \in Issued :
           /\ SameOwner(secrets'[t], secrets[t])
           /\ secrets'[t].forked = secrets[t].forked
           /\ secrets[t].spent => secrets'[t].spent
           /\ IF call[c].op = "reset" /\ t = e
              THEN secrets'[t].uses = secrets[t].uses + 1 /\ secrets'[t].spent
              ELSE secrets'[t].uses = secrets[t].uses
  BY EndingRows
<1>2. /\ call'[c] = IdleCall
      /\ \A d \in Calls : call'[d].token \in {NoSecret, call[d].token}
  BY OvertakenFact DEF Ending
<1>3. \A t \in Issued : secrets'[t].uses = secrets[t].uses \/ ExchangedNow(t)
  <2> SUFFICES ASSUME NEW t \in Issued, secrets'[t].uses # secrets[t].uses
               PROVE  ExchangedNow(t)
    OBVIOUS
  <2>1. t = e /\ secrets'[t].uses = secrets[t].uses + 1 /\ secrets'[t].spent
    BY <1>1
  <2> QED
    BY <1>2, <2>1, IdleFields DEF ExchangedNow
<1> QED
  BY <1>1, <1>2, <1>3, KeepingTokens

LEMMA DroppingTokens ==
  ASSUME Typed, NEW t \in Issued, Dropping(t)
  PROVE  TokenStep
<1>1. PICK r \in Secret : /\ secrets' = [secrets EXCEPT ![t] = r]
                          /\ SameOwner(r, secrets[t]) /\ r.uses = secrets[t].uses
                          /\ r.spent = TRUE /\ r.forked = secrets[t].forked
  BY DEF Dropping
<1>2. /\ Issued' = Issued /\ secrets'[t] = r
      /\ \A q \in Issued \ {t} : secrets'[q] = secrets[q]
  BY <1>1, ReadingRows
<1>3. \A q \in Issued : /\ SameOwner(secrets'[q], secrets[q])
                        /\ secrets[q].spent => secrets'[q].spent
                        /\ secrets[q].forked => secrets'[q].forked
                        /\ secrets'[q].uses = secrets[q].uses
  BY <1>1, <1>2 DEF SameOwner
<1>4. \A d \in Calls : call'[d].token \in {NoSecret, call[d].token}
  BY DEF Dropping
<1> QED
  BY <1>2, <1>3, <1>4, KeepingTokens

LEMMA TokensNext ==
  ASSUME Typed, [Next]_vars
  PROVE  TokenStep
  BY ShapeNext, SilentTokens, ReadingTokens, IssuingTokens, SpendingTokens, RotatingTokens,
     EndingTokens, DroppingTokens DEF Shape

LEMMA TokensInit == Init => TokenInv /\ FamilyInv
<1> SUFFICES ASSUME Init PROVE TokenInv /\ FamilyInv
  OBVIOUS
<1>1. Issued = {}
  BY DEF Init, Issued
<1>2. TokenInv
  BY <1>1 DEF TokenInv, UsedIsSpent, ExchangedOnce, UsedIsForked, SharedIsForked
<1>3. FamilyInv
  BY <1>1 DEF FamilyInv, OneLivePerFamily, HeldIsAlone, OneHolder
<1> QED
  BY <1>2, <1>3

\* A token, whether of a session, a verification or a reset, is exchanged twice only if
\* two calls had read it before either of them committed: no order of the commits, and
\* no failure or ending in between, gives it a second use otherwise.
THEOREM ExchangedOnceCorrect == Spec => []ExchangedOnce
<1>1. Typed /\ Typed' /\ TokenInv /\ [Next]_vars => TokenInv'
  BY TokensNext, TokenNext
<1>2. Typed /\ [Next]_vars => Typed'
  BY TypedNext
<1>3. TokenInv => ExchangedOnce
  BY DEF TokenInv
<1> QED
  BY <1>1, <1>2, <1>3, TokensInit, TypedAlways, PTL DEF Spec

\* A rotation lineage has one live token, unless one of its tokens was read by two calls
\* before either of them committed.
THEOREM OneLivePerFamilyCorrect == Spec => []OneLivePerFamily
<1>1. Typed /\ Typed' /\ FamilyInv /\ [Next]_vars => FamilyInv'
  BY TokensNext, FamilyNext
<1>2. Typed /\ [Next]_vars => Typed'
  BY TypedNext
<1>3. FamilyInv => OneLivePerFamily
  BY DEF FamilyInv
<1> QED
  BY <1>1, <1>2, <1>3, TokensInit, TypedAlways, PTL DEF Spec
=============================================================================
