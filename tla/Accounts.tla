------------------------------ MODULE Accounts ------------------------------
(***************************************************************************)
(* Accounts, sessions and single-use tokens: registration, e-mail          *)
(* verification, login, rotation of refresh tokens, password reset, OAuth  *)
(* and guest login, suspension and account deletion                        *)
(* (backend/app/modules/auth, and what users and admin do to sessions).    *)
(*                                                                         *)
(* A call reads rows, works on what it has read and commits; the session   *)
(* factory has autoflush off, so nothing is written or locked in between.  *)
(*                                                                         *)
(* Expiry is not state: an expired token is refused, and a call that is    *)
(* refused has no effect, so refusing to exchange a token is always        *)
(* possible here and a token that is not spent counts as live.             *)
(***************************************************************************)
EXTENDS Naturals, FiniteSets, Sequences

CONSTANTS
    Ids,           \* account ids
    Emails,        \* addresses, in lower case: the index of users is on lower(email)
    Identities,    \* OAuth subjects
    IdentityEmail, \* the address a provider reports for a subject
    Calls,         \* API requests that can be in progress at once
    None,
    MaxSecrets,    \* bound: refresh, verification and reset tokens issued
    MaxCalls       \* bound: API requests in all

ASSUME AccountAssumption ==
    /\ IdentityEmail \in [Identities -> Emails]
    /\ None \notin Ids \cup Emails \cup Identities
    /\ MaxSecrets \in Nat
    /\ MaxCalls \in Nat

VARIABLES
    users,   \* committed rows of users
    secrets, \* committed sessions and verification tokens, in the order of their commits
    linked,  \* oauth_identities: the account of each subject
    grants,  \* OAuth logins under way: the state in Redis, the code at the provider
    call,    \* each API request: its step and what it has loaded
    begun    \* API requests so far

vars == <<users, secrets, linked, grants, call, begun>>

-----------------------------------------------------------------------------
(* Rows *)

Status == {"none", "active", "suspended", "deleted"}

\* A guest's and a purged account's address belong to nobody else: None.
User == [status: Status, email: Emails \cup {None}, verified: BOOLEAN, password: BOOLEAN]

NoUser == [status |-> "none", email |-> None, verified |-> FALSE, password |-> FALSE]

SecretNo == 1..MaxSecrets
NoSecret == 0

\* How a session relates to the last time that the sessions of its account were ended:
\* issued after it, descended from what it ended, or from a call that overlapped it.
Standing == {"good", "ended", "raced"}

\* family and spent (revoked_at, used_at) are columns; standing, uses and forked are
\* history: how often the token was exchanged, and whether two calls held it unspent.
Secret == [kind: {"verify", "reset", "session"}, user: Ids, family: SecretNo,
           spent: BOOLEAN, standing: Standing, uses: Nat, forked: BOOLEAN]

Issued == DOMAIN secrets
Live(t) == ~secrets[t].spent
SessionsOf(u) == {t \in Issued : secrets[t].kind = "session" /\ secrets[t].user = u}

Exists(u)    == users[u].status # "none"
HasEmail(e)  == \E u \in Ids : Exists(u) /\ users[u].email = e
Registered(email, verified, password) ==
    [status |-> "active", email |-> email, verified |-> verified, password |-> password]

\* secrets with one more row; a family that is not given is a new one.
WithSecret(rows, kind, u, family, standing) ==
    Append(rows, [kind |-> kind, user |-> u,
                  family |-> IF family = NoSecret THEN Len(rows) + 1 ELSE family,
                  spent |-> FALSE, standing |-> standing, uses |-> 0, forked |-> FALSE])

Room == Len(secrets) < MaxSecrets

\* rows with token t exchanged.
Exchanged(rows, t) ==
    [rows EXCEPT ![t] = [rows[t] EXCEPT !.spent = TRUE, !.uses = rows[t].uses + 1]]

-----------------------------------------------------------------------------
Ops == {"register", "verify", "login", "refresh", "reset", "oauth",
        "suspend", "reinstate", "close"}

\* Operations that end the sessions of an account (revoke_all_sessions).
Endings == {"reset", "suspend", "close"}

CallState == [pc: {"idle", "exchange", "find", "commit"}, op: Ops \cup {None},
              user: Ids \cup {None}, email: Emails \cup {None},
              identity: Identities \cup {None}, token: 0..MaxSecrets,
              seen: Status, found: SUBSET SecretNo, standing: Standing]

IdleCall == [pc |-> "idle", op |-> None, user |-> None, email |-> None,
             identity |-> None, token |-> NoSecret, seen |-> "none", found |-> {},
             standing |-> "good"]

TypeOK ==
    /\ users \in [Ids -> User]
    /\ secrets \in Seq(Secret) /\ Len(secrets) <= MaxSecrets
    /\ \A t \in Issued : Exists(secrets[t].user) /\ secrets[t].family <= t
    /\ linked \in [Identities -> Ids \cup {None}]
    /\ grants \in [Identities -> SUBSET {"state", "code"}]
    /\ call \in [Calls -> CallState]
    /\ begun \in 0..MaxCalls
    /\ \A c \in Calls : call[c].token \in Issued \cup {NoSecret} /\ call[c].found \subseteq Issued

Init ==
    /\ users = [u \in Ids |-> NoUser]
    /\ secrets = <<>>
    /\ linked = [i \in Identities |-> None]
    /\ grants = [i \in Identities |-> {}]
    /\ call = [c \in Calls |-> IdleCall]
    /\ begun = 0

Idle(c) == call[c].pc = "idle"
Commits(c, op) == call[c].pc = "commit" /\ call[c].op = op
Goes(c, state) == call' = [call EXCEPT ![c] = state] /\ begun' = begun
Ends(c) == Goes(c, IdleCall)
Begins(c, state) ==
    /\ Idle(c) /\ begun < MaxCalls /\ begun' = begun + 1
    /\ call' = [call EXCEPT ![c] = state]

\* Call c reads token t: another call that has read it too makes two uses possible.
Held(c, t) == \E d \in Calls \ {c} : call[d].token = t
Reads(c, t, state) ==
    /\ secrets' = [secrets EXCEPT ![t] = [secrets[t] EXCEPT
                       !.forked = secrets[t].forked \/ Held(c, t)]]
    /\ Begins(c, [state EXCEPT !.token = t, !.user = secrets[t].user])

-----------------------------------------------------------------------------
(* Registration and verification *)

\* A known address is answered alike and nothing happens.
RegisterLoad(c, e) ==
    /\ ~HasEmail(e)
    /\ Begins(c, [IdleCall EXCEPT !.pc = "commit", !.op = "register", !.email = e])
    /\ UNCHANGED <<users, secrets, linked, grants>>

\* Mutant of RegisterCommit: no unique index on the address.
RegisterCommitTwice(c, u) ==
    /\ Commits(c, "register") /\ ~Exists(u) /\ Room
    /\ users' = [users EXCEPT ![u] = Registered(call[c].email, FALSE, TRUE)]
    /\ secrets' = WithSecret(secrets, "verify", u, NoSecret, "good")
    /\ Ends(c)
    /\ UNCHANGED <<linked, grants>>

\* The insert of an address that was taken in between fails (CallFails).
RegisterCommit(c, u) ==
    /\ Commits(c, "register") /\ ~Exists(u) /\ ~HasEmail(call[c].email) /\ Room
    /\ users' = [users EXCEPT ![u] = Registered(call[c].email, FALSE, TRUE)]
    /\ secrets' = WithSecret(secrets, "verify", u, NoSecret, "good")
    /\ Ends(c)
    /\ UNCHANGED <<linked, grants>>

VerifyLoad(c, t) ==
    /\ secrets[t].kind = "verify" /\ Live(t)
    /\ Reads(c, t, [IdleCall EXCEPT !.pc = "commit", !.op = "verify"])
    /\ UNCHANGED <<users, linked, grants>>

VerifyCommit(c) ==
    LET u == call[c].user IN
    /\ Commits(c, "verify")
    /\ secrets' = Exchanged(secrets, call[c].token)
    /\ users' = [users EXCEPT ![u] = [users[u] EXCEPT !.verified = TRUE]]
    /\ Ends(c)
    /\ UNCHANGED <<linked, grants>>

-----------------------------------------------------------------------------
(* Sessions *)

\* The password is the one of the row that is read.
LoginLoad(c, u) ==
    /\ users[u].status = "active" /\ users[u].email # None
    /\ users[u].password /\ users[u].verified
    /\ Begins(c, [IdleCall EXCEPT !.pc = "commit", !.op = "login", !.user = u])
    /\ UNCHANGED <<users, secrets, linked, grants>>

LoginCommit(c) ==
    /\ Commits(c, "login") /\ Room
    /\ secrets' = WithSecret(secrets, "session", call[c].user, NoSecret, call[c].standing)
    /\ Ends(c)
    /\ UNCHANGED <<users, linked, grants>>

\* Mutant of GuestSession: the session is inserted and the account is not.
GuestSessionAlone(u) ==
    /\ ~Exists(u) /\ Room
    /\ secrets' = WithSecret(secrets, "session", u, NoSecret, "good")
    /\ UNCHANGED <<users, linked, grants, call, begun>>

\* A new account, its grant (CreditLedger) and its session in one transaction.
GuestSession(u) ==
    /\ ~Exists(u) /\ Room
    /\ users' = [users EXCEPT ![u] = Registered(None, TRUE, TRUE)]
    /\ secrets' = WithSecret(secrets, "session", u, NoSecret, "good")
    /\ UNCHANGED <<linked, grants, call, begun>>

\* Mutant of RefreshLoad: revoked_at is not looked at.
RefreshLoadRevoked(c, t) ==
    /\ secrets[t].kind = "session"
    /\ users[secrets[t].user].status = "active"
    /\ Reads(c, t, [IdleCall EXCEPT !.pc = "commit", !.op = "refresh",
                                    !.standing = secrets[t].standing])
    /\ UNCHANGED <<users, linked, grants>>

\* A token that was rotated is refused; _revoke_family runs before the refusal, whose
\* rollback undoes it, so that presenting such a token has no effect.
RefreshLoad(c, t) ==
    /\ secrets[t].kind = "session" /\ Live(t)
    /\ users[secrets[t].user].status = "active"
    /\ Reads(c, t, [IdleCall EXCEPT !.pc = "commit", !.op = "refresh",
                                    !.standing = secrets[t].standing])
    /\ UNCHANGED <<users, linked, grants>>

\* Mutant of RefreshCommit: the token that is exchanged stays valid.
RefreshCommitKept(c) ==
    LET t == call[c].token IN
    /\ Commits(c, "refresh") /\ Room
    /\ secrets' = WithSecret(secrets, "session", call[c].user, secrets[t].family,
                             call[c].standing)
    /\ Ends(c)
    /\ UNCHANGED <<users, linked, grants>>

\* Rotation: revoked_at is written without a condition, also when another call or an
\* ending wrote it after the load.
RefreshCommit(c) ==
    LET t == call[c].token IN
    /\ Commits(c, "refresh") /\ Room
    /\ secrets' = WithSecret(Exchanged(secrets, t), "session", call[c].user,
                             secrets[t].family, call[c].standing)
    /\ Ends(c)
    /\ UNCHANGED <<users, linked, grants>>

Logout(t) ==
    /\ secrets[t].kind = "session" /\ Live(t)
    /\ secrets' = [secrets EXCEPT ![t] = [secrets[t] EXCEPT !.spent = TRUE]]
    /\ UNCHANGED <<users, linked, grants, call, begun>>

-----------------------------------------------------------------------------
(* OAuth *)

OAuthStart(i) ==
    /\ grants[i] = {}
    /\ grants' = [grants EXCEPT ![i] = {"state", "code"}]
    /\ UNCHANGED <<users, secrets, linked, call, begun>>

\* The state is read, and deleted only after that: two callbacks may both pass.
OAuthCheck(c, i) ==
    /\ "state" \in grants[i]
    /\ Begins(c, [IdleCall EXCEPT !.pc = "exchange", !.op = "oauth", !.identity = i])
    /\ UNCHANGED <<users, secrets, linked, grants>>

\* The provider takes a code once.  The state goes whether it takes it or not.
OAuthRefused(c) ==
    LET i == call[c].identity IN
    /\ call[c].pc = "exchange"
    /\ grants' = [grants EXCEPT ![i] = grants[i] \ {"state"}]
    /\ Ends(c)
    /\ UNCHANGED <<users, secrets, linked>>

\* The account of the subject, or else the one with the reported address, whatever its
\* status and whether or not its address is verified; None when it is to be created.
Provisioned(i) ==
    IF linked[i] # None THEN linked[i]
    ELSE IF HasEmail(IdentityEmail[i])
         THEN CHOOSE u \in Ids : Exists(u) /\ users[u].email = IdentityEmail[i]
         ELSE None

\* The exchange, and the reads of _provision_user.
OAuthExchange(c) ==
    LET i == call[c].identity
        u == Provisioned(i)
    IN
    /\ call[c].pc = "exchange" /\ "code" \in grants[i]
    /\ grants' = [grants EXCEPT ![i] = {}]
    /\ IF linked[i] # None /\ users[u].status = "deleted"
       THEN Ends(c)
       ELSE Goes(c, [call[c] EXCEPT !.pc = "commit", !.user = u])
    /\ UNCHANGED <<users, secrets, linked>>

\* New accounts and new links meet the unique indexes; a conflict fails the call.
OAuthCommit(c, u) ==
    LET i == call[c].identity IN
    /\ Commits(c, "oauth") /\ Room
    /\ IF call[c].user = None
       THEN /\ ~Exists(u) /\ ~HasEmail(IdentityEmail[i])
            /\ users' = [users EXCEPT ![u] = Registered(IdentityEmail[i], TRUE, FALSE)]
       ELSE u = call[c].user /\ users' = users
    /\ linked[i] \in {None, u}
    /\ linked' = [linked EXCEPT ![i] = u]
    /\ secrets' = WithSecret(secrets, "session", u, NoSecret, call[c].standing)
    /\ Ends(c)
    /\ UNCHANGED grants

-----------------------------------------------------------------------------
(* Endings: password reset, suspension, account deletion *)

ForgotPassword(u) ==
    /\ Exists(u) /\ users[u].email # None /\ Room
    /\ secrets' = WithSecret(secrets, "reset", u, NoSecret, "good")
    /\ UNCHANGED <<users, linked, grants, call, begun>>

ResetLoad(c, t) ==
    /\ secrets[t].kind = "reset" /\ Live(t)
    /\ Reads(c, t, [IdleCall EXCEPT !.pc = "find", !.op = "reset"])
    /\ UNCHANGED <<users, linked, grants>>

\* An admin suspends or reinstates any account, a deleted one too.
AdminLoad(c, u, op) ==
    /\ Exists(u) /\ op \in {"suspend", "reinstate"}
    /\ Begins(c, [IdleCall EXCEPT !.pc = IF op = "suspend" THEN "find" ELSE "commit",
                                !.op = op, !.user = u, !.seen = users[u].status])
    /\ UNCHANGED <<users, secrets, linked, grants>>

\* Authenticated by an access token, which outlives its session by minutes.
CloseLoad(c, u) ==
    /\ users[u].status = "active" /\ SessionsOf(u) # {}
    /\ Begins(c, [IdleCall EXCEPT !.pc = "find", !.op = "close", !.user = u,
                                !.seen = "active"])
    /\ UNCHANGED <<users, secrets, linked, grants>>

\* The query of revoke_all_sessions.
FindSessions(c) ==
    /\ call[c].pc = "find"
    /\ Goes(c, [call[c] EXCEPT !.pc = "commit",
                    !.found = {t \in SessionsOf(call[c].user) : Live(t)}])
    /\ UNCHANGED <<users, secrets, linked, grants>>

\* Mutant of SessionsEnded: the sessions are marked only where they were read, the
\* newest one, as a logout does.
SessionsEndedNewest(rows, u, found) ==
    [t \in DOMAIN rows |->
       IF rows[t].kind # "session" \/ rows[t].user # u THEN rows[t]
       ELSE [rows[t] EXCEPT !.spent = rows[t].spent \/ t = Len(rows),
                            !.standing = IF t \in found \/ rows[t].spent THEN "ended" ELSE "raced"]]

\* The sessions that were found are revoked; one that was committed after the query
\* is missed.
SessionsEnded(rows, u, found) ==
    [t \in DOMAIN rows |->
       IF rows[t].kind # "session" \/ rows[t].user # u THEN rows[t]
       ELSE [rows[t] EXCEPT !.spent = rows[t].spent \/ t \in found,
                            !.standing = IF t \in found \/ rows[t].spent THEN "ended" ELSE "raced"]]

\* Calls that are about to issue a session of u have read the account before the end.
Overtaken(c, u) ==
    call' = [d \in Calls |->
               IF d = c THEN IdleCall
               ELSE IF call[d].user = u /\ call[d].op \in {"login", "refresh", "oauth"}
               THEN [call[d] EXCEPT !.standing = "raced"]
               ELSE call[d]]

\* The UPDATE of status, when it differs from what was read.
StatusWritten(u, seen, new) ==
    users' = IF seen = new THEN users ELSE [users EXCEPT ![u] = [users[u] EXCEPT !.status = new]]

EndCommit(c) ==
    LET op == call[c].op
        u  == call[c].user
        t  == call[c].token
        rows == IF op = "reset" THEN Exchanged(secrets, t) ELSE secrets
    IN
    /\ call[c].pc = "commit" /\ op \in Endings
    /\ CASE op = "reset"   -> users' = [users EXCEPT ![u] = [users[u] EXCEPT !.password = TRUE]]
         [] op = "suspend" -> StatusWritten(u, call[c].seen, "suspended")
         [] op = "close"   -> StatusWritten(u, call[c].seen, "deleted")
    /\ secrets' = SessionsEnded(rows, u, call[c].found)
    /\ Overtaken(c, u)
    /\ UNCHANGED <<linked, grants, begun>>

ReinstateCommit(c) ==
    /\ Commits(c, "reinstate")
    /\ StatusWritten(call[c].user, call[c].seen, "active")
    /\ Ends(c)
    /\ UNCHANGED <<secrets, linked, grants>>

\* purge_expired, once the retention of a deleted account is over: days after every
\* call that read it.
Scrub(u) ==
    /\ users[u].status = "deleted" /\ users[u].email # None
    /\ \A c \in Calls : call[c].user # u
    /\ users' = [users EXCEPT ![u] = [users[u] EXCEPT !.email = None, !.password = FALSE]]
    /\ UNCHANGED <<secrets, linked, grants, call, begun>>

\* A refusal or a rollback, at any step.
CallFails(c) ==
    /\ ~Idle(c)
    /\ Ends(c)
    /\ UNCHANGED <<users, secrets, linked, grants>>

-----------------------------------------------------------------------------
RegisterStep(c) ==
    \/ \E e \in Emails : RegisterLoad(c, e)
    \/ \E u \in Ids : RegisterCommit(c, u)
    \/ \E t \in Issued : VerifyLoad(c, t)
    \/ VerifyCommit(c)

SessionStep(c) ==
    \/ \E u \in Ids : LoginLoad(c, u)
    \/ LoginCommit(c)
    \/ \E t \in Issued : RefreshLoad(c, t)
    \/ RefreshCommit(c)

OAuthStep(c) ==
    \/ \E i \in Identities : OAuthCheck(c, i)
    \/ OAuthRefused(c) \/ OAuthExchange(c)
    \/ \E u \in Ids : OAuthCommit(c, u)

EndStep(c) ==
    \/ \E t \in Issued : ResetLoad(c, t)
    \/ \E u \in Ids, op \in {"suspend", "reinstate"} : AdminLoad(c, u, op)
    \/ \E u \in Ids : CloseLoad(c, u)
    \/ FindSessions(c) \/ EndCommit(c) \/ ReinstateCommit(c)

Next ==
    \/ \E c \in Calls : RegisterStep(c) \/ SessionStep(c) \/ OAuthStep(c) \/ EndStep(c)
                        \/ CallFails(c)
    \/ \E u \in Ids : GuestSession(u) \/ ForgotPassword(u) \/ Scrub(u)
    \/ \E t \in Issued : Logout(t)
    \/ \E i \in Identities : OAuthStart(i)

Spec == Init /\ [][Next]_vars

-----------------------------------------------------------------------------
(* Properties *)

\* One account per address and per OAuth subject, whoever registers, logs in by OAuth
\* or is purged at the same time: the lookups of register and _provision_user assume
\* it (scalar_one_or_none raises on a second row).
OneAccount ==
    /\ \A u, v \in Ids : Exists(u) /\ Exists(v) /\ users[u].email = users[v].email
                            => u = v \/ users[u].email = None
    /\ \A i \in Identities : linked[i] # None => Exists(linked[i])

\* "Single-use, time-limited tokens" (users/models.py:139), and rotation on every use:
\* a token is exchanged twice only by two calls that held it unspent at once.
ExchangedOnce == \A t \in Issued : secrets[t].uses > 1 => secrets[t].forked

\* A rotation lineage has one live token, unless one of its tokens was presented by
\* two calls at once.
OneLivePerFamily ==
    \A s, t \in Issued :
        s # t /\ secrets[s].family = secrets[t].family /\ Live(s) /\ Live(t)
            => \E r \in Issued : secrets[r].family = secrets[t].family /\ secrets[r].forked

\* docs/security.md: "Logout / password reset / suspension revoke sessions": what they
\* ended is not revived by a rotation that reads the token afterwards.  A call that had
\* read it before, or that commits after the query of what to end, can leave a live
\* session behind ("raced"): a defect that the README describes.
EndedSessionsStayEnded ==
    \A t \in Issued : secrets[t].kind = "session" /\ Live(t) => secrets[t].standing # "ended"

=============================================================================
