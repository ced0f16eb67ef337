-------------------------------- MODULE Images --------------------------------
(***************************************************************************)
(* The life of an image: upload or generated output, sharing, visibility,  *)
(* deletion (of the image or of the account), and the retention purge      *)
(* (backend/app/modules/uploads, gallery, users; ai_engine/tasks.py).      *)
(*                                                                         *)
(* The row is in the database, the bytes are in the object store, and no   *)
(* transaction spans the two.  A call loads a row, works on what it        *)
(* loaded, and writes the columns it changed; nothing locks the row in     *)
(* between.                                                                *)
(***************************************************************************)
EXTENDS Naturals, FiniteSets

CONSTANTS
    Users,
    Images,    \* ids, each minted by one upload or one run of a worker
    Outputs,   \* the images that workers record
    Owner,     \* Owner[i]: images.user_id
    Object,    \* Object[i]: bucket and object_key
    Content,   \* Content[i]: content_hash
    Calls,     \* API requests that can be in progress at once
    None,
    Together,  \* bound: sets of images, one of which holds all that an execution makes
    MaxLinks,  \* bound: share tokens generated
    MaxFaults  \* bound: purges that fail and deletions the store refuses

Uploads == Images \ Outputs

ASSUME ImageAssumption ==
    /\ Outputs \subseteq Images
    /\ Owner \in [Images -> Users]
    /\ DOMAIN Object = Images /\ DOMAIN Content = Images
    /\ None \notin Users \cup Images
    /\ MaxLinks \in Nat
    /\ MaxFaults \in Nat

\* An upload's key holds its id.  An output's key holds its job's: two runs of one job
\* record two images with one key.
ASSUME ObjectAssumption ==
    \A i \in Uploads, j \in Images : Object[i] = Object[j] => i = j

VARIABLES
    account, \* users.status, and how far the deletion of the account has come
    row,     \* images: committed rows
    objects, \* keys present in the object store
    saved,   \* outputs whose run has put the object
    links,   \* share tokens generated so far
    call,    \* each API request: its step and what it has loaded
    purge,   \* the run of purge_expired
    refused, \* images whose object the store refused to delete
    faults   \* faults so far

vars == <<account, row, objects, saved, links, call, purge, refused, faults>>

-----------------------------------------------------------------------------
(* Rows *)

\* Tokens, in the order in which they are generated.
Links == 0..MaxLinks
NoLink == 0

\* due is purge_after: not set, in the future, or past.  UNLISTED and PUBLIC are
\* alike everywhere, so visibility is whether the image is private.
Row == [state: {"none", "stored", "purged"}, deleted: BOOLEAN,
        due: {"never", "later", "past"}, private: BOOLEAN, link: Links]

NoRow   == [state |-> "none", deleted |-> FALSE, due |-> "never",
            private |-> TRUE, link |-> NoLink]
NewRow  == [NoRow EXCEPT !.state = "stored"]
GoneRow == [NoRow EXCEPT !.state = "purged", !.deleted = TRUE]

Live(i) == row[i].state = "stored" /\ ~row[i].deleted
Due(i)  == row[i].state = "stored" /\ row[i].deleted /\ row[i].due = "past"

StoredOf(u) == {i \in Images : Owner[i] = u /\ row[i].state = "stored"}

\* Mutant of Written: an UPDATE of every column, as it was loaded.
WrittenWhole(i, seen, new) == new

\* The row after an UPDATE of the columns in which new differs from seen, the row
\* as it was loaded.
Written(i, seen, new) ==
    [f \in DOMAIN new |-> IF new[f] # seen[f] THEN new[f] ELSE row[i][f]]

\* Mutants: purge_after forgotten, as decide_moderation in admin/service.py does;
\* deleted_at forgotten.
DeletedUndated(seen) == [seen EXCEPT !.deleted = TRUE, !.link = NoLink]
ClosedUnmarked(seen) == [seen EXCEPT !.due = "later"]

\* What each gallery operation makes of the row it loaded.
Hidden(seen) == [seen EXCEPT !.private = TRUE, !.link = NoLink]
Published(seen) == [seen EXCEPT !.private = FALSE]
Linked(seen, t) == [seen EXCEPT !.link = t]
Deleted(seen) == [seen EXCEPT !.deleted = TRUE, !.due = "later", !.link = NoLink]
Closed(seen) == [seen EXCEPT !.deleted = TRUE, !.due = "later"]

-----------------------------------------------------------------------------
Ops == {"hide", "publish", "share", "rotate", "delete"}

CallState == [pc: {"idle", "write", "dedupe", "store", "insert", "close"},
              op: Ops \cup {None}, image: Images \cup {None}, seen: Row,
              user: Users \cup {None}, found: SUBSET Images]

IdleCall == [pc |-> "idle", op |-> None, image |-> None, seen |-> NoRow,
             user |-> None, found |-> {}]

IdlePurge == [pc |-> "idle", doomed |-> {}, left |-> {}]

TypeOK ==
    /\ account \in [Users -> {"active", "deleted", "due", "scrubbed"}]
    /\ row \in [Images -> Row]
    /\ \A i \in Images : row[i].due # "never" => row[i].deleted
    /\ objects \subseteq {Object[i] : i \in Images}
    /\ saved \subseteq Outputs
    /\ links \in Links
    /\ call \in [Calls -> CallState]
    /\ \A c \in Calls : call[c].pc = "write" => call[c].image \in Images /\ call[c].op \in Ops
    /\ \A c \in Calls : call[c].pc \in {"dedupe", "store", "insert"} => call[c].image \in Uploads
    /\ \A c \in Calls : call[c].pc = "close" => call[c].user \in Users
    /\ purge \in [pc: {"idle", "run"}, doomed: SUBSET Images, left: SUBSET Images]
    /\ refused \subseteq Images
    /\ faults \in 0..MaxFaults

Init ==
    /\ account = [u \in Users |-> "active"]
    /\ row = [i \in Images |-> NoRow]
    /\ objects = {}
    /\ saved = {}
    /\ links = 0
    /\ call = [c \in Calls |-> IdleCall]
    /\ purge = IdlePurge
    /\ refused = {}
    /\ faults = 0

Goes(c, state) == call' = [call EXCEPT ![c] = state]
Ends(c) == Goes(c, IdleCall)

\* Images that have a row or an object, or an upload on the way to them.
Made == {i \in Images : \/ row[i] # NoRow \/ i \in saved
                        \/ i \in Uploads /\ Object[i] \in objects
                        \/ \E c \in Calls : call[c].image = i}

MayMake(i) == \E bound \in Together : Made \cup {i} \subseteq bound

-----------------------------------------------------------------------------
(* Upload *)

\* A multipart upload or the registration of a presigned one: authenticated, the
\* bytes read and validated.  The id is minted later but nobody else sees it.
UploadBegin(c, i) ==
    /\ call[c].pc = "idle"
    /\ account[Owner[i]] = "active"
    /\ row[i] = NoRow /\ Object[i] \notin objects
    /\ \A d \in Calls : call[d].image # i
    /\ MayMake(i)
    /\ Goes(c, [IdleCall EXCEPT !.pc = "dedupe", !.image = i])
    /\ UNCHANGED <<account, row, objects, saved, links, purge, refused, faults>>

SameContent(i) == {j \in Images : Owner[j] = Owner[i] /\ Content[j] = Content[i] /\ Live(j)}

\* Mutant of UploadScreen: the row before the object.
UploadScreenUnstored(c) ==
    /\ call[c].pc = "dedupe"
    /\ Goes(c, [call[c] EXCEPT !.pc = "insert"])
    /\ UNCHANGED <<account, row, objects, saved, links, purge, refused, faults>>

\* A known image is answered as it is.  One that the safety screening refuses raises
\* (CallFails), and the rollback takes the moderation event with it.
UploadScreen(c) ==
    LET i == call[c].image IN
    /\ call[c].pc = "dedupe"
    /\ IF SameContent(i) # {}
       THEN Ends(c)
       ELSE Goes(c, [call[c] EXCEPT !.pc = "store"])
    /\ UNCHANGED <<account, row, objects, saved, links, purge, refused, faults>>

UploadStore(c) ==
    /\ call[c].pc = "store"
    /\ objects' = objects \cup {Object[call[c].image]}
    /\ Goes(c, [call[c] EXCEPT !.pc = "insert"])
    /\ UNCHANGED <<account, row, saved, links, purge, refused, faults>>

UploadInsert(c) ==
    /\ call[c].pc = "insert"
    /\ row' = [row EXCEPT ![call[c].image] = NewRow]
    /\ Ends(c)
    /\ UNCHANGED <<account, objects, saved, links, purge, refused, faults>>

-----------------------------------------------------------------------------
(* Outputs of a worker: it looks at the job, never at the account. *)

OutputStore(i) ==
    /\ i \notin saved
    /\ MayMake(i)
    /\ objects' = objects \cup {Object[i]}
    /\ saved' = saved \cup {i}
    /\ UNCHANGED <<account, row, links, call, purge, refused, faults>>

\* Mutant of OutputInsert: the row before the object.
OutputInsertEarly(i) ==
    /\ row[i] = NoRow
    /\ row' = [row EXCEPT ![i] = NewRow]
    /\ UNCHANGED <<account, objects, saved, links, call, purge, refused, faults>>

\* The run may also end here (JobPipeline), so nothing obliges it to commit.
OutputInsert(i) ==
    /\ i \in saved /\ row[i] = NoRow
    /\ row' = [row EXCEPT ![i] = NewRow]
    /\ UNCHANGED <<account, objects, saved, links, call, purge, refused, faults>>

-----------------------------------------------------------------------------
(* Gallery *)

\* An existing link is given out again unless it is to be rotated.
NeedsLink(op, seen) == op = "rotate" \/ (op = "share" /\ seen.link = NoLink)

Outcome(op, seen) ==
    CASE op = "hide"    -> Hidden(seen)
      [] op = "publish" -> Published(seen)
      [] op = "delete"  -> Deleted(seen)
      [] op \in {"share", "rotate"} ->
           IF NeedsLink(op, seen) THEN Linked(seen, links + 1) ELSE seen

\* Authentication and get_owned: what is deleted, or belongs to a deleted account, is
\* not found, and a private image is not shared; then the call has no effect.
Load(c, op, i) ==
    /\ call[c].pc = "idle"
    /\ account[Owner[i]] = "active"
    /\ Live(i)
    /\ op \in {"share", "rotate"} => ~row[i].private
    /\ NeedsLink(op, row[i]) => links < MaxLinks
    /\ Goes(c, [IdleCall EXCEPT !.pc = "write", !.op = op, !.image = i, !.seen = row[i]])
    /\ UNCHANGED <<account, row, objects, saved, links, purge, refused, faults>>

\* The UPDATE and the commit.
Write(c) ==
    LET op == call[c].op
        i == call[c].image
        seen == call[c].seen
    IN
    /\ call[c].pc = "write"
    /\ IF NeedsLink(op, seen)
       THEN links < MaxLinks /\ links' = links + 1
       ELSE links' = links
    /\ row' = [row EXCEPT ![i] = Written(i, seen, Outcome(op, seen))]
    /\ Ends(c)
    /\ UNCHANGED <<account, objects, saved, purge, refused, faults>>

-----------------------------------------------------------------------------
(* Account deletion *)

\* soft_delete_account loads every image row of the user, the deleted ones too.
CloseBegin(c, u) ==
    /\ call[c].pc = "idle"
    /\ account[u] = "active"
    /\ Goes(c, [IdleCall EXCEPT !.pc = "close", !.user = u, !.found = StoredOf(u)])
    /\ UNCHANGED <<account, row, objects, saved, links, purge, refused, faults>>

\* A row that was purged in between cannot be updated: the call fails (CallFails) or,
\* when the updates go out as a batch, the miss is not noticed.
CloseCommit(c) ==
    /\ call[c].pc = "close"
    /\ account' = [account EXCEPT ![call[c].user] = "deleted"]
    /\ row' = [i \in Images |->
                 IF i \in call[c].found /\ row[i].state = "stored"
                 THEN Closed(row[i])
                 ELSE row[i]]
    /\ Ends(c)
    /\ UNCHANGED <<objects, saved, links, purge, refused, faults>>

\* Any call may be rolled back at any step; what it put in the store stays there.
CallFails(c) ==
    /\ call[c].pc # "idle"
    /\ Ends(c)
    /\ UNCHANGED <<account, row, objects, saved, links, purge, refused, faults>>

-----------------------------------------------------------------------------
(* Retention *)

\* The retention lasts for days, a call for seconds: none that loaded the row live
\* spans its end.
RetentionEnds(i) ==
    /\ row[i].state = "stored" /\ row[i].due = "later"
    /\ \A c \in Calls : call[c].image # i
    /\ row' = [row EXCEPT ![i] = [row[i] EXCEPT !.due = "past"]]
    /\ UNCHANGED <<account, objects, saved, links, call, purge, refused, faults>>

AccountRetentionEnds(u) ==
    /\ account[u] = "deleted"
    /\ \A c \in Calls : call[c].user # u
    /\ account' = [account EXCEPT ![u] = "due"]
    /\ UNCHANGED <<row, objects, saved, links, call, purge, refused, faults>>

\* One run of purge_expired at a time; one that finds nothing has no effect.
PurgeBegin ==
    /\ purge.pc = "idle"
    /\ (\E i \in Images : Due(i)) \/ (\E u \in Users : account[u] = "due")
    /\ LET doomed == {i \in Images : Due(i)}
       IN  purge' = [pc |-> "run", doomed |-> doomed, left |-> doomed]
    /\ UNCHANGED <<account, row, objects, saved, links, call, refused, faults>>

PurgeObject(i) ==
    /\ i \in purge.left
    /\ objects' = objects \ {Object[i]}
    /\ purge' = [purge EXCEPT !.left = purge.left \ {i}]
    /\ UNCHANGED <<account, row, saved, links, call, refused, faults>>

\* An exception of the object store is swallowed; the row goes all the same.
PurgeRefused(i) ==
    /\ i \in purge.left
    /\ faults < MaxFaults /\ faults' = faults + 1
    /\ refused' = refused \cup {i}
    /\ purge' = [purge EXCEPT !.left = purge.left \ {i}]
    /\ UNCHANGED <<account, row, objects, saved, links, call>>

\* Mutant of PurgeCommit: the rows before their objects.
PurgeCommitEarly ==
    /\ purge.pc = "run"
    /\ row' = [i \in Images |-> IF i \in purge.doomed THEN GoneRow ELSE row[i]]
    /\ purge' = IdlePurge
    /\ UNCHANGED <<account, objects, saved, links, call, refused, faults>>

PurgeCommit ==
    /\ purge.pc = "run" /\ purge.left = {}
    /\ row' = [i \in Images |-> IF i \in purge.doomed THEN GoneRow ELSE row[i]]
    /\ account' = [u \in Users |-> IF account[u] = "due" THEN "scrubbed" ELSE account[u]]
    /\ purge' = IdlePurge
    /\ UNCHANGED <<objects, saved, links, call, refused, faults>>

\* The transaction is rolled back, the objects are gone.
PurgeFails ==
    /\ purge.pc = "run"
    /\ faults < MaxFaults /\ faults' = faults + 1
    /\ purge' = IdlePurge
    /\ UNCHANGED <<account, row, objects, saved, links, call, refused>>

-----------------------------------------------------------------------------
UploadStep(c)  == (\E i \in Uploads : UploadBegin(c, i))
                  \/ UploadScreen(c) \/ UploadStore(c) \/ UploadInsert(c)
OutputStep     == \E i \in Outputs : OutputStore(i) \/ OutputInsert(i)
GalleryStep(c) == (\E op \in Ops, i \in Images : Load(c, op, i)) \/ Write(c)
AccountStep(c) == (\E u \in Users : CloseBegin(c, u)) \/ CloseCommit(c)
TimeStep       == (\E i \in Images : RetentionEnds(i))
                  \/ (\E u \in Users : AccountRetentionEnds(u))
PurgeStep      == \/ PurgeBegin \/ PurgeCommit \/ PurgeFails
                  \/ \E i \in Images : PurgeObject(i) \/ PurgeRefused(i)

Next ==
    \/ \E c \in Calls : UploadStep(c) \/ GalleryStep(c) \/ AccountStep(c) \/ CallFails(c)
    \/ OutputStep
    \/ TimeStep
    \/ PurgeStep

\* A call ends, by commit or by rollback.  Time passes.  The purge is scheduled daily
\* and goes through in the end: its failures are bounded.
Fairness ==
    /\ \A c \in Calls : WF_vars(CallFails(c))
    /\ \A i \in Images : WF_vars(RetentionEnds(i))
    /\ \A u \in Users : WF_vars(AccountRetentionEnds(u))
    /\ WF_vars(PurgeBegin) /\ WF_vars(PurgeCommit)
    /\ \A i \in Images : WF_vars(PurgeObject(i))

Spec == Init /\ [][Next]_vars
FairSpec == Spec /\ Fairness

-----------------------------------------------------------------------------
(* Properties *)

\* A job ran twice, and the purge of its other output takes the object of both.
TwinDeleted(i) == \E j \in Images \ {i} : Object[j] = Object[i] /\ row[j].deleted

\* The gallery presigns URLs for live rows without asking the store: their bytes must
\* be there.  The object is put before the insert commits, and no transaction, stale
\* write or purge takes it from a row that is still listed, except the purge of a twin:
\* a defect that the README describes.
LiveHasObject == \A i \in Images : Live(i) => Object[i] \in objects \/ TwinDeleted(i)

\* No row, and no run that may still insert one, has the key of i.
Forgotten(i) ==
    \A j \in saved \cup {i} :
        Object[j] = Object[i] => row[j].state = "purged" /\ j \notin refused

\* The purge removes the bytes before the row.  Once the last row with a key is gone,
\* nothing in the system knows the key: only a refusal of the store, or a run that put
\* the object and did not commit, may leave it behind.
PurgedIsGone == \A i \in Images : Forgotten(i) => Object[i] \notin objects

\* A deletion is final, whatever other calls loaded the row before it and write it
\* back after it; and a deleted row leaves the table by the purge alone.
DeletedStaysDeleted ==
    [][\A i \in Images :
          row[i].deleted => /\ row'[i].deleted
                            /\ row'[i].state # row[i].state => i \in purge.doomed]_vars

\* A link that was withdrawn or rotated away never opens the image again: the token
\* of a row changes only to none or to one that was never used before.
NoLinkRevived ==
    [][\A i \in Images :
          row'[i].link = row[i].link \/ row'[i].link = NoLink \/ row'[i].link > links]_vars

\* The retention promise of docs/security.md: what a user deletes, and the personal
\* data of a deleted account, are gone in the end, also after a failed purge.
DeletedIsPurged ==
    /\ \A i \in Images : row[i].deleted ~> row[i].state = "purged"
    /\ \A u \in Users : account[u] = "deleted" ~> account[u] = "scrubbed"

=============================================================================
