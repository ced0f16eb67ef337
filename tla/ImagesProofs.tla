----------------------------- MODULE ImagesProofs -----------------------------
(***************************************************************************)
(* Proofs about Images for every value of its constants.                   *)
(***************************************************************************)
EXTENDS Images, TLAPS

\* A call only writes rows that it loaded live.
LoadedLive ==
    \A c \in Calls : call[c].pc = "write" => call[c].seen.state = "stored" /\ ~call[c].seen.deleted

Typed == TypeOK /\ LoadedLive

LEMMA LinkTypes == NoLink \in Links /\ Links \subseteq Nat
  BY ImageAssumption DEF NoLink, Links

LEMMA RowTypes ==
    /\ NoRow \in Row /\ NoRow.state = "none" /\ ~NoRow.deleted /\ NoRow.link = NoLink
    /\ NewRow \in Row /\ NewRow.state = "stored" /\ ~NewRow.deleted /\ NewRow.link = NoLink
    /\ GoneRow \in Row /\ GoneRow.state = "purged" /\ GoneRow.deleted /\ GoneRow.link = NoLink
    /\ NoRow.due = "never" /\ NewRow.due = "never" /\ GoneRow.due = "never"
<1>1. /\ NoRow \in Row /\ NoRow.state = "none" /\ ~NoRow.deleted
      /\ NoRow.link = NoLink /\ NoRow.due = "never"
  BY LinkTypes DEF NoRow, Row
<1>2. /\ NewRow \in Row /\ NewRow.state = "stored" /\ ~NewRow.deleted
      /\ NewRow.link = NoLink /\ NewRow.due = "never"
  BY LinkTypes DEF NoRow, NewRow, Row
<1>3. /\ GoneRow \in Row /\ GoneRow.state = "purged" /\ GoneRow.deleted
      /\ GoneRow.link = NoLink /\ GoneRow.due = "never"
  BY LinkTypes DEF NoRow, GoneRow, Row
<1> QED
  BY <1>1, <1>2, <1>3

LEMMA CallTypes == IdleCall \in CallState /\ IdleCall.pc = "idle" /\ IdleCall.image = None
  BY RowTypes DEF IdleCall, CallState

LEMMA PurgeType ==
    IdlePurge \in [pc: {"idle", "run"}, doomed: SUBSET Images, left: SUBSET Images]
  BY DEF IdlePurge

\* What the local state of a call must satisfy.
Sound(r) ==
    /\ r \in CallState
    /\ r.pc = "write" => /\ r.image \in Images /\ r.op \in Ops
                         /\ r.seen.state = "stored" /\ ~r.seen.deleted
    /\ r.pc \in {"dedupe", "store", "insert"} => r.image \in Uploads
    /\ r.pc = "close" => r.user \in Users

\* The calls of a typed state are sound, and a sound step of one keeps them so.
LEMMA CallsSound == Typed => \A c \in Calls : Sound(call[c])
  BY DEF Typed, TypeOK, LoadedLive, Sound

CallsOK == call \in [Calls -> CallState] /\ \A c \in Calls : Sound(call[c])

LEMMA GoesSound ==
  ASSUME Typed, NEW c \in Calls, NEW r, Sound(r), Goes(c, r)
  PROVE  CallsOK'
<1>1. call' \in [Calls -> CallState]
  BY DEF Typed, TypeOK, Goes, Sound
<1>2. ASSUME NEW d \in Calls PROVE Sound(call'[d])
  <2>1. Sound(call[d])
    BY CallsSound
  <2>2. call'[d] = IF d = c THEN r ELSE call[d]
    BY DEF Typed, TypeOK, Goes
  <2> QED
    BY <2>1, <2>2
<1> QED
  BY <1>1, <1>2 DEF CallsOK

LEMMA EndsSound ==
  ASSUME Typed, NEW c \in Calls, Ends(c)
  PROVE  CallsOK'
<1>1. Sound(IdleCall)
  BY CallTypes DEF Sound
<1> QED
  BY <1>1, GoesSound DEF Ends

\* A row that keeps the invariant of rows.
RowOK(r) == r \in Row /\ (r.due # "never" => r.deleted)

\* The row that a gallery call writes: of the state it had, deleted if it was, with its
\* link, no link or a new one.
Update(i, new) ==
    /\ RowOK(new)
    /\ new.state = row[i].state
    /\ row[i].deleted => new.deleted
    /\ new.link = row[i].link \/ new.link = NoLink \/ new.link > links

LEMMA WriteRow ==
  ASSUME Typed, NEW c \in Calls, Write(c)
  PROVE  /\ call[c].image \in Images
         /\ \E r : Update(call[c].image, r) /\ row' = [row EXCEPT ![call[c].image] = r]
         /\ links' \in Links
<1> DEFINE i    == call[c].image
           op   == call[c].op
           seen == call[c].seen
           out  == Outcome(op, seen)
           new  == Written(i, seen, out)
<1>1. /\ call[c] \in CallState /\ i \in Images /\ op \in Ops
      /\ seen \in Row /\ seen.state = "stored" /\ ~seen.deleted
  BY CallsSound DEF Sound, Write, CallState
<1>2. RowOK(row[i]) /\ row[i] \in Row /\ links \in Links
  BY <1>1 DEF Typed, TypeOK, RowOK
<1>3. /\ links' \in Links
      /\ NeedsLink(op, seen) => links + 1 \in Links
  BY <1>2, ImageAssumption DEF Write, Links
<1>10. row' = [row EXCEPT ![i] = new]
  BY DEF Write
<1>4. /\ out \in Row /\ out.state = seen.state
      /\ out.due # seen.due => out.deleted
      /\ out.link = seen.link \/ out.link = NoLink \/ out.link > links
  <2>1. CASE op = "hide"
    BY <1>1, <1>2, <2>1, LinkTypes DEF Outcome, Hidden, Row
  <2>2. CASE op = "publish"
    BY <1>1, <1>2, <2>2, LinkTypes DEF Outcome, Published, Row
  <2>3. CASE op = "delete"
    BY <1>1, <1>2, <2>3, LinkTypes DEF Outcome, Deleted, Row
  <2>4. CASE op \in {"share", "rotate"}
    <3>1. CASE NeedsLink(op, seen)
      <4>1. out = Linked(seen, links + 1)
        BY <2>4, <3>1 DEF Outcome
      <4>2. links + 1 > links
        BY <1>2, LinkTypes
      <4> QED
        BY <1>1, <1>3, <3>1, <4>1, <4>2 DEF Linked, Row
    <3>2. CASE ~NeedsLink(op, seen)
      BY <1>1, <2>4, <3>2 DEF Outcome
    <3> QED
      BY <3>1, <3>2
  <2> QED
    BY <1>1, <2>1, <2>2, <2>3, <2>4 DEF Ops
<1> HIDE DEF out
<1> DEFINE val(f) == IF out[f] # seen[f] THEN out[f] ELSE row[i][f]
<1>5. /\ val("state") = row[i].state /\ val("state") \in {"none", "stored", "purged"}
      /\ val("deleted") \in BOOLEAN
      /\ (val("due") = out.due /\ out.due # seen.due) \/ val("due") = row[i].due
      /\ val("due") \in {"never", "later", "past"}
      /\ val("private") \in BOOLEAN
      /\ val("link") = row[i].link \/ (val("link") = out.link /\ out.link # seen.link)
      /\ val("link") \in Links
  <2>1. val("state") = row[i].state /\ val("state") \in {"none", "stored", "purged"}
    BY <1>1, <1>2, <1>4 DEF Row
  <2>2. val("deleted") \in BOOLEAN /\ val("private") \in BOOLEAN
    BY <1>2, <1>4 DEF Row
  <2>3. /\ (val("due") = out.due /\ out.due # seen.due) \/ val("due") = row[i].due
        /\ val("due") \in {"never", "later", "past"}
    BY <1>2, <1>4 DEF Row
  <2>4. /\ val("link") = row[i].link \/ (val("link") = out.link /\ out.link # seen.link)
        /\ val("link") \in Links
    BY <1>2, <1>4 DEF Row
  <2> QED
    BY <2>1, <2>2, <2>3, <2>4
<1>6. out.deleted \/ row[i].deleted => val("deleted")
  <2>1. CASE out.deleted = seen.deleted
    BY <1>1, <2>1
  <2>2. CASE out.deleted # seen.deleted
    BY <1>1, <1>4, <2>2 DEF Row
  <2> QED
    BY <2>1, <2>2
<1>7. new = [f \in DOMAIN out |-> val(f)] /\ DOMAIN out = {"state", "deleted", "due", "private", "link"}
  BY <1>4 DEF Written, Row
<1> HIDE DEF val, new
<1>8. /\ new \in Row
      /\ new.state = val("state") /\ new.deleted = val("deleted")
      /\ new.due = val("due") /\ new.link = val("link")
  BY <1>5, <1>7 DEF Row
<1>9. Update(i, new)
  BY <1>2, <1>4, <1>5, <1>6, <1>8 DEF Update, RowOK
<1> QED
  BY <1>1, <1>3, <1>9, <1>10

-----------------------------------------------------------------------------
(* Type correctness.                                                       *)

RowsOK == row \in [Images -> Row] /\ \A i \in Images : RowOK(row[i])

RestOK ==
    /\ account \in [Users -> {"active", "deleted", "due", "scrubbed"}]
    /\ objects \subseteq {Object[i] : i \in Images}
    /\ saved \subseteq Outputs
    /\ links \in Links
    /\ purge \in [pc: {"idle", "run"}, doomed: SUBSET Images, left: SUBSET Images]
    /\ refused \subseteq Images
    /\ faults \in 0..MaxFaults

LEMMA PartsOK == Typed => CallsOK /\ RowsOK /\ RestOK
<1> SUFFICES ASSUME Typed PROVE CallsOK /\ RowsOK /\ RestOK
  OBVIOUS
<1>1. CallsOK
  BY CallsSound DEF Typed, TypeOK, CallsOK
<1>2. RowsOK
  BY DEF Typed, TypeOK, RowsOK, RowOK
<1>3. RestOK
  BY DEF Typed, TypeOK, RestOK
<1> QED
  BY <1>1, <1>2, <1>3

LEMMA PartsSuffice == CallsOK' /\ RowsOK' /\ RestOK' => Typed'
<1> SUFFICES ASSUME CallsOK', RowsOK', RestOK' PROVE Typed'
  OBVIOUS
<1>1. LoadedLive'
  BY DEF CallsOK, Sound, LoadedLive
<1>2. TypeOK'
  <2>1. /\ \A c \in Calls : call'[c].pc = "write" => call'[c].image \in Images /\ call'[c].op \in Ops
        /\ \A c \in Calls : call'[c].pc \in {"dedupe", "store", "insert"} => call'[c].image \in Uploads
        /\ \A c \in Calls : call'[c].pc = "close" => call'[c].user \in Users
    BY DEF CallsOK, Sound
  <2> QED
    BY <2>1 DEF CallsOK, RowsOK, RowOK, RestOK, TypeOK
<1> QED
  BY <1>1, <1>2 DEF Typed

LEMMA CallsStay == CallsOK /\ call' = call => CallsOK'
  BY DEF CallsOK

LEMMA RowsStay == RowsOK /\ row' = row => RowsOK'
  BY DEF RowsOK

LEMMA RowSet ==
  ASSUME RowsOK, NEW i \in Images, NEW r, RowOK(r), row' = [row EXCEPT ![i] = r]
  PROVE  RowsOK'
<1>1. r \in Row
  BY DEF RowOK
<1>2. row' \in [Images -> Row]
  BY <1>1 DEF RowsOK
<1>3. ASSUME NEW j \in Images PROVE RowOK(row'[j])
  BY DEF RowsOK
<1> QED
  BY <1>2, <1>3 DEF RowsOK

LEMMA TypeInit == Init => Typed
<1> SUFFICES ASSUME Init PROVE Typed
  OBVIOUS
<1>1. call \in [Calls -> CallState] /\ \A c \in Calls : call[c].pc = "idle"
  BY CallTypes DEF Init
<1>2. row \in [Images -> Row] /\ \A i \in Images : row[i].due = "never"
  BY RowTypes DEF Init
<1>3. purge \in [pc: {"idle", "run"}, doomed: SUBSET Images, left: SUBSET Images]
  BY PurgeType DEF Init
<1>4. /\ account \in [Users -> {"active", "deleted", "due", "scrubbed"}]
      /\ objects \subseteq {Object[i] : i \in Images} /\ saved \subseteq Outputs
      /\ refused \subseteq Images
  BY DEF Init
<1>5. links \in Links /\ faults \in 0..MaxFaults
  BY ImageAssumption DEF Init, Links
<1> QED
  BY <1>1, <1>2, <1>3, <1>4, <1>5 DEF Typed, TypeOK, LoadedLive

\* A call that goes on with the same image, found set and loaded row is sound.
LEMMA UploadGoesSound ==
  ASSUME Typed, NEW c \in Calls, call[c].pc \in {"dedupe", "store", "insert"},
         NEW p \in {"store", "insert"}
  PROVE  Sound([call[c] EXCEPT !.pc = p])
<1>1. call[c] \in CallState /\ call[c].image \in Uploads
  BY CallsSound DEF Sound
<1> QED
  BY <1>1 DEF Sound, CallState

LEMMA UploadTyped ==
  ASSUME Typed, NEW c \in Calls, UploadStep(c)
  PROVE  Typed'
<1> USE PartsOK
<1>1. ASSUME NEW i \in Uploads, UploadBegin(c, i) PROVE Typed'
  <2>1. Sound([IdleCall EXCEPT !.pc = "dedupe", !.image = i])
    BY CallTypes DEF Sound, CallState, Uploads
  <2>2. CallsOK'
    BY <1>1, <2>1, GoesSound DEF UploadBegin
  <2>3. RowsOK' /\ RestOK'
    BY <1>1, RowsStay DEF UploadBegin, RestOK
  <2> QED
    BY <2>2, <2>3, PartsSuffice
<1>2. CASE UploadScreen(c)
  <2>1. CallsOK'
    BY <1>2, EndsSound, UploadGoesSound, GoesSound DEF UploadScreen
  <2>2. RowsOK' /\ RestOK'
    BY <1>2, RowsStay DEF UploadScreen, RestOK
  <2> QED
    BY <2>1, <2>2, PartsSuffice
<1>3. CASE UploadStore(c)
  <2>1. CallsOK'
    BY <1>3, UploadGoesSound, GoesSound DEF UploadStore
  <2>2. call[c].image \in Images
    BY <1>3, CallsSound DEF UploadStore, Sound, Uploads
  <2>3. RowsOK' /\ RestOK'
    BY <1>3, <2>2, RowsStay DEF UploadStore, RestOK
  <2> QED
    BY <2>1, <2>3, PartsSuffice
<1>4. CASE UploadInsert(c)
  <2>1. CallsOK'
    BY <1>4, EndsSound DEF UploadInsert
  <2>2. call[c].image \in Images
    BY <1>4, CallsSound DEF UploadInsert, Sound, Uploads
  <2>3. RowsOK'
    BY <1>4, <2>2, RowSet, RowTypes DEF UploadInsert, RowOK
  <2>4. RestOK'
    BY <1>4 DEF UploadInsert, RestOK
  <2> QED
    BY <2>1, <2>3, <2>4, PartsSuffice
<1> QED
  BY <1>1, <1>2, <1>3, <1>4 DEF UploadStep

LEMMA OutputTyped ==
  ASSUME Typed, OutputStep
  PROVE  Typed'
<1> USE PartsOK
<1>1. ASSUME NEW i \in Outputs, OutputStore(i) PROVE Typed'
  <2>1. CallsOK' /\ RowsOK'
    BY <1>1, CallsStay, RowsStay DEF OutputStore
  <2>2. RestOK'
    BY <1>1, ImageAssumption DEF OutputStore, RestOK
  <2> QED
    BY <2>1, <2>2, PartsSuffice
<1>2. ASSUME NEW i \in Outputs, OutputInsert(i) PROVE Typed'
  <2>1. CallsOK' /\ RestOK'
    BY <1>2, CallsStay DEF OutputInsert, RestOK
  <2>2. RowsOK'
    BY <1>2, ImageAssumption, RowSet, RowTypes DEF OutputInsert, RowOK
  <2> QED
    BY <2>1, <2>2, PartsSuffice
<1> QED
  BY <1>1, <1>2 DEF OutputStep

LEMMA GalleryTyped ==
  ASSUME Typed, NEW c \in Calls, GalleryStep(c)
  PROVE  Typed'
<1> USE PartsOK
<1>1. ASSUME NEW op \in Ops, NEW i \in Images, Load(c, op, i) PROVE Typed'
  <2> DEFINE r == [IdleCall EXCEPT !.pc = "write", !.op = op, !.image = i, !.seen = row[i]]
  <2>1. row[i] \in Row /\ row[i].state = "stored" /\ ~row[i].deleted
    BY <1>1 DEF Load, Live, RowsOK
  <2>2. Sound(r)
    <3>1. r \in CallState
      BY <2>1, CallTypes DEF CallState
    <3>2. r.pc = "write" /\ r.op = op /\ r.image = i /\ r.seen = row[i]
      BY CallTypes DEF CallState
    <3> QED
      BY <2>1, <3>1, <3>2 DEF Sound
  <2>3. CallsOK'
    BY <1>1, <2>2, GoesSound DEF Load
  <2>4. RowsOK' /\ RestOK'
    BY <1>1, RowsStay DEF Load, RestOK
  <2> QED
    BY <2>3, <2>4, PartsSuffice
<1>2. CASE Write(c)
  <2>1. CallsOK'
    BY <1>2, EndsSound DEF Write
  <2>2. RowsOK' /\ links' \in Links
    BY <1>2, WriteRow, RowSet DEF Update
  <2>3. RestOK'
    BY <1>2, <2>2 DEF Write, RestOK
  <2> QED
    BY <2>1, <2>2, <2>3, PartsSuffice
<1> QED
  BY <1>1, <1>2 DEF GalleryStep

LEMMA ClosedType ==
  ASSUME NEW r, RowOK(r)
  PROVE  RowOK(Closed(r)) /\ Closed(r).state = r.state /\ Closed(r).deleted /\ Closed(r).link = r.link
  BY DEF RowOK, Row, Closed

LEMMA AccountTyped ==
  ASSUME Typed, NEW c \in Calls, AccountStep(c)
  PROVE  Typed'
<1> USE PartsOK
<1>1. ASSUME NEW u \in Users, CloseBegin(c, u) PROVE Typed'
  <2>1. StoredOf(u) \in SUBSET Images
    BY DEF StoredOf
  <2>2. Sound([IdleCall EXCEPT !.pc = "close", !.user = u, !.found = StoredOf(u)])
    BY <2>1, CallTypes DEF Sound, CallState
  <2>3. CallsOK'
    BY <1>1, <2>2, GoesSound DEF CloseBegin
  <2>4. RowsOK' /\ RestOK'
    BY <1>1, RowsStay DEF CloseBegin, RestOK
  <2> QED
    BY <2>3, <2>4, PartsSuffice
<1>2. CASE CloseCommit(c)
  <2>1. CallsOK'
    BY <1>2, EndsSound DEF CloseCommit
  <2>2. \A i \in Images : RowOK(row[i]) /\ RowOK(Closed(row[i]))
    BY ClosedType DEF RowsOK
  <2>3. RowsOK'
    BY <1>2, <2>2 DEF CloseCommit, RowsOK, RowOK
  <2>4. RestOK'
    BY <1>2 DEF CloseCommit, RestOK
  <2> QED
    BY <2>1, <2>3, <2>4, PartsSuffice
<1> QED
  BY <1>1, <1>2 DEF AccountStep

LEMMA FailTyped ==
  ASSUME Typed, NEW c \in Calls, CallFails(c)
  PROVE  Typed'
<1> USE PartsOK
<1>1. CallsOK' /\ RowsOK'
  BY EndsSound, RowsStay DEF CallFails
<1>2. RestOK'
  BY DEF CallFails, RestOK
<1> QED
  BY <1>1, <1>2, PartsSuffice

LEMMA TimeTyped ==
  ASSUME Typed, TimeStep
  PROVE  Typed'
<1> USE PartsOK
<1>1. ASSUME NEW i \in Images, RetentionEnds(i) PROVE Typed'
  <2>1. CallsOK' /\ RestOK'
    BY <1>1, CallsStay DEF RetentionEnds, RestOK
  <2>2. RowOK(row[i]) /\ row[i].due = "later"
    BY <1>1 DEF RetentionEnds, RowsOK
  <2>3. RowOK([row[i] EXCEPT !.due = "past"])
    BY <2>2 DEF RowOK, Row
  <2>4. RowsOK'
    BY <1>1, <2>3, RowSet DEF RetentionEnds
  <2> QED
    BY <2>1, <2>4, PartsSuffice
<1>2. ASSUME NEW u \in Users, AccountRetentionEnds(u) PROVE Typed'
  <2>1. CallsOK' /\ RowsOK'
    BY <1>2, CallsStay, RowsStay DEF AccountRetentionEnds
  <2>2. RestOK'
    BY <1>2 DEF AccountRetentionEnds, RestOK
  <2> QED
    BY <2>1, <2>2, PartsSuffice
<1> QED
  BY <1>1, <1>2 DEF TimeStep

LEMMA PurgeTyped ==
  ASSUME Typed, PurgeStep
  PROVE  Typed'
<1> USE PartsOK
<1>1. CASE PurgeBegin
  <2>1. CallsOK' /\ RowsOK'
    BY <1>1, CallsStay, RowsStay DEF PurgeBegin
  <2>2. RestOK'
    BY <1>1 DEF PurgeBegin, RestOK
  <2> QED
    BY <2>1, <2>2, PartsSuffice
<1>2. ASSUME NEW i \in Images, PurgeObject(i) \/ PurgeRefused(i) PROVE Typed'
  <2>1. CallsOK' /\ RowsOK'
    BY <1>2, CallsStay, RowsStay DEF PurgeObject, PurgeRefused
  <2>2. faults' \in 0..MaxFaults
    BY <1>2, ImageAssumption DEF PurgeObject, PurgeRefused, RestOK
  <2>3. purge' \in [pc: {"idle", "run"}, doomed: SUBSET Images, left: SUBSET Images]
    BY <1>2 DEF PurgeObject, PurgeRefused, RestOK
  <2>4. RestOK'
    BY <1>2, <2>2, <2>3 DEF PurgeObject, PurgeRefused, RestOK
  <2> QED
    BY <2>1, <2>4, PartsSuffice
<1>3. CASE PurgeCommit
  <2>1. CallsOK'
    BY <1>3, CallsStay DEF PurgeCommit
  <2>2. RowOK(GoneRow)
    BY RowTypes DEF RowOK
  <2>3. RowsOK'
    BY <1>3, <2>2 DEF PurgeCommit, RowsOK, RowOK
  <2>4. RestOK'
    BY <1>3, PurgeType DEF PurgeCommit, RestOK
  <2> QED
    BY <2>1, <2>3, <2>4, PartsSuffice
<1>4. CASE PurgeFails
  <2>1. CallsOK' /\ RowsOK'
    BY <1>4, CallsStay, RowsStay DEF PurgeFails
  <2>2. faults' \in 0..MaxFaults
    BY <1>4, ImageAssumption DEF PurgeFails, RestOK
  <2>3. RestOK'
    BY <1>4, <2>2, PurgeType DEF PurgeFails, RestOK
  <2> QED
    BY <2>1, <2>3, PartsSuffice
<1> QED
  BY <1>1, <1>2, <1>3, <1>4 DEF PurgeStep

\* Every variable keeps its type: a call is at a step that its record fits, a date for
\* the purge is only on a deleted row.
THEOREM TypedCorrect == Spec => []Typed
<1>1. Typed /\ [Next]_vars => Typed'
  <2> SUFFICES ASSUME Typed, [Next]_vars PROVE Typed'
    OBVIOUS
  <2>1. CASE UNCHANGED vars
    BY <2>1 DEF vars, Typed, TypeOK, LoadedLive
  <2> QED
    BY <2>1, UploadTyped, OutputTyped, GalleryTyped, AccountTyped, FailTyped, TimeTyped,
       PurgeTyped DEF Next
<1> QED
  BY <1>1, TypeInit, PTL DEF Spec

\* What the run checks as TypeOK, for every value of the constants.
THEOREM TypeCorrect == Spec => []TypeOK
<1>1. Typed => TypeOK
  BY DEF Typed
<1> QED
  BY <1>1, TypedCorrect, PTL

-----------------------------------------------------------------------------
(* Rows and objects.                                                       *)

UploadPc == {"dedupe", "store", "insert"}

\* An upload's id has no row yet and is nobody else's; a call writes to a row that is
\* or was there.
UploadAlone ==
    \A c \in Calls :
        /\ call[c].pc \in UploadPc =>
              /\ row[call[c].image] = NoRow
              /\ \A d \in Calls : call[d].image = call[c].image => d = c
        /\ call[c].pc = "write" => row[call[c].image].state # "none"

\* What is about to be inserted has been put.
PutFirst ==
    /\ \A c \in Calls : call[c].pc = "insert" => Object[call[c].image] \in objects
    /\ \A i \in saved : row[i].state = "none" => Object[i] \in objects \/ TwinDeleted(i)

OutputsFresh == \A i \in Outputs \ saved : row[i].state = "none"

\* The purge works on deleted rows.
PurgeSound ==
    /\ purge.left \subseteq purge.doomed
    /\ \A i \in purge.doomed : row[i].state = "stored" /\ row[i].deleted

\* The purge has dealt with the object of i.
Cleared(i) == row[i].state = "purged" \/ i \in purge.doomed \ purge.left

\* Every object belongs to an image that was put and not yet cleared, or refused.
Keeps(i) == i \in Uploads \cup saved /\ (Cleared(i) => i \in refused)
Owned == \A k \in objects : \E i \in Images : Object[i] = k /\ Keeps(i)

ImageInv ==
    /\ Typed
    /\ UploadAlone /\ PutFirst /\ OutputsFresh /\ PurgeSound
    /\ Owned /\ LiveHasObject

\* What a step may do to a row: keep its state, insert it, or purge it.
Kept(i) ==
    /\ row'[i].state = row[i].state
    /\ row[i].deleted => row'[i].deleted
    /\ row[i].state = "none" => row'[i] = row[i]
    /\ row'[i].link = row[i].link \/ row'[i].link = NoLink \/ row'[i].link > links

Inserted(i) ==
    /\ row[i] = NoRow /\ row'[i] = NewRow
    /\ Object[i] \in objects \/ TwinDeleted(i)
    /\ objects' = objects
    /\ i \in Uploads \/ i \in saved
    /\ \A c \in Calls : call[c].pc \in UploadPc /\ call[c].image = i => call'[c] = IdleCall

Removed(i) ==
    /\ row'[i] = GoneRow
    /\ i \in purge.doomed /\ purge.left = {} /\ purge' = IdlePurge
    /\ objects' = objects /\ refused' = refused

RowStep == \A i \in Images : Kept(i) \/ Inserted(i) \/ Removed(i)

\* What a step may do to the objects: put that of an image without a row, delete one of
\* the purge.
Put(k) ==
    /\ row' = row /\ purge' = purge
    /\ \E i \in Images : Object[i] = k /\ row[i].state = "none" /\ i \in Uploads \cup saved'

ObjectStep ==
    /\ \A k \in objects' \ objects : Put(k)
    /\ \A k \in objects \ objects' : \E i \in purge.left : Object[i] = k

Effects == RowStep /\ ObjectStep /\ refused \subseteq refused'

LEMMA NothingDone == row' = row /\ objects' = objects /\ refused' = refused => Effects
  BY DEF Effects, RowStep, ObjectStep, Kept

LEMMA UploadEffects ==
  ASSUME ImageInv, NEW c \in Calls, UploadStep(c)
  PROVE  Effects
<1>1. ASSUME NEW i \in Uploads, UploadBegin(c, i) PROVE Effects
  BY <1>1, NothingDone DEF UploadBegin
<1>2. CASE UploadScreen(c)
  BY <1>2, NothingDone DEF UploadScreen
<1> DEFINE i == call[c].image
<1>3. ASSUME call[c].pc \in UploadPc
      PROVE  /\ i \in Images /\ i \in Uploads /\ row[i] = NoRow
             /\ \A d \in Calls : call[d].image = i => d = c
  BY <1>3, CallsSound DEF ImageInv, UploadAlone, Sound, Uploads, UploadPc
<1>4. CASE UploadStore(c)
  <2>1. row' = row /\ purge' = purge /\ refused' = refused /\ objects' = objects \cup {Object[i]}
    BY <1>4 DEF UploadStore
  <2>2. i \in Images /\ i \in Uploads /\ row[i].state = "none"
    BY <1>3, <1>4, RowTypes DEF UploadStore, UploadPc
  <2>3. ObjectStep
    BY <2>1, <2>2 DEF ObjectStep, Put
  <2> QED
    BY <2>1, <2>3 DEF Effects, RowStep, Kept
<1>5. CASE UploadInsert(c)
  <2>1. /\ objects' = objects /\ refused' = refused
        /\ row' = [row EXCEPT ![i] = NewRow] /\ Ends(c)
    BY <1>5 DEF UploadInsert
  <2>2. call[c].pc = "insert" /\ i \in Images /\ i \in Uploads /\ row[i] = NoRow
    BY <1>3, <1>5 DEF UploadInsert, UploadPc
  <2>3. row \in [Images -> Row] /\ call \in [Calls -> CallState]
    BY DEF ImageInv, Typed, TypeOK
  <2>4. Inserted(i)
    <3>1. Object[i] \in objects
      BY <2>2 DEF ImageInv, PutFirst
    <3>2. call'[c] = IdleCall
      BY <2>1, <2>3 DEF Ends, Goes
    <3>3. \A d \in Calls : call[d].image = i => d = c
      BY <1>3, <2>2 DEF UploadPc
    <3>4. row'[i] = NewRow
      BY <2>1, <2>2, <2>3
    <3> QED
      BY <2>1, <2>2, <3>1, <3>2, <3>3, <3>4 DEF Inserted
  <2>5. \A j \in Images \ {i} : row'[j] = row[j]
    BY <2>1, <2>3
  <2>6. RowStep
    BY <2>4, <2>5 DEF RowStep, Kept
  <2> QED
    BY <2>1, <2>6 DEF Effects, ObjectStep
<1> QED
  BY <1>1, <1>2, <1>4, <1>5 DEF UploadStep

LEMMA OutputEffects ==
  ASSUME ImageInv, OutputStep
  PROVE  Effects
<1>1. ASSUME NEW i \in Outputs, OutputStore(i) PROVE Effects
  <2>1. /\ row' = row /\ purge' = purge /\ refused' = refused
        /\ objects' = objects \cup {Object[i]} /\ i \notin saved /\ i \in saved'
    BY <1>1 DEF OutputStore
  <2>2. i \in Images /\ row[i].state = "none"
    BY <2>1, ImageAssumption DEF ImageInv, OutputsFresh
  <2>3. ObjectStep
    BY <2>1, <2>2 DEF ObjectStep, Put
  <2> QED
    BY <2>1, <2>3 DEF Effects, RowStep, Kept
<1>2. ASSUME NEW i \in Outputs, OutputInsert(i) PROVE Effects
  <2>1. /\ objects' = objects /\ refused' = refused /\ i \in saved
        /\ row[i] = NoRow /\ row' = [row EXCEPT ![i] = NewRow]
    BY <1>2 DEF OutputInsert
  <2>2. row \in [Images -> Row] /\ i \in Images
    BY ImageAssumption DEF ImageInv, Typed, TypeOK
  <2>3. Object[i] \in objects \/ TwinDeleted(i)
    BY <2>1, RowTypes DEF ImageInv, PutFirst
  <2>4. \A c \in Calls : ~(call[c].pc \in UploadPc /\ call[c].image = i)
    BY CallsSound DEF ImageInv, Sound, UploadPc, Uploads
  <2>5. Inserted(i)
    BY <2>1, <2>2, <2>3, <2>4 DEF Inserted
  <2>6. \A j \in Images \ {i} : row'[j] = row[j]
    BY <2>1, <2>2
  <2>7. RowStep
    BY <2>5, <2>6 DEF RowStep, Kept
  <2> QED
    BY <2>1, <2>7 DEF Effects, ObjectStep
<1> QED
  BY <1>1, <1>2 DEF OutputStep

LEMMA GalleryEffects ==
  ASSUME ImageInv, NEW c \in Calls, GalleryStep(c)
  PROVE  Effects
<1>1. ASSUME NEW op \in Ops, NEW i \in Images, Load(c, op, i) PROVE Effects
  BY <1>1, NothingDone DEF Load
<1>2. CASE Write(c)
  <2> DEFINE i == call[c].image
  <2>1. objects' = objects /\ refused' = refused /\ call[c].pc = "write"
    BY <1>2 DEF Write
  <2>2. i \in Images /\ row[i].state # "none" /\ row \in [Images -> Row]
    BY <1>2, <2>1, WriteRow DEF ImageInv, UploadAlone, Typed, TypeOK
  <2>3. PICK r : Update(i, r) /\ row' = [row EXCEPT ![i] = r]
    BY <1>2, WriteRow DEF ImageInv
  <2>4. row'[i] = r /\ \A j \in Images \ {i} : row'[j] = row[j]
    BY <2>2, <2>3
  <2>5. Kept(i)
    BY <2>2, <2>3, <2>4 DEF Kept, Update
  <2>6. RowStep
    BY <2>4, <2>5 DEF RowStep, Kept
  <2> QED
    BY <2>1, <2>6 DEF Effects, ObjectStep
<1> QED
  BY <1>1, <1>2 DEF GalleryStep

LEMMA AccountEffects ==
  ASSUME ImageInv, NEW c \in Calls, AccountStep(c)
  PROVE  Effects
<1>1. ASSUME NEW u \in Users, CloseBegin(c, u) PROVE Effects
  BY <1>1, NothingDone DEF CloseBegin
<1>2. CASE CloseCommit(c)
  <2>1. objects' = objects /\ refused' = refused
    BY <1>2 DEF CloseCommit
  <2>2. ASSUME NEW i \in Images PROVE Kept(i)
    <3>1. RowOK(row[i])
      BY PartsOK DEF ImageInv, RowsOK
    <3>2. row'[i] = row[i] \/ (row[i].state = "stored" /\ row'[i] = Closed(row[i]))
      BY <1>2 DEF CloseCommit
    <3> QED
      BY <3>1, <3>2, ClosedType DEF Kept
  <2> QED
    BY <2>1, <2>2 DEF Effects, RowStep, ObjectStep
<1> QED
  BY <1>1, <1>2 DEF AccountStep

LEMMA TimeEffects ==
  ASSUME ImageInv, TimeStep
  PROVE  Effects
<1>1. ASSUME NEW i \in Images, RetentionEnds(i) PROVE Effects
  <2>1. /\ objects' = objects /\ refused' = refused /\ row[i].state = "stored"
        /\ row' = [row EXCEPT ![i] = [row[i] EXCEPT !.due = "past"]]
    BY <1>1 DEF RetentionEnds
  <2>2. row \in [Images -> Row]
    BY DEF ImageInv, Typed, TypeOK
  <2>3. row'[i] = [row[i] EXCEPT !.due = "past"] /\ \A j \in Images \ {i} : row'[j] = row[j]
    BY <2>1, <2>2
  <2>4. Kept(i)
    BY <2>1, <2>2, <2>3 DEF Kept, Row
  <2>5. RowStep
    BY <2>3, <2>4 DEF RowStep, Kept
  <2> QED
    BY <2>1, <2>5 DEF Effects, ObjectStep
<1>2. ASSUME NEW u \in Users, AccountRetentionEnds(u) PROVE Effects
  BY <1>2, NothingDone DEF AccountRetentionEnds
<1> QED
  BY <1>1, <1>2 DEF TimeStep

LEMMA PurgeEffects ==
  ASSUME ImageInv, PurgeStep
  PROVE  Effects
<1>1. CASE PurgeBegin \/ PurgeFails
  BY <1>1, NothingDone DEF PurgeBegin, PurgeFails
<1>2. ASSUME NEW i \in Images, PurgeObject(i) PROVE Effects
  <2>1. row' = row /\ refused' = refused /\ objects' = objects \ {Object[i]} /\ i \in purge.left
    BY <1>2 DEF PurgeObject
  <2>2. ObjectStep
    BY <2>1 DEF ObjectStep
  <2> QED
    BY <2>1, <2>2 DEF Effects, RowStep, Kept
<1>3. ASSUME NEW i \in Images, PurgeRefused(i) PROVE Effects
  BY <1>3 DEF PurgeRefused, Effects, RowStep, ObjectStep, Kept
<1>4. CASE PurgeCommit
  <2>1. /\ objects' = objects /\ refused' = refused /\ purge.left = {} /\ purge' = IdlePurge
        /\ row' = [i \in Images |-> IF i \in purge.doomed THEN GoneRow ELSE row[i]]
    BY <1>4 DEF PurgeCommit
  <2>2. ASSUME NEW i \in Images PROVE Kept(i) \/ Removed(i)
    BY <2>1 DEF Kept, Removed
  <2> QED
    BY <2>1, <2>2 DEF Effects, RowStep, ObjectStep
<1> QED
  BY <1>1, <1>2, <1>3, <1>4 DEF PurgeStep

LEMMA StepEffects ==
  ASSUME ImageInv, [Next]_vars
  PROVE  Effects
<1>1. CASE UNCHANGED vars
  BY <1>1, NothingDone DEF vars
<1>2. ASSUME NEW c \in Calls, CallFails(c) PROVE Effects
  BY <1>2, NothingDone DEF CallFails
<1> QED
  BY <1>1, <1>2, UploadEffects, OutputEffects, GalleryEffects, AccountEffects, TimeEffects,
     PurgeEffects DEF Next

-----------------------------------------------------------------------------
(* The invariant is inductive.                                             *)

LEMMA TwinStaysDeleted ==
  ASSUME ImageInv, Effects, NEW i \in Images, TwinDeleted(i)
  PROVE  TwinDeleted(i)'
<1>1. PICK j \in Images \ {i} : Object[j] = Object[i] /\ row[j].deleted
  BY DEF TwinDeleted
<1>2. ~Inserted(j)
  BY <1>1, RowTypes DEF Inserted
<1>3. row'[j].deleted
  BY <1>1, <1>2, RowTypes DEF Effects, RowStep, Kept, Removed
<1> QED
  BY <1>1, <1>3 DEF TwinDeleted

\* The purge takes an object from a row that it does not purge only as the twin's.
LEMMA ObjectStays ==
  ASSUME ImageInv, Effects, NEW i \in Images, i \notin purge.left, Object[i] \in objects
  PROVE  Object[i] \in objects' \/ TwinDeleted(i)'
<1> SUFFICES ASSUME Object[i] \notin objects' PROVE TwinDeleted(i)'
  OBVIOUS
<1>1. PICK j \in purge.left : Object[j] = Object[i]
  BY DEF Effects, ObjectStep
<1>2. j \in Images \ {i} /\ row[j].deleted
  BY DEF ImageInv, PurgeSound, Typed, TypeOK
<1>3. TwinDeleted(i)
  BY <1>1, <1>2 DEF TwinDeleted
<1> QED
  BY <1>3, TwinStaysDeleted

LEMMA LiveKeepsObject ==
  ASSUME ImageInv, Effects
  PROVE  LiveHasObject'
<1> SUFFICES ASSUME NEW i \in Images, Live(i)' PROVE Object[i] \in objects' \/ TwinDeleted(i)'
  BY DEF LiveHasObject
<1>1. row'[i].state = "stored" /\ ~row'[i].deleted
  BY DEF Live
<1>2. CASE Kept(i)
  <2>1. Live(i)
    BY <1>1, <1>2 DEF Kept, Live
  <2>2. i \notin purge.left /\ (Object[i] \in objects \/ TwinDeleted(i))
    BY <2>1 DEF ImageInv, LiveHasObject, PurgeSound, Live
  <2> QED
    BY <2>2, ObjectStays, TwinStaysDeleted
<1>3. CASE Inserted(i)
  BY <1>3, TwinStaysDeleted DEF Inserted
<1>4. CASE Removed(i)
  BY <1>1, <1>4, RowTypes DEF Removed
<1> QED
  BY <1>2, <1>3, <1>4 DEF Effects, RowStep

\* An object of no owner is not there.
LEMMA OwnedIsGone == ImageInv => PurgedIsGone
<1> SUFFICES ASSUME ImageInv, NEW i \in Images, Forgotten(i), Object[i] \in objects
             PROVE  FALSE
  BY DEF PurgedIsGone
<1>1. PICK j \in Images : Object[j] = Object[i] /\ Keeps(j)
  BY DEF ImageInv, Owned
<1>2. j \in saved \cup {i}
  BY <1>1, ObjectAssumption DEF Keeps
<1> QED
  BY <1>1, <1>2 DEF Forgotten, Keeps, Cleared

LEMMA OutputsStayFresh ==
  ASSUME ImageInv, Effects, saved \subseteq saved'
  PROVE  OutputsFresh'
<1> SUFFICES ASSUME NEW i \in Outputs, i \notin saved' PROVE row'[i].state = "none"
  BY DEF OutputsFresh
<1>1. i \in Images /\ i \notin Uploads /\ i \notin saved /\ row[i].state = "none"
  BY ImageAssumption DEF ImageInv, OutputsFresh, Uploads
<1>2. ~Inserted(i)
  BY <1>1 DEF Inserted
<1>3. ~Removed(i)
  BY <1>1 DEF Removed, ImageInv, PurgeSound
<1> QED
  BY <1>1, <1>2, <1>3 DEF Effects, RowStep, Kept

\* While the purge goes on with the same rows, they stay what they are.
LEMMA DoomedStays ==
  ASSUME ImageInv, Effects, purge'.doomed = purge.doomed, purge'.left \subseteq purge.left
  PROVE  PurgeSound'
<1>1. purge'.left \subseteq purge'.doomed
  BY DEF ImageInv, PurgeSound
<1>2. purge.doomed \subseteq Images
  BY DEF ImageInv, Typed, TypeOK
<1>3. ASSUME NEW i \in purge.doomed
      PROVE  \/ row'[i].state = "stored" /\ row'[i].deleted
             \/ purge' = IdlePurge
  <2>1. i \in Images /\ row[i].state = "stored" /\ row[i].deleted
    BY <1>2 DEF ImageInv, PurgeSound
  <2>2. ~Inserted(i)
    BY <2>1, RowTypes DEF Inserted
  <2>3. CASE Kept(i)
    BY <2>1, <2>3 DEF Kept
  <2>4. CASE Removed(i)
    BY <2>4 DEF Removed
  <2> QED
    BY <2>1, <2>2, <2>3, <2>4 DEF Effects, RowStep
<1>4. purge' = IdlePurge => purge.doomed = {}
  BY DEF IdlePurge
<1> QED
  BY <1>1, <1>3, <1>4 DEF PurgeSound

LEMMA PurgeMoves ==
  ASSUME [Next]_vars
  PROVE  \/ purge' = purge \/ purge' = IdlePurge \/ PurgeBegin
         \/ \E i \in Images : PurgeObject(i) \/ PurgeRefused(i)
<1>1. CASE UNCHANGED vars
  BY <1>1 DEF vars
<1>2. CASE OutputStep
  BY <1>2 DEF OutputStep, OutputStore, OutputInsert
<1>3. CASE TimeStep
  BY <1>3 DEF TimeStep, RetentionEnds, AccountRetentionEnds
<1>4. CASE PurgeStep
  BY <1>4 DEF PurgeStep, PurgeCommit, PurgeFails
<1>5. ASSUME NEW c \in Calls, UploadStep(c) \/ GalleryStep(c) \/ AccountStep(c) \/ CallFails(c)
      PROVE  purge' = purge
  <2>1. CASE UploadStep(c)
    BY <2>1 DEF UploadStep, UploadBegin, UploadScreen, UploadStore, UploadInsert
  <2>2. CASE GalleryStep(c)
    BY <2>2 DEF GalleryStep, Load, Write
  <2>3. CASE AccountStep(c)
    BY <2>3 DEF AccountStep, CloseBegin, CloseCommit
  <2>4. CASE CallFails(c)
    BY <2>4 DEF CallFails
  <2> QED
    BY <1>5, <2>1, <2>2, <2>3, <2>4
<1> QED
  BY <1>1, <1>2, <1>3, <1>4, <1>5 DEF Next

LEMMA PurgeStaysSound ==
  ASSUME ImageInv, [Next]_vars
  PROVE  PurgeSound'
<1>1. Effects
  BY StepEffects
<1>2. CASE purge' = purge
  BY <1>1, <1>2, DoomedStays
<1>3. CASE purge' = IdlePurge
  BY <1>3 DEF PurgeSound, IdlePurge
<1>4. CASE PurgeBegin
  <2>1. purge'.doomed = {i \in Images : Due(i)} /\ purge'.left = purge'.doomed /\ row' = row
    BY <1>4 DEF PurgeBegin
  <2> QED
    BY <2>1 DEF PurgeSound, Due
<1>5. ASSUME NEW i \in Images, PurgeObject(i) \/ PurgeRefused(i) PROVE PurgeSound'
  <2>1. purge \in [pc: {"idle", "run"}, doomed: SUBSET Images, left: SUBSET Images]
    BY DEF ImageInv, Typed, TypeOK
  <2>2. purge'.doomed = purge.doomed /\ purge'.left = purge.left \ {i}
    BY <1>5, <2>1 DEF PurgeObject, PurgeRefused
  <2> QED
    BY <1>1, <2>2, DoomedStays
<1> QED
  BY <1>2, <1>3, <1>4, <1>5, PurgeMoves

\* How a step may change the calls.  A new local state r of c is alone with its upload,
\* has put what it is to insert, or has a row to write to.
Joins(c, r) ==
    /\ r.pc \in UploadPc =>
          /\ r.image \in Images /\ row'[r.image] = NoRow
          /\ \A d \in Calls \ {c} : call[d].image # r.image
    /\ r.pc = "insert" => Object[r.image] \in objects'
    /\ r.pc = "write" => row'[r.image].state # "none"
    /\ \A d \in Calls \ {c} : call[d].pc \in UploadPc => call[d].image # r.image

CallStep == call' = call \/ \E c \in Calls, r \in CallState : Goes(c, r) /\ Joins(c, r)

LEMMA EndsJoins ==
  ASSUME ImageInv, NEW c \in Calls, Ends(c)
  PROVE  CallStep
<1>1. IdleCall \in CallState /\ IdleCall.pc = "idle" /\ IdleCall.image = None
  BY CallTypes
<1>2. \A d \in Calls : call[d].pc \in UploadPc => call[d].image # None
  BY CallsSound, ImageAssumption DEF ImageInv, Sound, UploadPc, Uploads
<1>3. Joins(c, IdleCall)
  BY <1>1, <1>2 DEF Joins, UploadPc
<1> QED
  BY <1>1, <1>3 DEF Ends, CallStep

LEMMA UploadJoins ==
  ASSUME ImageInv, NEW c \in Calls, UploadStep(c)
  PROVE  CallStep
<1>1. ASSUME NEW i \in Uploads, UploadBegin(c, i) PROVE CallStep
  <2> DEFINE r == [IdleCall EXCEPT !.pc = "dedupe", !.image = i]
  <2>1. r \in CallState /\ r.pc = "dedupe" /\ r.image = i
    BY CallTypes DEF CallState, Uploads
  <2>2. row'[i] = NoRow /\ i \in Images /\ \A d \in Calls : call[d].image # i
    BY <1>1 DEF UploadBegin, Uploads
  <2> HIDE DEF r
  <2>3. Joins(c, r)
    BY <2>1, <2>2 DEF Joins
  <2>4. Goes(c, r)
    BY <1>1 DEF UploadBegin, r
  <2> QED
    BY <2>1, <2>3, <2>4 DEF CallStep
<1>2. ASSUME NEW p \in {"store", "insert"}, call[c].pc \in UploadPc, row' = row,
             p = "insert" => Object[call[c].image] \in objects',
             Goes(c, [call[c] EXCEPT !.pc = p])
      PROVE  CallStep
  <2> DEFINE r == [call[c] EXCEPT !.pc = p]
  <2>1. call[c] \in CallState /\ call[c].image \in Images
    BY <1>2, CallsSound DEF ImageInv, Sound, UploadPc, Uploads
  <2>2. r \in CallState /\ r.pc = p /\ r.image = call[c].image
    BY <2>1 DEF CallState
  <2>3. row[call[c].image] = NoRow /\ \A d \in Calls : call[d].image = call[c].image => d = c
    BY <1>2 DEF ImageInv, UploadAlone
  <2>4. Goes(c, r)
    BY <1>2
  <2> HIDE DEF r
  <2>5. Joins(c, r)
    BY <1>2, <2>1, <2>2, <2>3 DEF Joins
  <2> QED
    BY <2>2, <2>4, <2>5 DEF CallStep
<1>3. CASE UploadScreen(c)
  BY <1>2, <1>3, EndsJoins DEF UploadScreen, UploadPc
<1>4. CASE UploadStore(c)
  BY <1>2, <1>4 DEF UploadStore, UploadPc
<1>5. CASE UploadInsert(c)
  BY <1>5, EndsJoins DEF UploadInsert
<1> QED
  BY <1>1, <1>3, <1>4, <1>5 DEF UploadStep

LEMMA GalleryJoins ==
  ASSUME ImageInv, NEW c \in Calls, GalleryStep(c)
  PROVE  CallStep
<1>1. ASSUME NEW op \in Ops, NEW i \in Images, Load(c, op, i) PROVE CallStep
  <2> DEFINE r == [IdleCall EXCEPT !.pc = "write", !.op = op, !.image = i, !.seen = row[i]]
  <2>1. row[i] \in Row /\ row[i].state = "stored" /\ row' = row
    BY <1>1 DEF Load, Live, ImageInv, Typed, TypeOK
  <2>2. r \in CallState /\ r.pc = "write" /\ r.image = i
    BY <2>1, CallTypes DEF CallState
  <2>3. Goes(c, r)
    BY <1>1 DEF Load
  <2> HIDE DEF r
  <2>4. \A d \in Calls : call[d].pc \in UploadPc => call[d].image # i
    BY <2>1, RowTypes DEF ImageInv, UploadAlone
  <2>5. Joins(c, r)
    BY <2>1, <2>2, <2>4 DEF Joins, UploadPc
  <2> QED
    BY <2>2, <2>3, <2>5 DEF CallStep
<1>2. CASE Write(c)
  BY <1>2, EndsJoins DEF Write
<1> QED
  BY <1>1, <1>2 DEF GalleryStep

LEMMA AccountJoins ==
  ASSUME ImageInv, NEW c \in Calls, AccountStep(c)
  PROVE  CallStep
<1>1. ASSUME NEW u \in Users, CloseBegin(c, u) PROVE CallStep
  <2> DEFINE r == [IdleCall EXCEPT !.pc = "close", !.user = u, !.found = StoredOf(u)]
  <2>1. StoredOf(u) \in SUBSET Images
    BY DEF StoredOf
  <2>2. r \in CallState /\ r.pc = "close" /\ r.image = None
    BY <2>1, CallTypes DEF CallState
  <2>3. Goes(c, r)
    BY <1>1 DEF CloseBegin
  <2> HIDE DEF r
  <2>4. \A d \in Calls : call[d].pc \in UploadPc => call[d].image # None
    BY CallsSound, ImageAssumption DEF ImageInv, Sound, UploadPc, Uploads
  <2>5. Joins(c, r)
    BY <2>2, <2>4 DEF Joins, UploadPc
  <2> QED
    BY <2>2, <2>3, <2>5 DEF CallStep
<1>2. CASE CloseCommit(c)
  BY <1>2, EndsJoins DEF CloseCommit
<1> QED
  BY <1>1, <1>2 DEF AccountStep

LEMMA StepJoins ==
  ASSUME ImageInv, [Next]_vars
  PROVE  CallStep
<1>1. CASE UNCHANGED vars
  BY <1>1 DEF vars, CallStep
<1>2. CASE OutputStep
  BY <1>2 DEF OutputStep, OutputStore, OutputInsert, CallStep
<1>3. CASE TimeStep
  BY <1>3 DEF TimeStep, RetentionEnds, AccountRetentionEnds, CallStep
<1>4. CASE PurgeStep
  BY <1>4 DEF PurgeStep, PurgeBegin, PurgeObject, PurgeRefused, PurgeCommit, PurgeFails, CallStep
<1>5. ASSUME NEW c \in Calls, CallFails(c) PROVE CallStep
  BY <1>5, EndsJoins DEF CallFails
<1> QED
  BY <1>1, <1>2, <1>3, <1>4, <1>5, UploadJoins, GalleryJoins, AccountJoins DEF Next

LEMMA UploadStaysAlone ==
  ASSUME ImageInv, Effects, CallStep
  PROVE  UploadAlone'
<1>1. call \in [Calls -> CallState] /\ \A c \in Calls : Sound(call[c])
  BY CallsSound DEF ImageInv, Typed, TypeOK
\* What was there before the step: rows stay away unless their call ends.
<1>2. ASSUME NEW c \in Calls, call[c].pc \in UploadPc, call'[c] # IdleCall
      PROVE  row'[call[c].image] = NoRow
  <2> DEFINE i == call[c].image
  <2>1. i \in Images /\ row[i] = NoRow
    BY <1>1, <1>2 DEF Sound, UploadPc, Uploads, ImageInv, UploadAlone
  <2>2. ~Inserted(i)
    BY <1>2 DEF Inserted
  <2>3. ~Removed(i)
    BY <2>1, RowTypes DEF Removed, ImageInv, PurgeSound
  <2> QED
    BY <2>1, <2>2, <2>3, RowTypes DEF Effects, RowStep, Kept
<1>3. ASSUME NEW c \in Calls, call[c].pc = "write" PROVE row'[call[c].image].state # "none"
  <2>1. call[c].image \in Images /\ row[call[c].image].state # "none"
    BY <1>1, <1>3 DEF Sound, ImageInv, UploadAlone
  <2> QED
    BY <2>1, RowTypes DEF Effects, RowStep, Kept, Inserted, Removed
<1>4. \A c \in Calls : call[c].pc \in UploadPc => call[c] # IdleCall
  BY CallTypes DEF UploadPc
<1>5. CASE call' = call
  BY <1>2, <1>3, <1>4, <1>5 DEF ImageInv, UploadAlone
<1>6. ASSUME NEW c \in Calls, NEW r \in CallState, Goes(c, r), Joins(c, r) PROVE UploadAlone'
  <2>1. call'[c] = r /\ \A d \in Calls \ {c} : call'[d] = call[d]
    BY <1>1, <1>6 DEF Goes
  <2>2. ASSUME NEW d \in Calls, call'[d].pc \in UploadPc
        PROVE  /\ row'[call'[d].image] = NoRow
               /\ \A e \in Calls : call'[e].image = call'[d].image => e = d
    <3>1. CASE d = c
      BY <1>6, <2>1, <2>2, <3>1 DEF Joins
    <3>2. CASE d # c
      <4>1. call'[d] = call[d] /\ call[d].pc \in UploadPc /\ call'[d] # IdleCall
        BY <1>4, <2>1, <2>2, <3>2
      <4>2. row'[call'[d].image] = NoRow
        BY <1>2, <4>1
      <4>3. \A e \in Calls \ {c} : call'[e].image = call'[d].image => e = d
        BY <2>1, <4>1 DEF ImageInv, UploadAlone
      <4>4. call'[c].image # call'[d].image
        BY <1>6, <2>1, <3>2, <4>1 DEF Joins
      <4> QED
        BY <4>2, <4>3, <4>4
    <3> QED
      BY <3>1, <3>2
  <2>3. ASSUME NEW d \in Calls, call'[d].pc = "write" PROVE row'[call'[d].image].state # "none"
    BY <1>3, <1>6, <2>1, <2>3 DEF Joins
  <2> QED
    BY <2>2, <2>3 DEF UploadAlone
<1> QED
  BY <1>5, <1>6 DEF CallStep

LEMMA PutStaysFirst ==
  ASSUME ImageInv, [Next]_vars
  PROVE  PutFirst' /\ saved \subseteq saved'
<1>1. Effects
  BY StepEffects
<1>2. call \in [Calls -> CallState] /\ saved \subseteq Images
  BY ImageAssumption DEF ImageInv, Typed, TypeOK
<1>3. ASSUME NEW c \in Calls, call[c].pc = "insert" PROVE Object[call[c].image] \in objects'
  <2>1. call[c].image \in Images /\ row[call[c].image] = NoRow
    BY <1>3, CallsSound DEF ImageInv, Sound, Uploads, UploadAlone, UploadPc
  <2>2. Object[call[c].image] \in objects
    BY <1>3 DEF ImageInv, PutFirst
  <2>3. call[c].image \in Uploads /\ call[c].image \notin purge.left
    BY <1>3, <2>1, CallsSound, RowTypes DEF ImageInv, Sound, PurgeSound
  <2>4. ASSUME NEW i \in Uploads, i = call[c].image PROVE Object[i] \in objects'
    <3>1. ~TwinDeleted(i)'
      BY ObjectAssumption DEF TwinDeleted
    <3> QED
      BY <1>1, <2>1, <2>2, <2>3, <2>4, <3>1, ObjectStays
  <2> QED
    BY <2>3, <2>4
<1>4. ASSUME NEW i \in saved, row'[i].state = "none"
      PROVE  Object[i] \in objects' \/ TwinDeleted(i)'
  <2>1. i \in Images /\ row[i].state = "none"
    BY <1>1, <1>2, <1>4, RowTypes DEF Effects, RowStep, Kept, Inserted, Removed
  <2>2. i \notin purge.left /\ (Object[i] \in objects \/ TwinDeleted(i))
    BY <2>1 DEF ImageInv, PutFirst, PurgeSound
  <2> QED
    BY <1>1, <2>1, <2>2, ObjectStays, TwinStaysDeleted
<1>5. \/ saved' = saved
      \/ \E i \in Outputs : saved' = saved \cup {i} /\ objects' = objects \cup {Object[i]}
  <2>1. CASE OutputStep
    BY <2>1 DEF OutputStep, OutputStore, OutputInsert
  <2>2. CASE TimeStep
    BY <2>2 DEF TimeStep, RetentionEnds, AccountRetentionEnds
  <2>3. CASE PurgeStep
    BY <2>3 DEF PurgeStep, PurgeBegin, PurgeObject, PurgeRefused, PurgeCommit, PurgeFails
  <2>4. ASSUME NEW c \in Calls, UploadStep(c) \/ GalleryStep(c) \/ AccountStep(c) \/ CallFails(c)
        PROVE  saved' = saved
    BY <2>4 DEF UploadStep, UploadBegin, UploadScreen, UploadStore, UploadInsert, GalleryStep,
       Load, Write, AccountStep, CloseBegin, CloseCommit, CallFails
  <2> QED
    BY <2>1, <2>2, <2>3, <2>4 DEF Next, vars
<1>6. \A i \in saved' : row'[i].state = "none" => Object[i] \in objects' \/ TwinDeleted(i)'
  BY <1>4, <1>5
<1>7. ASSUME NEW c \in Calls, call'[c].pc = "insert" PROVE Object[call'[c].image] \in objects'
  <2>1. CASE call'[c] = call[c]
    BY <1>3, <1>7, <2>1
  <2>2. ASSUME NEW d \in Calls, NEW r \in CallState, Goes(d, r), Joins(d, r), call'[c] # call[c]
        PROVE  Object[call'[c].image] \in objects'
    <3>1. d = c /\ call'[c] = r
      BY <1>2, <2>2 DEF Goes
    <3> QED
      BY <1>7, <2>2, <3>1 DEF Joins
  <2> QED
    BY <2>1, <2>2, StepJoins DEF CallStep
<1> QED
  BY <1>5, <1>6, <1>7 DEF PutFirst

LEMMA OwnedStays ==
  ASSUME ImageInv, [Next]_vars, saved \subseteq saved'
  PROVE  Owned'
<1>1. Effects
  BY StepEffects
<1>2. ASSUME NEW i \in purge'.doomed \ purge'.left
      PROVE  i \in purge.doomed \ purge.left \/ i \in refused' \/ Object[i] \notin objects'
  <2>1. CASE purge' = purge \/ purge' = IdlePurge \/ PurgeBegin
    BY <1>2, <2>1 DEF IdlePurge, PurgeBegin
  <2>2. ASSUME NEW j \in Images, PurgeObject(j) \/ PurgeRefused(j)
        PROVE  i \in purge.doomed \ purge.left \/ i \in refused' \/ Object[i] \notin objects'
    <3>1. purge \in [pc: {"idle", "run"}, doomed: SUBSET Images, left: SUBSET Images]
      BY DEF ImageInv, Typed, TypeOK
    <3>2. purge'.doomed = purge.doomed /\ purge'.left = purge.left \ {j}
      BY <2>2, <3>1 DEF PurgeObject, PurgeRefused
    <3>3. j \in refused' \/ Object[j] \notin objects'
      BY <2>2 DEF PurgeObject, PurgeRefused
    <3> QED
      BY <1>2, <3>2, <3>3
  <2> QED
    BY <2>1, <2>2, PurgeMoves
<1>3. ASSUME NEW i \in Images, Keeps(i), Object[i] \in objects' PROVE Keeps(i)'
  <2>1. i \in Uploads \cup saved'
    BY <1>3 DEF Keeps
  <2>2. ASSUME row'[i].state = "purged", i \notin refused' PROVE FALSE
    <3>1. i \notin refused /\ ~Cleared(i)
      BY <1>1, <1>3, <2>2 DEF Effects, Keeps
    <3>2. ~Kept(i) /\ ~Inserted(i)
      BY <2>2, <3>1, RowTypes DEF Kept, Inserted, Cleared
    <3>3. ~Removed(i)
      BY <3>1 DEF Removed, Cleared
    <3> QED
      BY <1>1, <3>2, <3>3 DEF Effects, RowStep
  <2>3. ASSUME i \in purge'.doomed \ purge'.left, i \notin refused' PROVE FALSE
    BY <1>1, <1>2, <1>3, <2>3 DEF Effects, Keeps, Cleared
  <2> QED
    BY <2>1, <2>2, <2>3 DEF Keeps, Cleared
<1>4. ASSUME NEW k \in objects' \ objects
      PROVE  \E i \in Images : Object[i] = k /\ Keeps(i)'
  <2>1. row' = row /\ purge' = purge
    BY <1>1 DEF Effects, ObjectStep, Put
  <2>2. PICK i \in Images : Object[i] = k /\ row[i].state = "none" /\ i \in Uploads \cup saved'
    BY <1>1 DEF Effects, ObjectStep, Put
  <2>3. i \notin purge.doomed
    BY <2>2 DEF ImageInv, PurgeSound
  <2> QED
    BY <2>1, <2>2, <2>3 DEF Keeps, Cleared
<1>5. ASSUME NEW k \in objects' \cap objects
      PROVE  \E i \in Images : Object[i] = k /\ Keeps(i)'
  <2>1. PICK i \in Images : Object[i] = k /\ Keeps(i)
    BY DEF ImageInv, Owned
  <2> QED
    BY <1>3, <2>1
<1> QED
  BY <1>4, <1>5 DEF Owned

LEMMA ImageInvInit == Init => ImageInv
<1> SUFFICES ASSUME Init PROVE ImageInv
  OBVIOUS
<1>1. Typed
  BY TypeInit
<1>2. \A c \in Calls : call[c].pc = "idle"
  BY CallTypes DEF Init
<1>3. \A i \in Images : row[i].state = "none"
  BY RowTypes DEF Init
<1>4. purge.doomed = {} /\ purge.left = {} /\ saved = {} /\ objects = {}
  BY DEF Init, IdlePurge
<1> QED
  BY <1>1, <1>2, <1>3, <1>4, ImageAssumption DEF ImageInv, UploadAlone, UploadPc, PutFirst, OutputsFresh,
     PurgeSound, LiveHasObject, Live, Owned

\* The strengthening holds in every reachable state; the theorems below follow from it.
THEOREM ImageInvCorrect == Spec => []ImageInv
<1>1. ImageInv /\ [Next]_vars => ImageInv'
  <2> SUFFICES ASSUME ImageInv, [Next]_vars PROVE ImageInv'
    OBVIOUS
  <2>1. Typed'
    <3>1. Typed
      BY DEF ImageInv
    <3>2. CASE UNCHANGED vars
      BY <3>1, <3>2 DEF vars, Typed, TypeOK, LoadedLive
    <3> QED
      BY <3>1, <3>2, UploadTyped, OutputTyped, GalleryTyped, AccountTyped, FailTyped, TimeTyped,
         PurgeTyped DEF Next
  <2>2. Effects /\ CallStep
    BY StepEffects, StepJoins
  <2>3. PutFirst' /\ saved \subseteq saved'
    BY PutStaysFirst
  <2> QED
    BY <2>1, <2>2, <2>3, LiveKeepsObject, OwnedStays, OutputsStayFresh, PurgeStaysSound,
       UploadStaysAlone DEF ImageInv
<1> QED
  BY <1>1, ImageInvInit, PTL DEF Spec

\* An image that the gallery lists has its bytes in the store, whatever uploads, runs,
\* deletions and purges are under way or have failed, unless its job ran twice and the
\* other output was deleted.
THEOREM LiveHasObjectCorrect == Spec => []LiveHasObject
<1>1. ImageInv => LiveHasObject
  BY DEF ImageInv
<1> QED
  BY <1>1, ImageInvCorrect, PTL

\* A key of which only purged rows are left is not in the store, unless the store refused
\* to delete it, also when two runs of a job share it.
THEOREM PurgedIsGoneCorrect == Spec => []PurgedIsGone
<1> QED
  BY OwnedIsGone, ImageInvCorrect, PTL

\* No call, however stale what it loaded, brings a deleted image back.
THEOREM DeletionCorrect == Spec => DeletedStaysDeleted
<1> DEFINE Final == \A i \in Images :
                       row[i].deleted => /\ row'[i].deleted
                                         /\ row'[i].state # row[i].state => i \in purge.doomed
<1>1. ImageInv /\ [Next]_vars => [Final]_vars
  <2> SUFFICES ASSUME ImageInv, [Next]_vars, NEW i \in Images, row[i].deleted
               PROVE  row'[i].deleted /\ (row'[i].state # row[i].state => i \in purge.doomed)
    OBVIOUS
  <2>1. Effects
    BY StepEffects
  <2> QED
    BY <2>1, RowTypes DEF Effects, RowStep, Kept, Inserted, Removed
<1> QED
  BY <1>1, ImageInvCorrect, PTL DEF Spec, DeletedStaysDeleted

\* No call brings a withdrawn link back.
THEOREM LinkCorrect == Spec => NoLinkRevived
<1> DEFINE Forward == \A i \in Images :
                         row'[i].link = row[i].link \/ row'[i].link = NoLink \/ row'[i].link > links
<1>1. ImageInv /\ [Next]_vars => [Forward]_vars
  <2> SUFFICES ASSUME ImageInv, [Next]_vars, NEW i \in Images
               PROVE  row'[i].link = row[i].link \/ row'[i].link = NoLink \/ row'[i].link > links
    OBVIOUS
  <2>1. Effects
    BY StepEffects
  <2> QED
    BY <2>1, RowTypes DEF Effects, RowStep, Kept, Inserted, Removed
<1> QED
  BY <1>1, ImageInvCorrect, PTL DEF Spec, NoLinkRevived
=============================================================================
