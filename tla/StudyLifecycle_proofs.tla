----------------------- MODULE StudyLifecycle_proofs -----------------------
(***************************************************************************)
(* Proofs about StudyLifecycle, for any number of studies, images, tabs    *)
(* and versions.  StudyInv is inductive: RowsInv speaks of the rows,       *)
(* TabsInv of the tabs and their stale reads.  Most steps change one tab   *)
(* (TabMoves) and at most one study; the uploads have lemmas of their own. *)
(***************************************************************************)
EXTENDS StudyLifecycle, TLAPS

(* A tab that the invariant allows. *)
TabFits(call) ==
  /\ call.pc # "idle" => call.study \in Studies
  /\ call.shown \in {"live", "paused", "closed"} =>
       call.study \in Studies /\ versions[call.study] # {}
  /\ call.pc \in {"read", "numbered"} => call.draft.valid
  /\ call.pc = "numbered" =>
       call.number \in Numbers /\ 1..(call.number - 1) \subseteq Taken(call.study)
  /\ call.pc \in {"put", "unstoring"} <=> call.asset # NoAsset
  /\ call.pc = "put" => call.asset \in objects
  /\ call.draft.images \subseteq offered

LEMMA IdleFits == IdleCall \in Call /\ TabFits(IdleCall) /\ IdleCall.asset = NoAsset
BY StudyAssumption DEF IdleCall, Call, NoDraft, Definition, TabFits

(* A tab that moves on to pc, with nothing but its study. *)
LEMMA AtFits ==
  ASSUME TypeOK, NEW c \in Calls, calls[c].study \in Studies,
         NEW pc \in {"page", "read", "numbered", "counted", "copying"}
  PROVE  /\ At(c, pc) \in Call
         /\ At(c, pc).pc = pc /\ At(c, pc).study = calls[c].study
         /\ At(c, pc).shown = "none" /\ At(c, pc).asset = NoAsset
         /\ At(c, pc).draft = NoDraft /\ At(c, pc).number = 0
BY DEF TypeOK, At, IdleCall, Call, NoDraft, Definition

(* One tab moves to a call that fits; no version is lost, no image moves.  *)
LEMMA TabMoves ==
  ASSUME TypeOK, TabsInv, NEW c \in Calls, NEW call \in Call,
         calls' = [calls EXCEPT ![c] = call],
         UNCHANGED <<media, objects, offered>>,
         \A s \in Studies : versions[s] \subseteq versions'[s],
         TabFits(call), call.asset \in {NoAsset, calls[c].asset}
  PROVE  TabsInv' /\ calls' \in [Calls -> Call]
<1>1. \A d \in Calls : calls'[d] = IF d = c THEN call ELSE calls[d]
  BY DEF TypeOK
<1>2. CallsKnowTheirStudy' /\ PagesShowPublished'
  BY <1>1 DEF TabsInv, TabFits, CallsKnowTheirStudy, PagesShowPublished
<1>3. PublishersAreReady'
  <2> SUFFICES ASSUME NEW d \in Calls
               PROVE  (/\ calls[d].pc \in {"read", "numbered"} => calls[d].draft.valid
                       /\ calls[d].pc = "numbered" =>
                            /\ calls[d].number \in Numbers
                            /\ 1..(calls[d].number - 1) \subseteq Taken(calls[d].study))'
    BY DEF PublishersAreReady
  <2> DEFINE f == IF d = c THEN call ELSE calls[d]
  <2>1. calls'[d] = f
    BY <1>1
  <2>2. /\ f.pc \in {"read", "numbered"} => f.draft.valid
        /\ f.pc = "numbered" => /\ f.study \in Studies
                                /\ f.number \in Numbers
                                /\ 1..(f.number - 1) \subseteq Taken(f.study)
    BY DEF TabFits, TabsInv, PublishersAreReady, CallsKnowTheirStudy
  <2>3. Taken(calls[d].study)' = {v.number : v \in versions'[f.study]}
    BY <2>1 DEF Taken
  <2>4. f.study \in Studies => Taken(f.study) \subseteq Taken(calls[d].study)'
    BY <2>3 DEF Taken
  <2> QED
    BY <2>1, <2>2, <2>4
<1>4. UploadsAreApart'
  BY <1>1 DEF TabsInv, TabFits, UploadsAreApart
<1>5. OfferedIsStored'
  BY <1>1, StudyAssumption DEF TabsInv, TabFits, UploadsAreApart, OfferedIsStored, TypeOK
<1>6. TabsShowOffered'
  BY <1>1 DEF TabsInv, TabFits, TabsShowOffered
<1>7. calls' \in [Calls -> Call]
  BY DEF TypeOK
<1> QED
  BY <1>2, <1>3, <1>4, <1>5, <1>6, <1>7 DEF TabsInv

LEMMA CallFits ==
  ASSUME TypeOK, TabsInv, NEW c \in Calls
  PROVE  calls[c] \in Call /\ TabFits(calls[c])
BY DEF TypeOK, TabsInv, TabFits, CallsKnowTheirStudy, PagesShowPublished,
       PublishersAreReady, UploadsAreApart, TabsShowOffered

(* A step that changes one tab and no row. *)
LEMMA ReadKeeps ==
  ASSUME TypeOK, StudyInv, NEW c \in Calls, NEW call \in Call,
         calls' = [calls EXCEPT ![c] = call],
         UNCHANGED <<studies, versions, media, objects, offered>>,
         TabFits(call), call.asset \in {NoAsset, calls[c].asset}
  PROVE  TypeOK' /\ StudyInv'
<1>1. TabsInv' /\ calls' \in [Calls -> Call]
  BY TabMoves DEF StudyInv
<1>2. RowsInv'
  BY DEF StudyInv, RowsInv, VersionsNumbered, PublishedIsValid, UnpublishedHasNoVersion,
         LiveHasVersion, RowsShowOffered, Taken
<1>3. TypeOK'
  BY <1>1 DEF TypeOK
<1> QED
  BY <1>1, <1>2, <1>3 DEF StudyInv

LEMMA EndKeeps ==
  ASSUME TypeOK, StudyInv, NEW c \in Calls, calls' = [calls EXCEPT ![c] = IdleCall],
         UNCHANGED <<studies, versions, media, objects, offered>>
  PROVE  TypeOK' /\ StudyInv'
BY ReadKeeps, IdleFits

(* The reading steps, one by one. *)
LEMMA OpenKeeps ==
  ASSUME TypeOK, StudyInv, NEW c \in Calls, NEW s \in Studies,
         OpenPage(c, s) \/ OpenBuilder(c, s)
  PROVE  TypeOK' /\ StudyInv'
<1>1. /\ studies[s] \in Study /\ studies[s].draft.images \subseteq offered
      /\ studies[s].status \in Statuses
      /\ studies[s].status \in {"live", "paused", "closed"} => versions[s] # {}
  BY DEF TypeOK, StudyInv, RowsInv, RowsShowOffered, LiveHasVersion, Exists,
         OpenPage, OpenBuilder
<1>2. CASE OpenPage(c, s)
  <2> DEFINE call == [IdleCall EXCEPT !.pc = "page", !.study = s, !.shown = studies[s].status]
  <2>1. /\ call \in Call /\ call.asset = NoAsset
        /\ TabFits(call)
    BY <1>1, IdleFits DEF Call, TabFits, IdleCall, NoDraft, Study
  <2> QED
    BY <1>2, <2>1, ReadKeeps DEF OpenPage, Moves
<1>3. CASE OpenBuilder(c, s)
  <2> DEFINE call == [IdleCall EXCEPT !.pc = "builder", !.study = s, !.draft = studies[s].draft]
  <2>1. /\ call \in Call /\ call.asset = NoAsset
        /\ TabFits(call)
    BY <1>1, IdleFits DEF Call, TabFits, IdleCall, Study
  <2> QED
    BY <1>3, <2>1, ReadKeeps DEF OpenBuilder, Moves
<1> QED
  BY <1>2, <1>3

LEMMA PublishReadKeeps ==
  ASSUME TypeOK, StudyInv, NEW c \in Calls, PublishRead(c)
  PROVE  TypeOK' /\ StudyInv'
<1>1. PICK s : s = calls[c].study
  OBVIOUS
<1>2. s \in Studies
  BY <1>1 DEF PublishRead, StudyInv, TabsInv, CallsKnowTheirStudy
<1>3. CASE Exists(s) /\ studies[s].draft.valid
  <2> DEFINE call == [At(c, "read") EXCEPT !.draft = studies[s].draft]
  <2>1. At(c, "read") \in Call /\ At(c, "read").pc = "read" /\ At(c, "read").study = s
        /\ At(c, "read").shown = "none" /\ At(c, "read").asset = NoAsset
    BY <1>1, <1>2, AtFits
  <2>2. studies[s].draft \in Definition /\ studies[s].draft.images \subseteq offered
    BY <1>2 DEF TypeOK, Study, StudyInv, RowsInv, RowsShowOffered
  <2>3. call \in Call /\ call.asset = NoAsset
    BY <2>1, <2>2 DEF Call
  <2>4. TabFits(call)
    BY <1>2, <1>3, <2>1, <2>2 DEF Call, TabFits
  <2>5. calls' = [calls EXCEPT ![c] = call]
    BY <1>1, <1>3 DEF PublishRead, Moves
  <2> QED
    BY <2>3, <2>4, <2>5, ReadKeeps DEF PublishRead
<1>4. CASE ~(Exists(s) /\ studies[s].draft.valid)
  BY <1>1, <1>4, EndKeeps DEF PublishRead, Ends, Moves
<1> QED
  BY <1>3, <1>4

LEMMA PublishNumberKeeps ==
  ASSUME TypeOK, StudyInv, NEW c \in Calls, PublishNumber(c)
  PROVE  TypeOK' /\ StudyInv'
<1>1. PICK n \in 0..(MaxVersions - 1) :
        /\ Moves(c, "read", [calls[c] EXCEPT !.pc = "numbered", !.number = n + 1])
        /\ IsLatest(calls[c].study, n)
  BY DEF PublishNumber
<1>2. /\ calls[c] \in Call /\ TabFits(calls[c]) /\ calls[c].pc = "read"
      /\ calls[c].study \in Studies
  BY <1>1, CallFits DEF StudyInv, TabsInv, CallsKnowTheirStudy, Moves
<1>3. n + 1 \in Numbers
  BY StudyAssumption DEF Numbers
<1>4. 1..n \subseteq Taken(calls[c].study)
  <2>1. CASE n = 0
    BY <2>1
  <2>2. CASE n # 0
    <3>1. PICK v \in versions[calls[c].study] : v.number = n
      BY <1>1, <2>2 DEF IsLatest, Taken
    <3> QED
      BY <1>2, <3>1 DEF StudyInv, RowsInv, VersionsNumbered
  <2> QED
    BY <2>1, <2>2
<1> DEFINE call == [calls[c] EXCEPT !.pc = "numbered", !.number = n + 1]
<1>5. call \in Call /\ call.asset = calls[c].asset
  BY <1>2, <1>3 DEF Call
<1>6. TabFits(call)
  BY <1>2, <1>3, <1>4 DEF TabFits, Call
<1> QED
  BY <1>1, <1>5, <1>6, ReadKeeps DEF PublishNumber, Moves

LEMMA DeleteCountKeeps ==
  ASSUME TypeOK, StudyInv, NEW c \in Calls, DeleteCount(c)
  PROVE  TypeOK' /\ StudyInv'
<1>1. calls[c].study \in Studies
  BY DEF DeleteCount, StudyInv, TabsInv, CallsKnowTheirStudy
<1>2. PICK at \in Call :
        /\ at = At(c, "counted")
        /\ at.pc = "counted" /\ at.study = calls[c].study
        /\ at.shown = "none" /\ at.asset = NoAsset /\ at.draft = NoDraft
  BY <1>1, AtFits
<1>3. PICK b \in BOOLEAN : b = (versions[calls[c].study] # {})
  OBVIOUS
<1> DEFINE call == [at EXCEPT !.dependent = b]
<1>4. call \in Call /\ call.asset = NoAsset
  BY <1>2 DEF Call
<1>5. TabFits(call)
  BY <1>1, <1>2 DEF TabFits, Call, NoDraft
<1>6. calls' = [calls EXCEPT ![c] = call]
  BY <1>2, <1>3 DEF DeleteCount, Moves
<1> QED
  BY <1>4, <1>5, <1>6, ReadKeeps DEF DeleteCount

LEMMA DuplicateReadKeeps ==
  ASSUME TypeOK, StudyInv, NEW c \in Calls, DuplicateRead(c)
  PROVE  TypeOK' /\ StudyInv'
<1>1. PICK s : s = calls[c].study
  OBVIOUS
<1>2. s \in Studies
  BY <1>1 DEF DuplicateRead, StudyInv, TabsInv, CallsKnowTheirStudy
<1>3. CASE Exists(s)
  <2> DEFINE call == [At(c, "copying") EXCEPT !.draft = studies[s].draft]
  <2>1. At(c, "copying") \in Call /\ At(c, "copying").pc = "copying"
        /\ At(c, "copying").study = s
        /\ At(c, "copying").shown = "none" /\ At(c, "copying").asset = NoAsset
    BY <1>1, <1>2, AtFits
  <2>2. studies[s].draft \in Definition /\ studies[s].draft.images \subseteq offered
    BY <1>2 DEF TypeOK, Study, StudyInv, RowsInv, RowsShowOffered
  <2>3. call \in Call /\ call.asset = NoAsset
    BY <2>1, <2>2 DEF Call
  <2>4. TabFits(call)
    BY <1>2, <2>1, <2>2 DEF Call, TabFits
  <2>5. calls' = [calls EXCEPT ![c] = call]
    BY <1>1, <1>3 DEF DuplicateRead, Moves
  <2> QED
    BY <2>3, <2>4, <2>5, ReadKeeps DEF DuplicateRead
<1>4. CASE ~Exists(s)
  BY <1>1, <1>4, EndKeeps DEF DuplicateRead, Ends, Moves
<1> QED
  BY <1>3, <1>4

-----------------------------------------------------------------------------
(* The writing steps. *)

(* One study gets a status its versions allow and images that were offered. *)
LEMMA RowMoves ==
  ASSUME TypeOK, StudyInv, NEW s \in Studies, NEW row \in Study,
         studies' = [studies EXCEPT ![s] = row],
         UNCHANGED <<versions, offered>>,
         row.draft.images \subseteq offered,
         row.status \in {"unborn", "draft", "deleted"} => versions[s] = {},
         row.status \in {"live", "paused", "closed"} => versions[s] # {}
  PROVE  RowsInv' /\ studies' \in [Studies -> Study]
<1>1. \A t \in Studies : studies'[t] = IF t = s THEN row ELSE studies[t]
  BY DEF TypeOK
<1>2. VersionsNumbered' /\ PublishedIsValid'
  BY DEF StudyInv, RowsInv, VersionsNumbered, PublishedIsValid, Taken
<1>3. UnpublishedHasNoVersion' /\ LiveHasVersion'
  BY <1>1 DEF StudyInv, RowsInv, UnpublishedHasNoVersion, LiveHasVersion
<1>4. RowsShowOffered'
  BY <1>1 DEF StudyInv, RowsInv, RowsShowOffered
<1>5. studies' \in [Studies -> Study]
  BY DEF TypeOK
<1> QED
  BY <1>2, <1>3, <1>4, <1>5 DEF RowsInv

(* The row moves and one tab ends or stays. *)
LEMMA WriteKeeps ==
  ASSUME TypeOK, StudyInv, NEW c \in Calls, NEW s \in Studies, NEW row \in Study,
         NEW call \in Call, calls' = [calls EXCEPT ![c] = call],
         TabFits(call), call.asset \in {NoAsset, calls[c].asset},
         studies' = [studies EXCEPT ![s] = row],
         UNCHANGED <<versions, media, objects, offered>>,
         row.draft.images \subseteq offered,
         row.status \in {"unborn", "draft", "deleted"} => versions[s] = {},
         row.status \in {"live", "paused", "closed"} => versions[s] # {}
  PROVE  TypeOK' /\ StudyInv'
<1>1. RowsInv' /\ studies' \in [Studies -> Study]
  BY RowMoves
<1>2. TabsInv' /\ calls' \in [Calls -> Call]
  BY TabMoves DEF StudyInv
<1>3. TypeOK'
  BY <1>1, <1>2 DEF TypeOK
<1> QED
  BY <1>1, <1>2, <1>3 DEF StudyInv

LEMMA CreateKeeps ==
  ASSUME TypeOK, StudyInv, NEW c \in Calls, NEW s \in Studies, NEW filled \in BOOLEAN,
         CreateStudy(c, s, filled)
  PROVE  TypeOK' /\ StudyInv'
<1>1. PICK row : row = [status |-> "draft", draft |-> [valid |-> filled, images |-> {}]]
  OBVIOUS
<1>2. row \in Study /\ row.status = "draft" /\ row.draft.images = {}
  <2>1. [valid |-> filled, images |-> {}] \in Definition
    BY DEF Definition
  <2> QED
    BY <1>1, <2>1 DEF Study, Statuses
<1>3. studies' = [studies EXCEPT ![s] = row]
  BY <1>1 DEF CreateStudy
<1>4. versions[s] = {}
  BY DEF CreateStudy, StudyInv, RowsInv, UnpublishedHasNoVersion
<1>5. calls[c] \in Call /\ TabFits(calls[c])
  BY CallFits DEF StudyInv
<1>6. calls' = [calls EXCEPT ![c] = calls[c]]
  BY DEF CreateStudy, TypeOK
<1>7. UNCHANGED <<versions, media, objects, offered>>
  BY DEF CreateStudy
<1> QED
  BY <1>2, <1>3, <1>4, <1>5, <1>6, <1>7, WriteKeeps

LEMMA SetStatusKeeps ==
  ASSUME TypeOK, StudyInv, NEW c \in Calls, NEW st \in Statuses, SetStudyStatus(c, st)
  PROVE  TypeOK' /\ StudyInv'
<1>1. PICK s \in Studies : s = calls[c].study
  BY DEF SetStudyStatus, Ends, Moves, StudyInv, TabsInv, CallsKnowTheirStudy
<1>2. calls' = [calls EXCEPT ![c] = IdleCall]
  BY DEF SetStudyStatus, Ends, Moves
<1>3. CASE Exists(s)
  <2>1. PICK row : row = [studies[s] EXCEPT !.status = st]
    OBVIOUS
  <2>2. row \in Study /\ row.status = st /\ row.draft.images \subseteq offered
    BY <2>1 DEF TypeOK, Study, StudyInv, RowsInv, RowsShowOffered
  <2>3. studies' = [studies EXCEPT ![s] = row]
    BY <1>1, <1>3, <2>1 DEF SetStudyStatus, TypeOK, Study
  <2>4. st # "draft" /\ (st \in {"live", "paused", "closed"} =>
                           calls[c].shown \in {"live", "paused"})
    BY DEF SetStudyStatus, Buttons
  <2>5. st \in {"live", "paused", "closed"} => versions[s] # {}
    BY <1>1, <2>4 DEF StudyInv, TabsInv, PagesShowPublished
  <2> QED
    BY <1>2, <2>2, <2>3, <2>4, <2>5, IdleFits, WriteKeeps DEF SetStudyStatus, Statuses
<1>4. CASE ~Exists(s)
  BY <1>1, <1>2, <1>4, EndKeeps DEF SetStudyStatus
<1> QED
  BY <1>3, <1>4

(* The status a deletion finds under the lock decides: no version goes. *)
LEMMA DeleteKeeps ==
  ASSUME TypeOK, StudyInv, NEW c \in Calls, DeleteStudy(c)
  PROVE  TypeOK' /\ StudyInv' /\ versions' = versions
<1>1. PICK s \in Studies : s = calls[c].study
  BY DEF DeleteStudy, Ends, Moves, StudyInv, TabsInv, CallsKnowTheirStudy
<1>2. calls' = [calls EXCEPT ![c] = IdleCall]
  BY DEF DeleteStudy, Ends, Moves
<1>3. CASE Deletable(c) /\ ~HasImages(s)
  <2>1. PICK row : row = [status |-> "deleted", draft |-> NoDraft]
    OBVIOUS
  <2>2. row \in Study /\ row.status = "deleted" /\ row.draft.images = {}
    BY <2>1 DEF Study, NoDraft, Definition
  <2>3. versions[s] = {}
    BY <1>1, <1>3 DEF Deletable, StudyInv, RowsInv, UnpublishedHasNoVersion
  <2>4. versions' = versions
    BY <1>1, <1>3, <2>3 DEF DeleteStudy, Removed, TypeOK
  <2>5. studies' = [studies EXCEPT ![s] = row]
    BY <1>1, <1>3, <2>1 DEF DeleteStudy, Removed
  <2> QED
    BY <1>2, <2>2, <2>3, <2>4, <2>5, IdleFits, WriteKeeps DEF DeleteStudy
<1>4. CASE ~(Deletable(c) /\ ~HasImages(s))
  BY <1>1, <1>2, <1>4, EndKeeps DEF DeleteStudy
<1> QED
  BY <1>3, <1>4

LEMMA DuplicateKeeps ==
  ASSUME TypeOK, StudyInv, NEW c \in Calls, NEW t \in Studies, DuplicateInsert(c, t)
  PROVE  TypeOK' /\ StudyInv'
<1>1. PICK row : row = [status |-> "draft", draft |-> calls[c].draft]
  OBVIOUS
<1>2. calls[c] \in Call /\ TabFits(calls[c])
  BY CallFits DEF StudyInv
<1>3. row \in Study /\ row.status = "draft" /\ row.draft.images \subseteq offered
  <2>1. calls[c].draft \in Definition /\ calls[c].draft.images \subseteq offered
    BY <1>2 DEF Call, TabFits
  <2> QED
    BY <1>1, <2>1 DEF Study, Statuses
<1>4. studies' = [studies EXCEPT ![t] = row]
  BY <1>1 DEF DuplicateInsert
<1>5. versions[t] = {}
  BY DEF DuplicateInsert, StudyInv, RowsInv, UnpublishedHasNoVersion
<1>6. calls' = [calls EXCEPT ![c] = IdleCall]
  BY DEF DuplicateInsert, Ends, Moves
<1> QED
  BY <1>3, <1>4, <1>5, <1>6, IdleFits, WriteKeeps DEF DuplicateInsert

LEMMA SaveKeeps ==
  ASSUME TypeOK, StudyInv, NEW c \in Calls, NEW definition \in Definition,
         SaveDraft(c, definition)
  PROVE  TypeOK' /\ StudyInv'
<1>1. PICK s \in Studies : s = calls[c].study
  BY DEF SaveDraft, StudyInv, TabsInv, CallsKnowTheirStudy
<1>2. calls[c] \in Call /\ TabFits(calls[c]) /\ calls[c].pc = "builder"
  BY CallFits DEF StudyInv, SaveDraft
<1>3. definition.images \subseteq offered
  BY <1>2 DEF SaveDraft, Available, TabFits
<1>4. PICK call : call = [calls[c] EXCEPT !.draft = definition]
  OBVIOUS
<1>5. call \in Call /\ call.asset = calls[c].asset
  BY <1>2, <1>4 DEF Call
<1>6. TabFits(call)
  BY <1>2, <1>3, <1>4 DEF TabFits, Call
<1>7. calls' = [calls EXCEPT ![c] = call]
  BY <1>4 DEF SaveDraft, Moves
<1>8. CASE studies[s].status \in Editable
  <2>1. PICK row : row = [studies[s] EXCEPT !.draft = definition]
    OBVIOUS
  <2>2. row \in Study /\ row.status = studies[s].status /\ row.draft = definition
    BY <2>1 DEF TypeOK, Study
  <2>3. studies' = [studies EXCEPT ![s] = row]
    BY <1>1, <1>8, <2>1 DEF SaveDraft
  <2>4. /\ row.status \in {"unborn", "draft", "deleted"} => versions[s] = {}
        /\ row.status \in {"live", "paused", "closed"} => versions[s] # {}
    BY <2>2 DEF StudyInv, RowsInv, UnpublishedHasNoVersion, LiveHasVersion
  <2>5. row.draft.images \subseteq offered
    BY <1>3, <2>2
  <2> QED
    BY <1>5, <1>6, <1>7, <2>2, <2>3, <2>4, <2>5, WriteKeeps DEF SaveDraft
<1>9. CASE studies[s].status \notin Editable
  BY <1>1, <1>5, <1>6, <1>7, <1>9, ReadKeeps DEF SaveDraft
<1> QED
  BY <1>8, <1>9

(* A publication commits: its number is free, and all numbers below it are *)
(* taken since it read them.                                               *)
LEMMA PublishCommitKeeps ==
  ASSUME TypeOK, StudyInv, NEW c \in Calls, PublishCommit(c)
  PROVE  /\ TypeOK' /\ StudyInv'
         /\ \A s \in Studies : versions[s] \subseteq versions'[s]
<1>1. PICK s \in Studies : s = calls[c].study
  BY DEF PublishCommit, Ends, Moves, StudyInv, TabsInv, CallsKnowTheirStudy
<1>2. PICK n \in Numbers, draft \in Definition :
        /\ n = calls[c].number /\ draft = calls[c].draft
        /\ draft.valid /\ draft.images \subseteq offered
        /\ n \notin Taken(s) /\ 1..(n - 1) \subseteq Taken(s)
  <2>1. calls[c] \in Call /\ TabFits(calls[c]) /\ calls[c].pc = "numbered"
    BY CallFits DEF StudyInv, PublishCommit, Ends, Moves
  <2> QED
    BY <1>1, <2>1 DEF TabFits, Call, PublishCommit
<1>3. PICK v : v = [number |-> n, definition |-> draft]
  OBVIOUS
<1>4. v \in Version /\ v.number = n /\ v.definition = draft
  BY <1>3 DEF Version
<1>5. /\ versions' = [versions EXCEPT ![s] = @ \cup {v}]
      /\ studies' = [studies EXCEPT ![s].status = "live"]
  BY <1>1, <1>2, <1>3 DEF PublishCommit, Published
<1>6. \A t \in Studies : versions'[t] = IF t = s THEN versions[s] \cup {v} ELSE versions[t]
  BY <1>5 DEF TypeOK
<1>7. \A t \in Studies : versions[t] \subseteq versions'[t]
  BY <1>6
<1>8. \A t \in Studies : /\ studies'[t].status = IF t = s THEN "live" ELSE studies[t].status
                         /\ studies'[t].draft = studies[t].draft
                         /\ studies'[t] \in Study
  BY <1>5 DEF TypeOK, Study, Statuses
<1>9. VersionsNumbered'
  <2>1. \A t \in Studies : Taken(t)' = IF t = s THEN Taken(s) \cup {n} ELSE Taken(t)
    BY <1>4, <1>6 DEF Taken
  <2>2. \A t \in Studies : \A w, x \in versions'[t] : w.number = x.number => w = x
    <3>1. \A w \in versions[s] : w.number # n
      BY <1>2 DEF Taken
    <3> QED
      BY <1>4, <1>6, <3>1 DEF StudyInv, RowsInv, VersionsNumbered
  <2>3. \A t \in Studies : \A w \in versions'[t] : 1..w.number \subseteq Taken(t)'
    <3> SUFFICES ASSUME NEW t \in Studies, NEW w \in versions'[t]
                 PROVE  1..w.number \subseteq Taken(t)'
      OBVIOUS
    <3>1. CASE w \in versions[t]
      BY <2>1, <3>1 DEF StudyInv, RowsInv, VersionsNumbered
    <3>2. CASE w \notin versions[t]
      <4>1. t = s /\ w = v
        BY <1>6, <3>2
      <4>2. 1..n \subseteq Taken(s) \cup {n}
        BY <1>2 DEF Numbers
      <4> QED
        BY <1>4, <2>1, <4>1, <4>2
    <3> QED
      BY <3>1, <3>2
  <2> QED
    BY <2>2, <2>3 DEF VersionsNumbered
<1>10. PublishedIsValid' /\ RowsShowOffered'
  BY <1>2, <1>4, <1>6, <1>8 DEF PublishCommit, StudyInv, RowsInv, PublishedIsValid, RowsShowOffered
<1>11. UnpublishedHasNoVersion' /\ LiveHasVersion'
  BY <1>6, <1>8 DEF StudyInv, RowsInv, UnpublishedHasNoVersion, LiveHasVersion
<1>12. calls' = [calls EXCEPT ![c] = IdleCall] /\ UNCHANGED <<media, objects, offered>>
  BY DEF PublishCommit, Ends, Moves
<1>13. TabsInv' /\ calls' \in [Calls -> Call]
  BY <1>7, <1>12, IdleFits, TabMoves DEF StudyInv
<1>14. versions' \in [Studies -> SUBSET Version] /\ studies' \in [Studies -> Study]
  <2>1. versions' \in [Studies -> SUBSET Version]
    BY <1>4, <1>5 DEF TypeOK
  <2>2. studies' \in [Studies -> Study]
    BY <1>5, <1>8 DEF TypeOK
  <2> QED
    BY <2>1, <2>2
<1>15. TypeOK'
  BY <1>12, <1>13, <1>14 DEF TypeOK
<1> QED
  BY <1>7, <1>9, <1>10, <1>11, <1>13, <1>15 DEF StudyInv, RowsInv

-----------------------------------------------------------------------------
(* The uploads. *)

(* The rows do not change, and more may be offered. *)
LEMMA RowsStay ==
  ASSUME RowsInv, UNCHANGED <<studies, versions>>, offered \subseteq offered'
  PROVE  RowsInv'
BY DEF RowsInv, VersionsNumbered, PublishedIsValid, UnpublishedHasNoVersion,
       LiveHasVersion, RowsShowOffered, Taken

(* A step of an upload, and what it leaves of TabsInv: all but what speaks  *)
(* of images.                                                              *)
TabAfter(c, pc, a) == [calls[c] EXCEPT !.pc = pc, !.asset = a]

TabKept(c, pc, a) ==
  /\ CallsKnowTheirStudy' /\ PagesShowPublished'
  /\ PublishersAreReady' /\ TabsShowOffered' /\ calls' \in [Calls -> Call]
  /\ \A d \in Calls : /\ calls'[d].pc = IF d = c THEN pc ELSE calls[d].pc
                      /\ calls'[d].asset = IF d = c THEN a ELSE calls[d].asset

LEMMA UploadMoves ==
  ASSUME TypeOK, TabsInv, NEW c \in Calls,
         NEW pc \in {"builder", "put", "unstoring"}, NEW a \in Assets \cup {NoAsset},
         calls[c].pc \in {"builder", "put", "unstoring"},
         calls' = [calls EXCEPT ![c] = TabAfter(c, pc, a)],
         UNCHANGED versions, offered \subseteq offered'
  PROVE  TabKept(c, pc, a)
<1>1. calls[c] \in Call
  BY DEF TypeOK
<1>2. PICK call : call = TabAfter(c, pc, a)
  OBVIOUS
<1>3. /\ call \in Call /\ call.pc = pc /\ call.asset = a
      /\ call.study = calls[c].study /\ call.shown = calls[c].shown
      /\ call.draft = calls[c].draft
  BY <1>1, <1>2 DEF Call, TabAfter
<1>4. \A d \in Calls : calls'[d] = IF d = c THEN call ELSE calls[d]
  BY <1>2 DEF TypeOK
<1>5. CallsKnowTheirStudy' /\ PagesShowPublished'
  BY <1>3, <1>4 DEF TabsInv, CallsKnowTheirStudy, PagesShowPublished
<1>6. PublishersAreReady'
  BY <1>3, <1>4 DEF TabsInv, PublishersAreReady, Taken
<1>7. TabsShowOffered'
  BY <1>3, <1>4 DEF TabsInv, TabsShowOffered
<1>8. calls' \in [Calls -> Call]
  BY <1>2, <1>3 DEF TypeOK
<1> QED
  BY <1>3, <1>4, <1>5, <1>6, <1>7, <1>8 DEF TabKept

LEMMA UploadPutKeeps ==
  ASSUME TypeOK, StudyInv, NEW c \in Calls, NEW a \in Assets, UploadPut(c, a)
  PROVE  TypeOK' /\ StudyInv'
<1>1. calls[c] \in Call /\ calls[c].pc = "builder" /\ calls[c].asset = NoAsset
  BY DEF UploadPut, TypeOK, StudyInv, TabsInv, UploadsAreApart
<1>2. PICK pc \in {"builder", "put"}, b \in {a, NoAsset} :
        /\ calls' = [calls EXCEPT ![c] = TabAfter(c, pc, b)]
        /\ pc = "put" <=> b = a
  <2>1. calls[c] = TabAfter(c, "builder", NoAsset)
    BY <1>1 DEF Call, TabAfter
  <2>2. \/ calls' = [calls EXCEPT ![c] = TabAfter(c, "put", a)]
        \/ calls' = [calls EXCEPT ![c] = TabAfter(c, "builder", NoAsset)]
    BY <2>1 DEF UploadPut, Moves, TabAfter
  <2>3. a # NoAsset
    BY StudyAssumption
  <2> QED
    BY <2>2, <2>3
<1>3. /\ UNCHANGED <<studies, versions, media, offered>>
      /\ objects' = objects \cup {a}
      /\ media[a] = NoStudy /\ \A d \in Calls : calls[d].asset # a
  BY DEF UploadPut, Fresh
<1>4. TabKept(c, pc, b)
  <2>1. /\ pc \in {"builder", "put", "unstoring"} /\ b \in Assets \cup {NoAsset}
        /\ calls[c].pc \in {"builder", "put", "unstoring"}
        /\ UNCHANGED versions /\ offered \subseteq offered' /\ TabsInv
    BY <1>1, <1>3 DEF StudyInv
  <2> QED
    BY <1>2, <2>1, UploadMoves
<1>5. UploadsAreApart'
  BY <1>2, <1>3, <1>4, StudyAssumption DEF StudyInv, TabsInv, UploadsAreApart, TabKept
<1>6. OfferedIsStored'
  BY <1>1, <1>2, <1>3, <1>4, StudyAssumption DEF StudyInv, TabsInv, OfferedIsStored, TypeOK, TabKept
<1>7. RowsInv'
  BY <1>3, RowsStay DEF StudyInv
<1>8. TypeOK'
  BY <1>3, <1>4 DEF TypeOK, TabKept
<1> QED
  BY <1>4, <1>5, <1>6, <1>7, <1>8 DEF StudyInv, TabsInv, TabKept

LEMMA UploadCommitKeeps ==
  ASSUME TypeOK, StudyInv, NEW c \in Calls, UploadCommit(c)
  PROVE  TypeOK' /\ StudyInv'
<1>1. /\ calls[c] \in Call /\ calls[c].pc = "put"
      /\ calls[c].asset \in Assets /\ calls[c].asset \in objects
      /\ calls[c].study \in Studies
  BY DEF UploadCommit, TypeOK, Call, StudyInv, TabsInv, UploadsAreApart, CallsKnowTheirStudy
<1>2. PICK a \in Assets : a = calls[c].asset
  BY <1>1
<1>3. /\ UNCHANGED <<studies, versions, objects>>
      /\ media' = [media EXCEPT ![a] = calls[c].study]
  BY <1>2 DEF UploadCommit
<1>4. media' \in [Assets -> Studies \cup {NoStudy}]
  BY <1>1, <1>3 DEF TypeOK
<1>5. \A b \in Assets : media[b] # NoStudy => media'[b] # NoStudy
  BY <1>1, <1>3, StudyAssumption DEF TypeOK
<1>6. media'[a] # NoStudy
  BY <1>1, <1>3, StudyAssumption DEF TypeOK
<1>7. PICK pc \in {"builder", "put", "unstoring"}, b \in Assets \cup {NoAsset} :
        /\ calls' = [calls EXCEPT ![c] = TabAfter(c, pc, b)]
        /\ \/ pc = "unstoring" /\ b = a
           \/ pc = "builder" /\ b = NoAsset
        /\ offered' = IF pc = "builder" THEN offered \cup {a} ELSE offered
  <2>1. [calls[c] EXCEPT !.pc = "unstoring"] = TabAfter(c, "unstoring", a)
    BY <1>1, <1>2 DEF Call, TabAfter
  <2>2. \/ /\ calls' = [calls EXCEPT ![c] = TabAfter(c, "builder", NoAsset)]
           /\ offered' = offered \cup {a}
        \/ /\ calls' = [calls EXCEPT ![c] = TabAfter(c, "unstoring", a)]
           /\ offered' = offered
    BY <1>2, <2>1 DEF UploadCommit, Moves, ToBuilder, TabAfter
  <2>3. a # NoAsset
    BY StudyAssumption
  <2> QED
    BY <2>2, <2>3
<1>8. offered \subseteq offered' /\ offered' \in SUBSET Assets
  BY <1>7 DEF TypeOK
<1>9. TabKept(c, pc, b)
  <2>1. TabsInv
    BY DEF StudyInv
  <2>2. calls[c].pc \in {"builder", "put", "unstoring"}
    BY <1>1
  <2>3. calls' = [calls EXCEPT ![c] = TabAfter(c, pc, b)]
    BY <1>7
  <2>4. UNCHANGED versions
    BY <1>3
  <2>5. offered \subseteq offered'
    BY <1>8
  <2> QED
    BY <2>1, <2>2, <2>3, <2>4, <2>5, UploadMoves
<1>10. UploadsAreApart'
  BY <1>1, <1>2, <1>3, <1>7, <1>9, StudyAssumption DEF StudyInv, TabsInv, UploadsAreApart, TabKept
<1>11. OfferedIsStored'
  <2>1. \A d \in Calls \ {c} : calls[d].asset # a
    BY <1>1, <1>2, StudyAssumption DEF StudyInv, TabsInv, UploadsAreApart
  <2>2. a \notin offered
    BY <1>2 DEF StudyInv, TabsInv, OfferedIsStored
  <2>3. CASE pc = "builder"
    BY <1>1, <1>2, <1>3, <1>5, <1>6, <1>7, <1>9, <2>1, <2>3, StudyAssumption
    DEF StudyInv, TabsInv, OfferedIsStored, TypeOK, TabKept
  <2>4. CASE pc # "builder"
    BY <1>3, <1>5, <1>7, <1>9, <2>2, <2>4, StudyAssumption
    DEF StudyInv, TabsInv, OfferedIsStored, TypeOK, TabKept
  <2> QED
    BY <2>3, <2>4
<1>12. RowsInv'
  BY <1>3, <1>8, RowsStay DEF StudyInv
<1>13. TypeOK'
  BY <1>3, <1>4, <1>8, <1>9 DEF TypeOK, TabKept
<1> QED
  BY <1>9, <1>10, <1>11, <1>12, <1>13 DEF StudyInv, TabsInv, TabKept

LEMMA UploadFailsKeeps ==
  ASSUME TypeOK, StudyInv, NEW c \in Calls, UploadFails(c)
  PROVE  TypeOK' /\ StudyInv'
<1>1. calls[c] \in Call /\ TabFits(calls[c]) /\ calls[c].pc = "put"
  BY CallFits DEF StudyInv, UploadFails, Moves
<1>2. PICK call : call = [calls[c] EXCEPT !.pc = "unstoring"]
  OBVIOUS
<1>3. call \in Call /\ call.asset = calls[c].asset
  BY <1>1, <1>2 DEF Call
<1>4. TabFits(call)
  BY <1>1, <1>2 DEF TabFits, Call
<1> QED
  BY <1>2, <1>3, <1>4, ReadKeeps DEF UploadFails, Moves

(* The object deleted is one nobody was offered. *)
LEMMA UploadUndoneKeeps ==
  ASSUME TypeOK, StudyInv, NEW c \in Calls, UploadUndone(c)
  PROVE  TypeOK' /\ StudyInv'
<1>1. /\ calls[c] \in Call /\ calls[c].pc = "unstoring"
      /\ calls[c].asset \in Assets
  BY DEF UploadUndone, TypeOK, Call, StudyInv, TabsInv, UploadsAreApart
<1>2. /\ UNCHANGED <<studies, versions, media, offered>>
      /\ objects' \in {objects, objects \ {calls[c].asset}}
      /\ calls' = [calls EXCEPT ![c] = TabAfter(c, "builder", NoAsset)]
  BY DEF UploadUndone, Moves, ToBuilder, TabAfter
<1>3. TabKept(c, "builder", NoAsset)
  BY <1>1, <1>2, UploadMoves DEF StudyInv
<1>4. UploadsAreApart'
  BY <1>1, <1>2, <1>3, StudyAssumption DEF StudyInv, TabsInv, UploadsAreApart, TabKept
<1>5. OfferedIsStored'
  BY <1>1, <1>2, <1>3, StudyAssumption DEF StudyInv, TabsInv, OfferedIsStored, TypeOK, TabKept
<1>6. RowsInv'
  BY <1>2, RowsStay DEF StudyInv
<1>7. TypeOK'
  BY <1>2, <1>3 DEF TypeOK, TabKept
<1> QED
  BY <1>3, <1>4, <1>5, <1>6, <1>7 DEF StudyInv, TabsInv, TabKept

-----------------------------------------------------------------------------
(* The theorems. *)

LEMMA InitKeeps == Init => TypeOK /\ StudyInv
<1> SUFFICES ASSUME Init PROVE TypeOK /\ StudyInv
  OBVIOUS
<1>1. IdleCall \in Call /\ TabFits(IdleCall) /\ IdleCall.asset = NoAsset
  BY IdleFits
<1>2. NoDraft \in Definition /\ NoDraft.images = {}
  BY DEF NoDraft, Definition
<1>3. TypeOK
  BY <1>1, <1>2 DEF Init, TypeOK, Study
<1>4. RowsInv
  BY <1>2 DEF Init, RowsInv, VersionsNumbered, PublishedIsValid, UnpublishedHasNoVersion,
              LiveHasVersion, RowsShowOffered
<1>5. IdleCall.pc = "idle" /\ IdleCall.shown = "none" /\ IdleCall.draft = NoDraft
  BY DEF IdleCall
<1>6. TabsInv
  BY <1>1, <1>2, <1>5 DEF Init, TabsInv, CallsKnowTheirStudy, PagesShowPublished,
       PublishersAreReady, UploadsAreApart, OfferedIsStored, TabsShowOffered
<1> QED
  BY <1>3, <1>4, <1>6 DEF StudyInv

LEMMA NextKeeps == TypeOK /\ StudyInv /\ [Next]_vars => TypeOK' /\ StudyInv'
<1> SUFFICES ASSUME TypeOK, StudyInv, [Next]_vars PROVE TypeOK' /\ StudyInv'
  OBVIOUS
<1>1. CASE UNCHANGED vars
  BY <1>1 DEF vars, TypeOK, StudyInv, RowsInv, TabsInv, VersionsNumbered, PublishedIsValid,
       UnpublishedHasNoVersion, LiveHasVersion, RowsShowOffered, Taken, CallsKnowTheirStudy,
       PagesShowPublished, PublishersAreReady, UploadsAreApart, OfferedIsStored, TabsShowOffered
<1>2. ASSUME NEW c \in Calls, StudyStep(c)
      PROVE  TypeOK' /\ StudyInv'
  <2>1. CASE \E s \in Studies, filled \in BOOLEAN : CreateStudy(c, s, filled)
    BY <2>1, CreateKeeps
  <2>2. CASE \E s \in Studies : OpenPage(c, s)
    BY <2>2, OpenKeeps
  <2>3. CASE PublishRead(c)
    BY <2>3, PublishReadKeeps
  <2>4. CASE PublishNumber(c)
    BY <2>4, PublishNumberKeeps
  <2>5. CASE PublishCommit(c)
    BY <2>5, PublishCommitKeeps
  <2>6. CASE PublishFails(c)
    BY <2>6, EndKeeps DEF PublishFails, Ends, Moves
  <2>7. CASE \E st \in Statuses : SetStudyStatus(c, st)
    BY <2>7, SetStatusKeeps
  <2>8. CASE DeleteCount(c)
    BY <2>8, DeleteCountKeeps
  <2>9. CASE DeleteStudy(c)
    BY <2>9, DeleteKeeps
  <2>10. CASE DuplicateRead(c)
    BY <2>10, DuplicateReadKeeps
  <2>11. CASE \E t \in Studies : DuplicateInsert(c, t)
    BY <2>11, DuplicateKeeps
  <2> QED
    BY <1>2, <2>1, <2>2, <2>3, <2>4, <2>5, <2>6, <2>7, <2>8, <2>9, <2>10, <2>11 DEF StudyStep
<1>3. ASSUME NEW c \in Calls, BuilderStep(c)
      PROVE  TypeOK' /\ StudyInv'
  <2>1. CASE \E s \in Studies : OpenBuilder(c, s)
    BY <2>1, OpenKeeps
  <2>2. CASE \E definition \in Definition : SaveDraft(c, definition)
    BY <2>2, SaveKeeps
  <2>3. CASE \E a \in Assets : UploadPut(c, a)
    BY <2>3, UploadPutKeeps
  <2>4. CASE UploadCommit(c)
    BY <2>4, UploadCommitKeeps
  <2>5. CASE UploadFails(c)
    BY <2>5, UploadFailsKeeps
  <2>6. CASE UploadUndone(c)
    BY <2>6, UploadUndoneKeeps
  <2> QED
    BY <1>3, <2>1, <2>2, <2>3, <2>4, <2>5, <2>6 DEF BuilderStep
<1>4. ASSUME NEW c \in Calls, Leave(c)
      PROVE  TypeOK' /\ StudyInv'
  BY <1>4, EndKeeps DEF Leave
<1> QED
  BY <1>1, <1>2, <1>3, <1>4 DEF Next

(* The versions of a study are only added to. *)
LEMMA VersionsStay ==
  ASSUME TypeOK, StudyInv, [Next]_vars
  PROVE  \A s \in Studies : versions[s] \subseteq versions'[s]
<1>1. CASE UNCHANGED versions
  BY <1>1
<1>2. ASSUME NEW c \in Calls, PublishCommit(c)
      PROVE  \A s \in Studies : versions[s] \subseteq versions'[s]
  BY <1>2, PublishCommitKeeps
<1>3. ASSUME NEW c \in Calls, DeleteStudy(c)
      PROVE  UNCHANGED versions
  BY <1>3, DeleteKeeps
<1>4. \/ UNCHANGED versions
      \/ \E c \in Calls : PublishCommit(c) \/ DeleteStudy(c)
  <2>1. CASE UNCHANGED vars
    BY <2>1 DEF vars
  <2>2. ASSUME NEW c \in Calls, StudyStep(c), ~PublishCommit(c), ~DeleteStudy(c)
        PROVE  UNCHANGED versions
    BY <2>2 DEF StudyStep, CreateStudy, OpenPage, PublishRead, PublishNumber, PublishFails,
                SetStudyStatus, DeleteCount, DuplicateRead, DuplicateInsert
  <2>3. ASSUME NEW c \in Calls, BuilderStep(c) \/ Leave(c)
        PROVE  UNCHANGED versions
    BY <2>3 DEF BuilderStep, Leave, OpenBuilder, SaveDraft, UploadPut, UploadCommit,
                UploadFails, UploadUndone
  <2> QED
    BY <2>1, <2>2, <2>3 DEF Next
<1> QED
  BY <1>1, <1>2, <1>3, <1>4

(* StudyInv holds in every state of the system: studies/actions.ts and     *)
(* stimulus-actions.ts keep it under every interleaving.                   *)
THEOREM StudyInvCorrect == Spec => [](TypeOK /\ StudyInv)
<1>1. Init => TypeOK /\ StudyInv
  BY InitKeeps
<1>2. TypeOK /\ StudyInv /\ [Next]_vars => (TypeOK /\ StudyInv)'
  BY NextKeeps
<1> QED
  BY <1>1, <1>2, PTL DEF Spec

(* Every variable keeps its type. *)
THEOREM TypeCorrect == Spec => []TypeOK
BY StudyInvCorrect, PTL

(* The versions of a study are numbered 1, 2, ... for any number of tabs   *)
(* that publish it at once (publishStudy).                                 *)
THEOREM NumberedCorrect == Spec => []VersionsNumbered
<1>1. StudyInv => VersionsNumbered
  BY DEF StudyInv, RowsInv
<1> QED
  BY <1>1, StudyInvCorrect, PTL

(* Only validated definitions are published (publishStudy). *)
THEOREM ValidCorrect == Spec => []PublishedIsValid
<1>1. StudyInv => PublishedIsValid
  BY DEF StudyInv, RowsInv
<1> QED
  BY <1>1, StudyInvCorrect, PTL

(* No stale page makes a study live that was never published               *)
(* (setStudyStatus behind the buttons of the study page).                  *)
THEOREM LiveCorrect == Spec => []LiveHasVersion
<1>1. StudyInv => LiveHasVersion
  BY DEF StudyInv, RowsInv
<1> QED
  BY <1>1, StudyInvCorrect, PTL

(* Every image a definition shows has its row and its object               *)
(* (uploadStimulus, duplicateStudy, deleteStudy).                          *)
THEOREM ImagesCorrect == Spec => []ShownImagesAreStored
<1>1. StudyInv => ShownImagesAreStored
  <2> SUFFICES ASSUME StudyInv, NEW s \in Studies, NEW a \in Shown(s)
               PROVE  media[a] # NoStudy /\ a \in objects
    BY DEF ShownImagesAreStored
  <2>1. a \in offered
    BY DEF Shown, StudyInv, RowsInv, RowsShowOffered
  <2> QED
    BY <2>1 DEF StudyInv, TabsInv, OfferedIsStored
<1> QED
  BY <1>1, StudyInvCorrect, PTL

(* A published version is never changed or removed (publishStudy against   *)
(* deleteStudy).                                                           *)
THEOREM ImmutableCorrect == Spec => VersionsNeverChange
<1>1. TypeOK /\ StudyInv /\ [Next]_vars =>
        [\A s \in Studies : versions[s] \subseteq versions'[s]]_vars
  BY VersionsStay
<1> QED
  BY <1>1, StudyInvCorrect, PTL DEF Spec, VersionsNeverChange
=============================================================================
