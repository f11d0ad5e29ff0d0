--------------------------- MODULE StudyLifecycle ---------------------------
(***************************************************************************)
(* The studies of one organization, their published versions and their     *)
(* images: the server actions of studies/actions.ts and                    *)
(* studies/stimulus-actions.ts, called from pages that show what was true  *)
(* when they were rendered.                                                *)
(*                                                                         *)
(* Statements run at READ COMMITTED and read before they write, so each    *)
(* read of an action is a step of its own and may be stale when the        *)
(* action writes.  The writes of one transaction are one step with its     *)
(* commit: a statement that meets a row lock, or another transaction's     *)
(* uncommitted key in a unique index, waits and takes effect after that    *)
(* transaction, and no action writes what another then reads uncommitted.  *)
(*                                                                         *)
(* A definition is the set of images it shows and whether                  *)
(* validateInstrument finds no problem in it.  Distributions and responses *)
(* hang on a version by a foreign key, so a study without versions has     *)
(* none; comments, titles and rules are left out.                          *)
(***************************************************************************)
EXTENDS Naturals, FiniteSets

CONSTANTS Studies,      \* ids of studies, each used once
          Assets,       \* ids of images
          NoStudy,      \* no study
          NoAsset,      \* no image
          Calls,        \* browser tabs, each with at most one call under way
          MaxVersions   \* bound on the versions of a study

ASSUME StudyAssumption ==
  /\ NoStudy \notin Studies
  /\ NoAsset \notin Assets
  /\ MaxVersions \in Nat

VARIABLES studies,    \* status and draft of each study
          versions,   \* study_versions of each study
          media,      \* media_assets: the study an image belongs to
          objects,    \* the images in the object store
          offered,    \* the images whose upload was reported as done
          calls       \* the tabs

vars == <<studies, versions, media, objects, offered, calls>>

Definition == [valid : BOOLEAN, images : SUBSET Assets]

Statuses == {"draft", "live", "paused", "closed", "archived"}

(* "unborn" and "deleted" are ids without a row. *)
Study == [status : Statuses \cup {"unborn", "deleted"}, draft : Definition]

Numbers == 1..MaxVersions
Version == [number : Numbers, definition : Definition]

(* "page": the study page is open and shows a status.  "read", "numbered": *)
(* publishStudy after its first and second select.  "counted": deleteStudy *)
(* after the snapshot of its counts.  "copying": duplicateStudy after its  *)
(* select.  "builder": the builder is open with a definition; "put",       *)
(* "unstoring": uploadStimulus after the object is stored, in its catch.   *)
Call == [pc : {"idle", "page", "read", "numbered", "counted", "copying",
               "builder", "put", "unstoring"},
         study : Studies \cup {NoStudy}, shown : Statuses \cup {"none"},
         draft : Definition, number : Numbers \cup {0},
         dependent : BOOLEAN, asset : Assets \cup {NoAsset}]

TypeOK ==
  /\ studies \in [Studies -> Study]
  /\ versions \in [Studies -> SUBSET Version]
  /\ media \in [Assets -> Studies \cup {NoStudy}]
  /\ objects \in SUBSET Assets
  /\ offered \in SUBSET Assets
  /\ calls \in [Calls -> Call]

NoDraft == [valid |-> FALSE, images |-> {}]
IdleCall == [pc |-> "idle", study |-> NoStudy, shown |-> "none",
             draft |-> NoDraft, number |-> 0, dependent |-> FALSE,
             asset |-> NoAsset]

Init ==
  /\ studies = [s \in Studies |-> [status |-> "unborn", draft |-> NoDraft]]
  /\ versions = [s \in Studies |-> {}]
  /\ media = [a \in Assets |-> NoStudy]
  /\ objects = {}
  /\ offered = {}
  /\ calls = [c \in Calls |-> IdleCall]

-----------------------------------------------------------------------------
(* Reads. *)

Exists(s) == studies[s].status \in Statuses

(* The version numbers of s that are taken. *)
Taken(s) == {v.number : v \in versions[s]}

(* coalesce(max(version_number), 0) = n *)
IsLatest(s, n) ==
  /\ n \in Taken(s) \cup {0}
  /\ \A k \in Taken(s) : k <= n

(* No row, object or upload has this id: randomUUID. *)
Fresh(a) ==
  /\ media[a] = NoStudy
  /\ a \notin objects
  /\ \A c \in Calls : calls[c].asset # a

Moves(c, from, call) ==
  /\ calls[c].pc = from
  /\ calls' = [calls EXCEPT ![c] = call]

Ends(c, from) == Moves(c, from, IdleCall)

(* The call of tab c once it is at pc. *)
At(c, pc) == [IdleCall EXCEPT !.pc = pc, !.study = calls[c].study]

-----------------------------------------------------------------------------
(* Studies. *)

(* createStudy: blank, or from a template, which has no images of its own. *)
CreateStudy(c, s, filled) ==
  /\ calls[c].pc = "idle"
  /\ studies[s].status = "unborn"
  /\ studies' = [studies EXCEPT ![s] =
       [status |-> "draft", draft |-> [valid |-> filled, images |-> {}]]]
  /\ UNCHANGED <<versions, media, objects, offered, calls>>

(* The study page is rendered. *)
OpenPage(c, s) ==
  /\ Exists(s)
  /\ Moves(c, "idle", [IdleCall EXCEPT !.pc = "page", !.study = s,
                                       !.shown = studies[s].status])
  /\ UNCHANGED <<studies, versions, media, objects, offered>>

(* The buttons of the study page, by the status it shows. *)
CanPublish(shown) == shown \in {"draft", "live", "paused"}

\* Mutant: every study that is not live offers to be resumed.
Buttons_ResumeAny(shown) ==
  {st \in {"paused", "closed", "live", "archived"} :
     CASE st = "paused"   -> shown = "live"
       [] st = "closed"   -> shown \in {"live", "paused"}
       [] st = "live"     -> shown # "live"
       [] st = "archived" -> shown # "archived"}

Buttons(shown) ==
  {st \in {"paused", "closed", "live", "archived"} :
     CASE st = "paused"   -> shown = "live"
       [] st = "closed"   -> shown \in {"live", "paused"}
       [] st = "live"     -> shown = "paused"
       [] st = "archived" -> shown # "archived"}

(* publishStudy, first statement: the draft, and its validation. *)
PublishRead(c) ==
  LET s == calls[c].study IN
  /\ calls[c].pc = "page"
  /\ CanPublish(calls[c].shown)
  /\ IF Exists(s) /\ studies[s].draft.valid
     THEN Moves(c, "page", [At(c, "read") EXCEPT !.draft = studies[s].draft])
     ELSE Ends(c, "page")
  /\ UNCHANGED <<studies, versions, media, objects, offered>>

(* Second statement: the next version number.  Bound: MaxVersions. *)
PublishNumber(c) ==
  /\ \E n \in 0..(MaxVersions - 1) :
       /\ Moves(c, "read", [calls[c] EXCEPT !.pc = "numbered", !.number = n + 1])
       /\ IsLatest(calls[c].study, n)
  /\ UNCHANGED <<studies, versions, media, objects, offered>>

(* The inserted version and the status, which is written whatever it is. *)
Published(s, n, draft) ==
  /\ versions' = [versions EXCEPT ![s] = @ \cup {[number |-> n, definition |-> draft]}]
  /\ studies' = [studies EXCEPT ![s].status = "live"]

\* Mutant: no unique constraint on the version number.
PublishCommit_NoUnique(c) ==
  LET s == calls[c].study IN
  /\ Ends(c, "numbered")
  /\ Exists(s)
  /\ Published(s, calls[c].number, calls[c].draft)
  /\ UNCHANGED <<media, objects, offered>>

PublishCommit(c) ==
  LET s == calls[c].study IN
  /\ Ends(c, "numbered")
  /\ Exists(s)
  /\ calls[c].number \notin Taken(s)
  /\ Published(s, calls[c].number, calls[c].draft)
  /\ UNCHANGED <<media, objects, offered>>

(* The number is taken (unique) or the study is gone (foreign key). *)
PublishFails(c) ==
  LET s == calls[c].study IN
  /\ Ends(c, "numbered")
  /\ ~Exists(s) \/ calls[c].number \in Taken(s)
  /\ UNCHANGED <<studies, versions, media, objects, offered>>

(* setStudyStatus: any status may follow any other on the server. *)
SetStudyStatus(c, st) ==
  LET s == calls[c].study IN
  /\ Ends(c, "page")
  /\ st \in Buttons(calls[c].shown)
  /\ studies' = IF Exists(s) THEN [studies EXCEPT ![s].status = st] ELSE studies
  /\ UNCHANGED <<versions, media, objects, offered>>

(* deleteStudy: the select for update takes its counts from the snapshot   *)
(* it starts with and then waits for the row.                              *)
DeleteCount(c) ==
  /\ calls[c].pc = "page"
  /\ Moves(c, "page", [At(c, "counted") EXCEPT
                         !.dependent = versions[calls[c].study] # {}])
  /\ UNCHANGED <<studies, versions, media, objects, offered>>

\* Mutant: the counts of the snapshot decide alone.
Deletable_Snapshot(c) == ~calls[c].dependent

(* What deleteStudy tests, with the row as it is once it is locked. *)
Deletable(c) ==
  /\ studies[calls[c].study].status = "draft"
  /\ ~calls[c].dependent

(* Images refer to the study without cascade: the delete of their study    *)
(* fails.  Versions go with it.  There are then no objects to clean up.    *)
HasImages(s) == \E a \in Assets : media[a] = s

Removed(s) ==
  /\ studies' = [studies EXCEPT ![s] = [status |-> "deleted", draft |-> NoDraft]]
  /\ versions' = [versions EXCEPT ![s] = {}]

\* Mutant: images are deleted with their study, rows and objects.
DeleteStudy_Cascade(c) ==
  LET s == calls[c].study
      images == {a \in Assets : media[a] = s} IN
  /\ Ends(c, "counted")
  /\ IF Deletable(c)
     THEN /\ Removed(s)
          /\ media' = [a \in Assets |-> IF a \in images THEN NoStudy ELSE media[a]]
          /\ objects' = objects \ images
     ELSE UNCHANGED <<studies, versions, media, objects>>
  /\ UNCHANGED offered

DeleteStudy(c) ==
  LET s == calls[c].study IN
  /\ Ends(c, "counted")
  /\ IF Deletable(c) /\ ~HasImages(s)
     THEN Removed(s)
     ELSE UNCHANGED <<studies, versions>>
  /\ UNCHANGED <<media, objects, offered>>

(* duplicateStudy: the select, then the insert; the copy shows the images  *)
(* of its source, which stay the source's.                                 *)
DuplicateRead(c) ==
  LET s == calls[c].study IN
  /\ calls[c].pc = "page"
  /\ IF Exists(s)
     THEN Moves(c, "page", [At(c, "copying") EXCEPT !.draft = studies[s].draft])
     ELSE Ends(c, "page")
  /\ UNCHANGED <<studies, versions, media, objects, offered>>

DuplicateInsert(c, t) ==
  /\ studies[t].status = "unborn"
  /\ Ends(c, "copying")
  /\ studies' = [studies EXCEPT ![t] = [status |-> "draft", draft |-> calls[c].draft]]
  /\ UNCHANGED <<versions, media, objects, offered>>

-----------------------------------------------------------------------------
(* The builder and its images. *)

OpenBuilder(c, s) ==
  /\ Exists(s)
  /\ Moves(c, "idle", [IdleCall EXCEPT !.pc = "builder", !.study = s,
                                       !.draft = studies[s].draft])
  /\ UNCHANGED <<studies, versions, media, objects, offered>>

Editable == {"draft", "live", "paused"}

(* What a builder can put in a definition: the images of the one it has    *)
(* and those it has been told are uploaded to its study.                   *)
Available(c) ==
  calls[c].draft.images \cup {a \in offered : media[a] = calls[c].study}

(* updateDraft: one statement, the last writer wins.  A refused save       *)
(* leaves the builder open with what it has.                               *)
SaveDraft(c, definition) ==
  LET s == calls[c].study IN
  /\ calls[c].pc = "builder"
  /\ definition.images \subseteq Available(c)
  /\ Moves(c, "builder", [calls[c] EXCEPT !.draft = definition])
  /\ studies' = IF studies[s].status \in Editable
                THEN [studies EXCEPT ![s].draft = definition]
                ELSE studies
  /\ UNCHANGED <<versions, media, objects, offered>>

(* uploadStimulus: the study is there, the object is stored.  The store    *)
(* may keep the object and yet report an error; nothing remembers it then. *)
UploadPut(c, a) ==
  /\ calls[c].pc = "builder"
  /\ Exists(calls[c].study)
  /\ Fresh(a)
  /\ objects' = objects \cup {a}
  /\ \/ Moves(c, "builder", [calls[c] EXCEPT !.pc = "put", !.asset = a])
     \/ Moves(c, "builder", calls[c])
  /\ UNCHANGED <<studies, versions, media, offered>>

ToBuilder(call) == [call EXCEPT !.pc = "builder", !.asset = NoAsset]

(* The row is inserted and the transaction commits: the reply offers the   *)
(* image to the builder, or is lost on its way to the server action.       *)
UploadCommit(c) ==
  /\ calls[c].pc = "put"
  /\ Exists(calls[c].study)
  /\ media' = [media EXCEPT ![calls[c].asset] = calls[c].study]
  /\ \/ /\ Moves(c, "put", ToBuilder(calls[c]))
        /\ offered' = offered \cup {calls[c].asset}
     \/ /\ Moves(c, "put", [calls[c] EXCEPT !.pc = "unstoring"])
        /\ UNCHANGED offered
  /\ UNCHANGED <<studies, versions, objects>>

(* The study is gone or the transaction rolls back. *)
UploadFails(c) ==
  /\ Moves(c, "put", [calls[c] EXCEPT !.pc = "unstoring"])
  /\ UNCHANGED <<studies, versions, media, objects, offered>>

(* The catch block deletes the object; that failure is swallowed. *)
UploadUndone(c) ==
  /\ calls[c].pc = "unstoring"
  /\ Moves(c, "unstoring", ToBuilder(calls[c]))
  /\ objects' \in {objects, objects \ {calls[c].asset}}
  /\ UNCHANGED <<studies, versions, media, offered>>

(* A tab is closed, a server dies, a connection drops before the commit. *)
Leave(c) ==
  /\ calls[c].pc # "idle"
  /\ calls' = [calls EXCEPT ![c] = IdleCall]
  /\ UNCHANGED <<studies, versions, media, objects, offered>>

-----------------------------------------------------------------------------

StudyStep(c) ==
  \/ \E s \in Studies, filled \in BOOLEAN : CreateStudy(c, s, filled)
  \/ \E s \in Studies : OpenPage(c, s)
  \/ PublishRead(c)
  \/ PublishNumber(c)
  \/ PublishCommit(c)
  \/ PublishFails(c)
  \/ \E st \in Statuses : SetStudyStatus(c, st)
  \/ DeleteCount(c)
  \/ DeleteStudy(c)
  \/ DuplicateRead(c)
  \/ \E t \in Studies : DuplicateInsert(c, t)

BuilderStep(c) ==
  \/ \E s \in Studies : OpenBuilder(c, s)
  \/ \E definition \in Definition : SaveDraft(c, definition)
  \/ \E a \in Assets : UploadPut(c, a)
  \/ UploadCommit(c)
  \/ UploadFails(c)
  \/ UploadUndone(c)

Next == \E c \in Calls : StudyStep(c) \/ BuilderStep(c) \/ Leave(c)

Spec == Init /\ [][Next]_vars

-----------------------------------------------------------------------------
(* Properties. *)

(* The versions of a study are numbered 1, 2, ... without a gap and        *)
(* without a number given twice, whoever publishes at the same time: the   *)
(* number is read in one statement of publishStudy and used in another.    *)
VersionsNumbered ==
  \A s \in Studies :
    /\ \A v, w \in versions[s] : v.number = w.number => v = w
    /\ \A v \in versions[s] : 1..v.number \subseteq Taken(s)

(* What is published has passed validation, although the draft may have    *)
(* been saved again since publishStudy read it.                            *)
PublishedIsValid ==
  \A s \in Studies : \A v \in versions[s] : v.definition.valid

(* A study that respondents can reach, or could, has something to answer:  *)
(* no button of a stale page makes a study live that was never published.  *)
LiveHasVersion ==
  \A s \in Studies :
    studies[s].status \in {"live", "paused", "closed"} => versions[s] # {}

(* "Published study versions never change": neither a second publication,  *)
(* nor a deletion that read its counts before a publication committed,     *)
(* changes or removes a version.                                           *)
VersionsNeverChange == [][\A s \in Studies : versions[s] \subseteq versions'[s]]_vars

(* The images a definition shows can be served: each has its row and its   *)
(* object, in the draft and in every version, in copies of a study too,    *)
(* whatever uploads failed halfway and whichever study was deleted.        *)
Shown(s) == studies[s].draft.images \cup UNION {v.definition.images : v \in versions[s]}

ShownImagesAreStored ==
  \A s \in Studies : \A a \in Shown(s) : media[a] # NoStudy /\ a \in objects

(* deleteStudy deletes a draft nothing depends on. *)
DraftsAreDeleted ==
  [][\A c \in Calls : DeleteStudy(c) /\ Deletable(c) =>
       studies'[calls[c].study].status = "deleted"]_vars

-----------------------------------------------------------------------------
(* The inductive invariant. *)

CallsKnowTheirStudy == \A c \in Calls : calls[c].pc # "idle" => calls[c].study \in Studies

(* deleteStudy relies on the status: what may be deleted has no version,   *)
(* however old its counts are.                                             *)
UnpublishedHasNoVersion ==
  \A s \in Studies : studies[s].status \in {"unborn", "draft", "deleted"} => versions[s] = {}

(* A page that once showed a published study still speaks of one. *)
PagesShowPublished ==
  \A c \in Calls :
    calls[c].shown \in {"live", "paused", "closed"} =>
      calls[c].study \in Studies /\ versions[calls[c].study] # {}

(* A publication under way has a valid draft, and all numbers below its    *)
(* own are taken.                                                          *)
PublishersAreReady ==
  \A c \in Calls :
    /\ calls[c].pc \in {"read", "numbered"} => calls[c].draft.valid
    /\ calls[c].pc = "numbered" =>
         calls[c].number \in Numbers /\ 1..(calls[c].number - 1) \subseteq Taken(calls[c].study)

(* Two uploads never share an image, and the object is there until the     *)
(* catch block deletes it.                                                 *)
UploadsAreApart ==
  \A c \in Calls :
    /\ calls[c].pc \in {"put", "unstoring"} <=> calls[c].asset # NoAsset
    /\ calls[c].pc = "put" => calls[c].asset \in objects
    /\ \A d \in Calls \ {c} : calls[c].asset = calls[d].asset => calls[c].asset = NoAsset

OfferedIsStored ==
  \A a \in offered :
    /\ media[a] # NoStudy
    /\ a \in objects
    /\ \A c \in Calls : calls[c].asset # a

(* Drafts, versions and tabs show images that were offered, no others. *)
RowsShowOffered ==
  \A s \in Studies :
    /\ studies[s].draft.images \subseteq offered
    /\ \A v \in versions[s] : v.definition.images \subseteq offered

TabsShowOffered == \A c \in Calls : calls[c].draft.images \subseteq offered

RowsInv ==
  /\ VersionsNumbered
  /\ PublishedIsValid
  /\ UnpublishedHasNoVersion
  /\ LiveHasVersion
  /\ RowsShowOffered

TabsInv ==
  /\ CallsKnowTheirStudy
  /\ PagesShowPublished
  /\ PublishersAreReady
  /\ UploadsAreApart
  /\ OfferedIsStored
  /\ TabsShowOffered

(* What keeps the properties true: StudyInv is inductive.  The properties  *)
(* are not: they say nothing of the tabs, whose stale reads they outlive.  *)
StudyInv == RowsInv /\ TabsInv
=============================================================================
