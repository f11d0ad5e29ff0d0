----------------------------- MODULE PanelImport -----------------------------
(***************************************************************************)
(* The panel of one organization and the transactions that change it:      *)
(*   - an import, reviewed by dryRunStep and carried out by commitStep in  *)
(*     three transactions (claim the batch; plan, write and document it;   *)
(*     record a failure), with the recovery of abandoned batches;          *)
(*   - a public recruitment submission (lookup by e-mail, then write);     *)
(*   - the anonymization of a panelist (children, then the row).           *)
(*                                                                         *)
(* The database runs at READ COMMITTED.  A transaction's writes become     *)
(* visible at its commit, so an action stands for one or more statements   *)
(* between two points at which the transaction can see, or be blocked by,  *)
(* another.  Two locks matter:                                             *)
(*   - the organization row, taken FOR UPDATE by an import before it       *)
(*     plans.  Every insert of a row with an org_id takes the same row FOR *)
(*     KEY SHARE (its foreign key), so a transaction that inserts, the     *)
(*     audit event of an anonymization included, waits for the import to   *)
(*     end: the conjunct OrgFree;                                          *)
(*   - the attribute rows an anonymization has deleted and not committed.  *)
(*                                                                         *)
(* Rows are matched on the e-mail address: the deduplication rule "email". *)
(* A file is the set of keys of its valid rows.  Names, phone numbers and  *)
(* the other identity columns are one Boolean; so are the attribute values *)
(* (all of one custom field) with the tags.                                *)
(***************************************************************************)
EXTENDS Naturals, FiniteSets, Sequences

CONSTANTS Keys,         \* e-mail addresses
          NoKey,        \* a null e-mail
          Batches,      \* ids of import batches
          NoBatch,      \* a null import_batch_id
          Calls,        \* server-action calls of the import wizard
          Pages,        \* recruitment pages, each locked by its submission
          Officers,     \* anonymizations in progress
          MaxRecruits   \* bound on the rows recruitment inserts

ASSUME PanelAssumption ==
  /\ NoKey \notin Keys
  /\ NoBatch \notin Batches
  /\ MaxRecruits \in Nat
  /\ IsFiniteSet(Keys)

VARIABLES panel,    \* panelists of the organization, in order of insertion
          batches,  \* import_batches
          calls,    \* the import calls
          pages,    \* the recruitment submissions
          scrubs    \* the anonymizations

vars == <<panel, batches, calls, pages, scrubs>>

Panelists == DOMAIN panel

(* No panelist; indices of the panel start at 1. *)
NoRow == 0

Row == [key : Keys \cup {NoKey}, name : BOOLEAN, attrs : BOOLEAN,
        anonymized : BOOLEAN, batch : Batches \cup {NoBatch},
        origin : {"import", "recruitment"}]

Counts == [create : Nat, update : Nat, before : Nat]

Batch == [status : {"none", "dry_run", "committing", "committed", "failed"},
          file : SUBSET Keys, counts : Counts, stale : BOOLEAN]

(* "reviewing": dryRunStep between its select and its count.  "prepared":  *)
(* the claim committed.  "locked" to "written": inside the second          *)
(* transaction of commitStep.  "failing": in its catch block.              *)
Call == [pc : {"idle", "reviewing", "prepared", "locked", "selected",
               "planned", "written", "failing"},
         batch : Batches \cup {NoBatch}, file : SUBSET Keys,
         creates : SUBSET Keys, updates : SUBSET (Keys \X (Nat \ {0})),
         before : Nat]

Page == [pc : {"idle", "looked"}, key : Keys \cup {NoKey}, row : Nat]

Scrub == [row : Nat, held : BOOLEAN]

TypeOK ==
  /\ panel \in Seq(Row)
  /\ batches \in [Batches -> Batch]
  /\ calls \in [Calls -> Call]
  /\ pages \in [Pages -> Page]
  /\ scrubs \in [Officers -> Scrub]

IdleCall == [pc |-> "idle", batch |-> NoBatch, file |-> {},
             creates |-> {}, updates |-> {}, before |-> 0]
IdlePage == [pc |-> "idle", key |-> NoKey, row |-> NoRow]
IdleScrub == [row |-> NoRow, held |-> FALSE]

Init ==
  /\ panel = <<>>
  /\ batches = [b \in Batches |->
       [status |-> "none", file |-> {}, stale |-> FALSE,
        counts |-> [create |-> 0, update |-> 0, before |-> 0]]]
  /\ calls = [c \in Calls |-> IdleCall]
  /\ pages = [g \in Pages |-> IdlePage]
  /\ scrubs = [o \in Officers |-> IdleScrub]

-----------------------------------------------------------------------------
(* Locks and reads. *)

(* The transaction that plans, writes and documents an import. *)
CommitSteps == {"locked", "selected", "planned", "written"}
InCommit(c) == calls[c].pc \in CommitSteps

(* Nobody holds the organization row FOR UPDATE. *)
OrgFree == \A c \in Calls : ~InCommit(c)

(* The batch row is locked for update by the import that writes it. *)
BatchLocked(b) == \E c \in Calls : InCommit(c) /\ calls[c].batch = b

(* An anonymization has deleted the attribute values of r, uncommitted. *)
AttrsHeld(r) == \E o \in Officers : scrubs[o].held /\ scrubs[o].row = r

(* Attribute values of r written by an import that has not committed. *)
AttrsWritten(r) ==
  \E c \in Calls : calls[c].pc = "written" /\ \E k \in Keys : <<k, r>> \in calls[c].updates

RowsOf(k) == {r \in Panelists : panel[r].key = k}

Known(file) == {k \in file : RowsOf(k) # {}}

(* The row an existing key is matched with: byKey keeps one of several. *)
Matches(file) ==
  {m \in [Known(file) -> Panelists] : \A k \in Known(file) : m[k] \in RowsOf(k)}

Recruited == {r \in Panelists : panel[r].origin = "recruitment"}

-----------------------------------------------------------------------------
(* The wizard: review, claim, recovery. *)

\* Mutant: the comparison with the lease turned round.
StaleCommits_Inverted == {b \in Batches : batches[b].status = "committing" /\ ~batches[b].stale}

(* recoverStalePanelImports: an update of every batch whose lease is older *)
(* than 15 minutes.  It waits for a batch row an import holds, and then    *)
(* looks at the status again.                                              *)
StaleCommits == {b \in Batches : batches[b].status = "committing" /\ batches[b].stale}

CanRecover == \A b \in StaleCommits : ~BatchLocked(b)

Recovered == [b \in Batches |->
  IF b \in StaleCommits THEN [batches[b] EXCEPT !.status = "failed"] ELSE batches[b]]

(* planPanelImport, first statement: the rows of the panel the file matches. *)
Planned(call, file, m, pc) ==
  [call EXCEPT !.pc = pc, !.file = file, !.creates = file \ Known(file),
               !.updates = {<<k, m[k]>> : k \in Known(file)}]

DryRunSelect(c) ==
  /\ calls[c].pc = "idle"
  /\ \E file \in (SUBSET Keys) \ {{}} : \E m \in Matches(file) :
       calls' = [calls EXCEPT ![c] = Planned(calls[c], file, m, "reviewing")]
  /\ UNCHANGED <<panel, batches, pages, scrubs>>

(* dryRunStep counts the panel, inserts the batch and commits, with the    *)
(* recovery its transaction began with.                                    *)
DryRunSave(c, b) ==
  /\ calls[c].pc = "reviewing"
  /\ batches[b].status = "none"
  /\ OrgFree
  /\ CanRecover
  /\ batches' = [Recovered EXCEPT ![b] =
       [status |-> "dry_run", file |-> calls[c].file, stale |-> FALSE,
        counts |-> [create |-> Cardinality(calls[c].creates),
                    update |-> Cardinality(calls[c].file \ calls[c].creates),
                    before |-> Len(panel)]]]
  /\ calls' = [calls EXCEPT ![c] = IdleCall]
  /\ UNCHANGED <<panel, pages, scrubs>>

(* First transaction of commitStep: recovery, then the claim of the batch  *)
(* for the file that was reviewed.                                         *)
StartPanelImportCommit(c, b) ==
  /\ calls[c].pc = "idle"
  /\ batches[b].status = "dry_run"
  /\ CanRecover
  /\ batches' = [Recovered EXCEPT ![b].status = "committing"]
  /\ calls' = [calls EXCEPT ![c] =
       [IdleCall EXCEPT !.pc = "prepared", !.batch = b, !.file = batches[b].file]]
  /\ UNCHANGED <<panel, pages, scrubs>>

(* 15 minutes pass since the claim of b. *)
LeaseExpires(b) ==
  /\ batches[b].status = "committing"
  /\ ~batches[b].stale
  /\ batches' = [batches EXCEPT ![b].stale = TRUE]
  /\ UNCHANGED <<panel, calls, pages, scrubs>>

(* A visit to the import history. *)
ListBatches ==
  /\ StaleCommits # {}
  /\ CanRecover
  /\ batches' = Recovered
  /\ UNCHANGED <<panel, calls, pages, scrubs>>

-----------------------------------------------------------------------------
(* Second transaction of commitStep. *)

(* Rolled back: nothing of the transaction remains, the catch block runs. *)
ToCatch(call) == [call EXCEPT !.pc = "failing", !.creates = {}, !.updates = {}]

\* Mutant: the lock on the organization row dropped.
LockOrganization_NoLock(c) ==
  /\ calls[c].pc = "prepared"
  /\ calls' = [calls EXCEPT ![c] =
       IF batches[calls[c].batch].status = "committing"
       THEN [calls[c] EXCEPT !.pc = "locked"]
       ELSE ToCatch(calls[c])]
  /\ UNCHANGED <<panel, batches, pages, scrubs>>

LockOrganization(c) ==
  /\ calls[c].pc = "prepared"
  /\ OrgFree
  /\ calls' = [calls EXCEPT ![c] =
       IF batches[calls[c].batch].status = "committing"
       THEN [calls[c] EXCEPT !.pc = "locked"]
       ELSE ToCatch(calls[c])]
  /\ UNCHANGED <<panel, batches, pages, scrubs>>

PlanSelect(c) ==
  /\ calls[c].pc = "locked"
  /\ \E m \in Matches(calls[c].file) :
       calls' = [calls EXCEPT ![c] = Planned(calls[c], calls[c].file, m, "selected")]
  /\ UNCHANGED <<panel, batches, pages, scrubs>>

\* Mutant: the reviewed counts not compared.
SamePlanCounts_Dropped(call, before) == TRUE

(* samePlanCounts compares the counts of the plan with the reviewed ones. *)
SamePlanCounts(call, before) ==
  batches[call.batch].counts =
    [create |-> Cardinality(call.creates),
     update |-> Cardinality(call.file \ call.creates), before |-> before]

PlanCount(c) ==
  /\ calls[c].pc = "selected"
  /\ calls' = [calls EXCEPT ![c] =
       IF SamePlanCounts(calls[c], Len(panel))
       THEN [calls[c] EXCEPT !.pc = "planned", !.before = Len(panel)]
       ELSE ToCatch(calls[c])]
  /\ UNCHANGED <<panel, batches, pages, scrubs>>

(* writePanelImport and the verification of what it left, then             *)
(* completePanelImport, all uncommitted.  The upsert of attribute values   *)
(* waits for an anonymization that has deleted them.                       *)
WritePanelImport(c) ==
  /\ calls[c].pc = "planned"
  /\ \A u \in calls[c].updates : ~AttrsHeld(u[2])
  /\ calls' = [calls EXCEPT ![c] =
       IF Len(panel) = calls[c].before /\ batches[calls[c].batch].status = "committing"
       THEN [calls[c] EXCEPT !.pc = "written"]
       ELSE ToCatch(calls[c])]
  /\ UNCHANGED <<panel, batches, pages, scrubs>>

(* The rows an import inserts, in any order. *)
Orders(S) == {s \in [1..Cardinality(S) -> S] : \A i, j \in 1..Cardinality(S) :
                                                  s[i] = s[j] => i = j}

ImportedRow(k, b) == [key |-> k, name |-> TRUE, attrs |-> TRUE, anonymized |-> FALSE,
                      batch |-> b, origin |-> "import"]

(* updatePanelists addresses a row by id alone and keeps its lifecycle. *)
UpdatedPanel(call) == [r \in Panelists |->
  IF \E k \in Keys : <<k, r>> \in call.updates
  THEN [panel[r] EXCEPT !.key = CHOOSE k \in Keys : <<k, r>> \in call.updates,
                        !.name = TRUE, !.attrs = TRUE, !.batch = call.batch]
  ELSE panel[r]]

ImportedPanel(call, s) ==
  UpdatedPanel(call) \o
    [i \in 1..Cardinality(call.creates) |-> ImportedRow(s[i], call.batch)]

(* The commit; its reply may be lost, and then the caller fails. *)
CommitPanelImport(c) ==
  /\ calls[c].pc = "written"
  /\ \E s \in Orders(calls[c].creates) : panel' = ImportedPanel(calls[c], s)
  /\ batches' = [batches EXCEPT ![calls[c].batch].status = "committed"]
  /\ \/ calls' = [calls EXCEPT ![c] = IdleCall]
     \/ calls' = [calls EXCEPT ![c] = ToCatch(calls[c])]
  /\ UNCHANGED <<pages, scrubs>>

(* A statement fails, or the connection does: rollback. *)
StatementFails(c) ==
  /\ calls[c].pc = "prepared" \/ InCommit(c)
  /\ calls' = [calls EXCEPT ![c] = ToCatch(calls[c])]
  /\ UNCHANGED <<panel, batches, pages, scrubs>>

\* Mutant: the failure handler without its guard on the status.
FailPanelImport_NoGuard(c) ==
  /\ calls[c].pc = "failing"
  /\ OrgFree
  /\ batches' = [batches EXCEPT ![calls[c].batch].status = "failed"]
  /\ calls' = [calls EXCEPT ![c] = IdleCall]
  /\ UNCHANGED <<panel, pages, scrubs>>

(* failPanelImport: third transaction, only for a batch still committing; *)
(* it writes an audit event then.                                         *)
FailPanelImport(c) ==
  /\ calls[c].pc = "failing"
  /\ IF batches[calls[c].batch].status = "committing"
     THEN /\ OrgFree
          /\ batches' = [batches EXCEPT ![calls[c].batch].status = "failed"]
     ELSE UNCHANGED batches
  /\ calls' = [calls EXCEPT ![c] = IdleCall]
  /\ UNCHANGED <<panel, pages, scrubs>>

(* The third transaction fails too, and its error is swallowed. *)
FailureNotRecorded(c) ==
  /\ calls[c].pc = "failing"
  /\ calls' = [calls EXCEPT ![c] = IdleCall]
  /\ UNCHANGED <<panel, batches, pages, scrubs>>

(* The server process dies; an open transaction is rolled back. *)
Crash(c) ==
  /\ calls[c].pc # "idle"
  /\ calls' = [calls EXCEPT ![c] = IdleCall]
  /\ UNCHANGED <<panel, batches, pages, scrubs>>

-----------------------------------------------------------------------------
(* submitRecruitment. *)

(* The page row is locked and the e-mail looked up: any row that has it. *)
RecruitLookup(g, k) ==
  /\ pages[g].pc = "idle"
  /\ IF RowsOf(k) # {}
     THEN \E r \in RowsOf(k) :
            pages' = [pages EXCEPT ![g] = [pc |-> "looked", key |-> k, row |-> r]]
     ELSE /\ Cardinality(Recruited) +
               Cardinality({h \in Pages : pages[h].pc = "looked" /\ pages[h].row = NoRow})
             < MaxRecruits
          /\ pages' = [pages EXCEPT ![g] = [pc |-> "looked", key |-> k, row |-> NoRow]]
  /\ UNCHANGED <<panel, batches, calls, scrubs>>

RecruitedRow(k, answered) ==
  [key |-> k, name |-> TRUE, attrs |-> answered, anonymized |-> FALSE,
   batch |-> NoBatch, origin |-> "recruitment"]

(* The name of the row found, or a new row; the answers to the page's      *)
(* questions, if any, as attribute values; the inserts of consents and of  *)
(* the submission need the organization row.                               *)
RecruitSave(g, answered) ==
  /\ pages[g].pc = "looked"
  /\ OrgFree
  /\ LET r == pages[g].row IN
       IF r = NoRow
       THEN panel' = Append(panel, RecruitedRow(pages[g].key, answered))
       ELSE /\ ~(answered /\ AttrsHeld(r))
            /\ panel' = [panel EXCEPT ![r].name = TRUE, ![r].attrs = @ \/ answered]
  /\ pages' = [pages EXCEPT ![g] = IdlePage]
  /\ UNCHANGED <<batches, calls, scrubs>>

RecruitAborted(g) ==
  /\ pages[g].pc = "looked"
  /\ pages' = [pages EXCEPT ![g] = IdlePage]
  /\ UNCHANGED <<panel, batches, calls, scrubs>>

-----------------------------------------------------------------------------
(* anonymizePanelist. *)

(* The deletes of notes, attribute values and tags see what is committed; *)
(* the rows they delete stay locked, and they wait for a writer of them.  *)
ScrubChildren(o, r) ==
  /\ scrubs[o].row = NoRow
  /\ panel[r].attrs => ~AttrsHeld(r) /\ ~AttrsWritten(r)
  /\ scrubs' = [scrubs EXCEPT ![o] = [row |-> r, held |-> panel[r].attrs]]
  /\ UNCHANGED <<panel, batches, calls, pages>>

(* The update of the row, the audit event and the commit. *)
ScrubRow(o) ==
  LET r == scrubs[o].row IN
  /\ r # NoRow
  /\ OrgFree
  /\ panel' = [panel EXCEPT
       ![r].key = NoKey, ![r].name = FALSE, ![r].anonymized = TRUE,
       ![r].attrs = @ /\ ~scrubs[o].held]
  /\ scrubs' = [scrubs EXCEPT ![o] = IdleScrub]
  /\ UNCHANGED <<batches, calls, pages>>

ScrubAborted(o) ==
  /\ scrubs[o].row # NoRow
  /\ scrubs' = [scrubs EXCEPT ![o] = IdleScrub]
  /\ UNCHANGED <<panel, batches, calls, pages>>

(* An import waits for attribute rows an anonymization holds, which waits  *)
(* for the organization row the import holds.  The database aborts one.    *)
BreakDeadlock(c, o) ==
  /\ calls[c].pc = "planned"
  /\ scrubs[o].held
  /\ \E k \in Keys : <<k, scrubs[o].row>> \in calls[c].updates
  /\ \/ /\ calls' = [calls EXCEPT ![c] = ToCatch(calls[c])]
        /\ UNCHANGED scrubs
     \/ /\ scrubs' = [scrubs EXCEPT ![o] = IdleScrub]
        /\ UNCHANGED calls
  /\ UNCHANGED <<panel, batches, pages>>

-----------------------------------------------------------------------------

CommitStep(c) ==
  \/ LockOrganization(c) \/ PlanSelect(c) \/ PlanCount(c)
  \/ WritePanelImport(c) \/ CommitPanelImport(c)

CallStep(c) ==
  \/ DryRunSelect(c)
  \/ \E b \in Batches : DryRunSave(c, b) \/ StartPanelImportCommit(c, b)
  \/ CommitStep(c)
  \/ StatementFails(c) \/ FailPanelImport(c) \/ FailureNotRecorded(c) \/ Crash(c)

PageStep(g) ==
  \/ \E k \in Keys : RecruitLookup(g, k)
  \/ \E answered \in BOOLEAN : RecruitSave(g, answered)
  \/ RecruitAborted(g)

OfficerStep(o) ==
  \/ \E r \in Panelists : ScrubChildren(o, r)
  \/ ScrubRow(o) \/ ScrubAborted(o)

Next ==
  \/ \E c \in Calls : CallStep(c)
  \/ \E b \in Batches : LeaseExpires(b)
  \/ ListBatches
  \/ \E g \in Pages : PageStep(g)
  \/ \E o \in Officers : OfficerStep(o)
  \/ \E c \in Calls, o \in Officers : BreakDeadlock(c, o)

Spec == Init /\ [][Next]_vars

(* The database and the server keep running a transaction that can take a  *)
(* step and break a deadlock; time passes; somebody opens the history.  A  *)
(* waiter for a row lock comes before later requesters, so an import that  *)
(* waits for one anonymization after another is served: strong fairness.   *)
(* Nothing obliges a call to fail, to crash or to record its failure.      *)
Fairness ==
  /\ \A c \in Calls : SF_vars(CommitStep(c))
  /\ \A o \in Officers : WF_vars(ScrubRow(o))
  /\ \A c \in Calls, o \in Officers : WF_vars(BreakDeadlock(c, o))
  /\ \A b \in Batches : WF_vars(LeaseExpires(b))
  /\ WF_vars(ListBatches)

FairSpec == Spec /\ Fairness

-----------------------------------------------------------------------------
(* Properties. *)

(* While an import is between its plan and its commit, the plan stays true *)
(* of the panel: the keys it creates belong to no panelist, and each row   *)
(* it updates still has the key it was matched on.  The import tests       *)
(* neither again when it writes (updatePanelists, panel-commit.ts:287-339, *)
(* addresses rows by id): what keeps the plan current is the lock on the   *)
(* organization row (actions.ts:195-199) together with the fact that every *)
(* other writer of the panel inserts a row that refers to it.              *)
PlanStaysCurrent ==
  \A c \in Calls : calls[c].pc \in {"selected", "planned", "written"} =>
    /\ calls[c].creates \cap Known(calls[c].file) = {}
    /\ \A u \in calls[c].updates : u[2] \in Panelists /\ panel[u[2]].key = u[1]

(* An anonymized panelist never has an e-mail address again, whatever      *)
(* imports were planned before (panel/actions.ts:58-98).                   *)
AnonymizedHasNoEmail ==
  \A r \in Panelists : panel[r].anonymized => panel[r].key = NoKey

(* Imports alone never give one address to two panelists: of the rows with *)
(* a key, at most one was created by an import (panel-commit.ts:178-237).  *)
ImportedOnce ==
  \A r, q \in Panelists :
    /\ panel[r].key = panel[q].key /\ panel[r].key # NoKey
    /\ panel[r].origin = "import" /\ panel[q].origin = "import"
    => r = q

(* All or nothing: a panelist is linked to a batch only if the batch is    *)
(* documented as committed.  A failed, abandoned or recovered import left  *)
(* nothing (actions.ts:191-290, panel-commit.ts:86-95).                    *)
OnlyCommittedBatchesWrote ==
  \A r \in Panelists :
    panel[r].batch # NoBatch => batches[panel[r].batch].status = "committed"

(* A batch that was committed or failed stays so: the recovery of stale    *)
(* batches, a late commit and a late failure handler cannot turn one into  *)
(* the other (panel-commit.ts:86-95, 137-177).                             *)
SettledStays ==
  [][\A b \in Batches : batches[b].status \in {"committed", "failed"} =>
       batches'[b].status = batches[b].status]_vars

(* What commits is what was reviewed: the panel has the size the reviewer  *)
(* saw, gains exactly the reviewed number of rows, and every valid row of  *)
(* the file is linked to the batch (actions.ts:107-112, 217-237).          *)
CommitsAsReviewed ==
  [][\A b \in Batches :
       batches[b].status # "committed" /\ batches'[b].status = "committed" =>
         /\ Len(panel) = batches[b].counts.before
         /\ Len(panel') = Len(panel) + batches[b].counts.create
         /\ Cardinality({r \in DOMAIN panel' : panel'[r].batch = b}) =
              Cardinality(batches[b].file)]_vars

(* What the proofs add: one import at a time is past the organization lock; *)
(* its batch is still committing, because whoever could settle it waits;    *)
(* and what it creates is in its file.                                      *)
ImportsExclusive == \A c, d \in Calls : InCommit(c) /\ InCommit(d) => c = d

ImportHoldsBatch ==
  \A c \in Calls :
    /\ calls[c].pc = "prepared" \/ InCommit(c) \/ calls[c].pc = "failing"
         => calls[c].batch \in Batches
    /\ InCommit(c) => batches[calls[c].batch].status = "committing"
    /\ calls[c].creates \subseteq calls[c].file

PanelInv ==
  /\ TypeOK
  /\ ImportsExclusive
  /\ ImportHoldsBatch
  /\ PlanStaysCurrent
  /\ AnonymizedHasNoEmail
  /\ OnlyCommittedBatchesWrote
  /\ ImportedOnce

(* What they add for CommitsAsReviewed: from its claim on an import works   *)
(* for the file of its batch; its plan splits that file into the keys it    *)
(* creates and the keys it updates, one row for each; and once the counts   *)
(* were compared, they and the size of the panel stay what was reviewed.    *)
KeepsFile ==
  \A c \in Calls : calls[c].pc = "prepared" \/ InCommit(c) =>
    /\ batches[calls[c].batch].status # "none"
    /\ calls[c].file = batches[calls[c].batch].file

SplitsFile(call) ==
  /\ \A u \in call.updates : u[1] \in call.file \ call.creates
  /\ \A k \in call.file \ call.creates : \E u \in call.updates : u[1] = k
  /\ \A u, v \in call.updates : u[1] = v[1] => u = v

PlanSplitsFile ==
  \A c \in Calls : calls[c].pc \in {"selected", "planned", "written"} => SplitsFile(calls[c])

CountsStayReviewed ==
  \A c \in Calls : calls[c].pc \in {"planned", "written"} =>
    SamePlanCounts(calls[c], Len(panel))

ReviewInv == PanelInv /\ KeepsFile /\ PlanSplitsFile /\ CountsStayReviewed

(* A claimed batch is settled in the end, even if its server died: the     *)
(* history recovers it once its lease is over (hosted-readiness.md:40).    *)
ClaimedBatchesSettle ==
  \A b \in Batches :
    batches[b].status = "committing" ~> batches[b].status \in {"committed", "failed"}

(* "Irreversible GDPR anonymization: scrubs identity fields, removes notes *)
(* and attribute values" (panel/actions.ts:58-62), and "Anonymized         *)
(* panelists can never be matched here" (recruitment.ts:131-132): nothing  *)
(* that identifies an anonymized panelist is stored, neither in a column   *)
(* of the row nor in an attribute value.                                   *)
AnonymizedKeepsNothing ==
  \A r \in Panelists : panel[r].anonymized => ~panel[r].name /\ ~panel[r].attrs
=============================================================================
