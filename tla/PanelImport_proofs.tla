------------------------- MODULE PanelImport_proofs -------------------------
(***************************************************************************)
(* Proofs about PanelImport, for any number of addresses, batches, calls,  *)
(* pages and anonymizations.  PanelInv is inductive; the lemmas take its   *)
(* conjuncts one at a time over the three actions that change the panel    *)
(* and over the steps of an import.  ReviewInv, above it, carries the      *)
(* plan a person reviewed to the commit, where the rows are counted.       *)
(***************************************************************************)
EXTENDS PanelImport, FiniteSetTheorems, TLAPS

(* What a row, a batch or a call may be. *)
LEMMA Types ==
  ASSUME TypeOK
  PROVE  /\ \A r \in Panelists : panel[r] \in Row /\ r \in Nat \ {0}
         /\ \A b \in Batches : batches[b] \in Batch
         /\ \A c \in Calls : calls[c] \in Call
         /\ \A g \in Pages : pages[g] \in Page
         /\ \A o \in Officers : scrubs[o] \in Scrub
BY DEF TypeOK, Panelists

(* A plan of a file is well formed, and current when it is made. *)
LEMMA PlannedIsCurrent ==
  ASSUME TypeOK, NEW call \in Call, NEW file \in SUBSET Keys, NEW m \in Matches(file),
         NEW pc \in {"reviewing", "selected"}
  PROVE  LET p == Planned(call, file, m, pc) IN
         /\ p \in Call
         /\ p.pc = pc /\ p.batch = call.batch /\ p.file = file
         /\ p.creates \subseteq file
         /\ p.creates \cap Known(file) = {}
         /\ \A u \in p.updates : u[2] \in Panelists /\ panel[u[2]].key = u[1]
<1> DEFINE p == Planned(call, file, m, pc)
<1>1. /\ p.pc = pc /\ p.batch = call.batch /\ p.file = file /\ p.before = call.before
      /\ p.creates = file \ Known(file)
      /\ p.updates = {<<k, m[k]>> : k \in Known(file)}
  BY DEF Planned, Call
<1>2. \A k \in Known(file) : m[k] \in Panelists /\ panel[m[k]].key = k /\ k \in Keys
  BY DEF Matches, Known, RowsOf
<1>3. Panelists \subseteq Nat \ {0}
  BY DEF TypeOK, Panelists
<1>4. p.updates \in SUBSET (Keys \X (Nat \ {0}))
  BY <1>1, <1>2, <1>3
<1>5. p \in Call
  BY <1>1, <1>4 DEF Planned, Call
<1> QED
  BY <1>1, <1>2, <1>5

LEMMA CatchIsCall ==
  ASSUME NEW call \in Call
  PROVE  /\ ToCatch(call) \in Call
         /\ ToCatch(call).pc = "failing"
         /\ ToCatch(call).batch = call.batch
         /\ ToCatch(call).creates = {}
BY DEF ToCatch, Call

LEMMA IdleIsCall == IdleCall \in Call /\ IdleCall.pc = "idle" /\ IdleCall.creates = {}
BY DEF IdleCall, Call

(* The panel an import commits: the rows it had, with the keys and the     *)
(* anonymization they had, and then one row for each key created.          *)
LEMMA CommittedPanel ==
  ASSUME PanelInv, NEW c \in Calls, calls[c].pc = "written",
         NEW s \in Orders(calls[c].creates),
         NEW q, q = ImportedPanel(calls[c], s)
  PROVE  /\ q \in Seq(Row)
         /\ Cardinality(calls[c].creates) \in Nat
         /\ DOMAIN q = 1..(Len(panel) + Cardinality(calls[c].creates))
         /\ \A r \in Panelists :
              /\ q[r].key = panel[r].key
              /\ q[r].anonymized = panel[r].anonymized
              /\ q[r].origin = panel[r].origin
              /\ q[r].batch \in {panel[r].batch, calls[c].batch}
         /\ \A i \in 1..Cardinality(calls[c].creates) :
              q[Len(panel) + i] = ImportedRow(s[i], calls[c].batch)
<1> DEFINE call == calls[c]
           n == Cardinality(call.creates)
           old == UpdatedPanel(call)
           new == [i \in 1..n |-> ImportedRow(s[i], call.batch)]
<1>1. call \in Call /\ call.batch \in Batches /\ panel \in Seq(Row)
  BY DEF PanelInv, TypeOK, ImportHoldsBatch, InCommit, CommitSteps
<1>2. call.creates \subseteq Keys
  BY <1>1 DEF Call
<1>3. n \in Nat
  BY <1>2, FS_Subset, FS_CardinalityType, PanelAssumption
<1>4. ASSUME NEW r \in Panelists
      PROVE  /\ old[r] \in Row
             /\ old[r].key = panel[r].key
             /\ old[r].anonymized = panel[r].anonymized
             /\ old[r].origin = panel[r].origin
             /\ old[r].batch \in {panel[r].batch, call.batch}
  <2>1. panel[r] \in Row
    BY <1>1 DEF Panelists
  <2>2. CASE \E k \in Keys : <<k, r>> \in call.updates
    <3> DEFINE kk == CHOOSE k \in Keys : <<k, r>> \in call.updates
    <3>1. kk \in Keys /\ <<kk, r>> \in call.updates
      BY <2>2
    <3>2. panel[r].key = kk
      BY <3>1 DEF PanelInv, PlanStaysCurrent
    <3>3. old[r] = [panel[r] EXCEPT !.key = kk, !.name = TRUE, !.attrs = TRUE,
                                    !.batch = call.batch]
      BY <2>2 DEF UpdatedPanel
    <3> HIDE DEF kk
    <3> QED
      BY <3>1, <3>2, <3>3, <2>1, <1>1 DEF Row
  <2>3. CASE ~\E k \in Keys : <<k, r>> \in call.updates
    BY <2>1, <2>3 DEF UpdatedPanel
  <2> QED
    BY <2>2, <2>3
<1>5. old \in Seq(Row) /\ Len(old) = Len(panel)
  <2> DEFINE F(r) == IF \E k \in Keys : <<k, r>> \in call.updates
                     THEN [panel[r] EXCEPT
                             !.key = CHOOSE k \in Keys : <<k, r>> \in call.updates,
                             !.name = TRUE, !.attrs = TRUE, !.batch = call.batch]
                     ELSE panel[r]
  <2>1. old = [r \in Panelists |-> F(r)]
    BY DEF UpdatedPanel
  <2> HIDE DEF F, old
  <2>2. \A r \in Panelists : F(r) \in Row
    BY <1>4, <2>1
  <2>3. Panelists = 1..Len(panel) /\ Len(panel) \in Nat
    BY <1>1 DEF Panelists
  <2> QED
    BY <2>1, <2>2, <2>3
<1>6. new \in Seq(Row) /\ Len(new) = n
  <2>1. \A i \in 1..n : s[i] \in Keys
    BY <1>2, <1>3 DEF Orders
  <2>2. \A i \in 1..n : ImportedRow(s[i], call.batch) \in Row
    BY <2>1, <1>1 DEF ImportedRow, Row
  <2> QED
    BY <2>2, <1>3
<1>7. q = old \o new
  BY DEF ImportedPanel
<1> HIDE DEF old, new, call, n
<1>8. /\ q \in Seq(Row)
      /\ Len(q) = Len(panel) + n
      /\ DOMAIN q = 1..(Len(panel) + n)
      /\ \A r \in 1..Len(panel) : q[r] = old[r]
      /\ \A i \in 1..n : q[Len(panel) + i] = new[i]
  <2>1. PICK a \in Seq(Row), b \in Seq(Row) :
          a = old /\ b = new /\ Len(a) = Len(panel) /\ Len(b) = n
    BY <1>5, <1>6
  <2>2. q = a \o b
    BY <1>7, <2>1
  <2>3. /\ a \o b \in Seq(Row)
        /\ Len(a \o b) = Len(a) + Len(b)
        /\ DOMAIN (a \o b) = 1..(Len(a) + Len(b))
        /\ \A r \in 1..Len(a) : (a \o b)[r] = a[r]
        /\ \A i \in 1..Len(b) : (a \o b)[Len(a) + i] = b[i]
    OBVIOUS
  <2> QED
    BY <2>1, <2>2, <2>3, Zenon
<1>9. Panelists = 1..Len(panel)
  BY <1>1 DEF Panelists
<1>11. \A i \in 1..n : q[Len(panel) + i] = ImportedRow(s[i], call.batch)
  BY <1>8 DEF new
<1>12. \A r \in Panelists :
         /\ q[r].key = panel[r].key
         /\ q[r].anonymized = panel[r].anonymized
         /\ q[r].origin = panel[r].origin
         /\ q[r].batch \in {panel[r].batch, call.batch}
  BY <1>4, <1>8, <1>9
<1> QED
  BY <1>3, <1>8, <1>11, <1>12 DEF call, n
-----------------------------------------------------------------------------
(* The steps, by what they change. *)

(* A step of call c alone that leaves the panel and the batches as they    *)
(* are, and takes c to no better place than it was in, or to a current     *)
(* plan of its own.                                                        *)
LEMMA CallMoves ==
  ASSUME PanelInv, NEW c \in Calls, NEW call \in Call,
         calls' = [calls EXCEPT ![c] = call],
         UNCHANGED <<panel, batches, pages, scrubs>>,
         call.pc \in CommitSteps =>
           /\ \A d \in Calls : InCommit(d) => d = c
           /\ batches[call.batch].status = "committing",
         call.pc = "prepared" \/ call.pc \in CommitSteps \/ call.pc = "failing"
           => call.batch \in Batches,
         call.creates \subseteq call.file,
         call.pc \in {"selected", "planned", "written"} =>
           /\ call.creates \cap Known(call.file) = {}
           /\ \A u \in call.updates : u[2] \in Panelists /\ panel[u[2]].key = u[1]
  PROVE  PanelInv'
<1>1. TypeOK'
  BY DEF PanelInv, TypeOK
<1>2. \A d \in Calls : calls'[d] = IF d = c THEN call ELSE calls[d]
  BY DEF PanelInv, TypeOK
<1>3. /\ \A d \in Calls \ {c} : InCommit(d)' <=> InCommit(d)
      /\ InCommit(c)' <=> call.pc \in CommitSteps
  BY <1>2 DEF InCommit
<1>4. ImportsExclusive'
  BY <1>3 DEF PanelInv, ImportsExclusive
<1>5. ImportHoldsBatch'
  BY <1>2, <1>3 DEF PanelInv, ImportHoldsBatch
<1>6. \A file : Known(file)' = Known(file)
  BY DEF Known, RowsOf, Panelists
<1>7. PlanStaysCurrent'
  <2> SUFFICES ASSUME NEW d \in Calls, calls'[d].pc \in {"selected", "planned", "written"}
               PROVE  /\ calls'[d].creates \cap Known(calls'[d].file) = {}
                      /\ \A u \in calls'[d].updates :
                           u[2] \in Panelists /\ panel[u[2]].key = u[1]
    BY <1>6 DEF PlanStaysCurrent, Panelists
  <2> QED
    BY <1>2 DEF PanelInv, PlanStaysCurrent
<1>8. AnonymizedHasNoEmail' /\ OnlyCommittedBatchesWrote' /\ ImportedOnce'
  BY DEF PanelInv, AnonymizedHasNoEmail, OnlyCommittedBatchesWrote, ImportedOnce, Panelists
<1> QED
  BY <1>1, <1>4, <1>5, <1>7, <1>8 DEF PanelInv

(* A step that changes batches nobody holds, none of them committed, and   *)
(* perhaps sends one call elsewhere than into its commit.                  *)
LEMMA BatchesMove ==
  ASSUME PanelInv, batches' \in [Batches -> Batch],
         UNCHANGED <<panel, pages, scrubs>>,
         \A b \in Batches : batches[b].status = "committed" => batches'[b].status = "committed",
         \A b \in Batches : BatchLocked(b) => batches'[b].status = batches[b].status,
         \/ UNCHANGED calls
         \/ \E c \in Calls : \E call \in Call :
              /\ calls' = [calls EXCEPT ![c] = call]
              /\ call.pc \in {"idle", "prepared"}
              /\ call.pc = "prepared" => call.batch \in Batches
              /\ call.creates = {}
  PROVE  PanelInv'
<1>1. TypeOK'
  BY DEF PanelInv, TypeOK
<1>2. \A d \in Calls :
        \/ calls'[d] = calls[d]
        \/ /\ calls'[d].pc \in {"idle", "prepared"}
           /\ calls'[d].pc = "prepared" => calls'[d].batch \in Batches
           /\ calls'[d].creates = {}
  BY DEF PanelInv, TypeOK
<1>3. \A d \in Calls : InCommit(d)' => InCommit(d) /\ calls'[d] = calls[d]
  BY <1>2 DEF InCommit, CommitSteps
<1>4. ImportsExclusive'
  BY <1>3 DEF PanelInv, ImportsExclusive
<1>5. ImportHoldsBatch'
  <2> SUFFICES ASSUME NEW d \in Calls
               PROVE  /\ calls'[d].pc = "prepared" \/ InCommit(d)' \/ calls'[d].pc = "failing"
                           => calls'[d].batch \in Batches
                      /\ InCommit(d)' => batches'[calls'[d].batch].status = "committing"
                      /\ calls'[d].creates \subseteq calls'[d].file
    BY DEF ImportHoldsBatch
  <2>1. CASE calls'[d] = calls[d]
    <3>1. InCommit(d)' <=> InCommit(d)
      BY <2>1 DEF InCommit
    <3>2. InCommit(d) => BatchLocked(calls[d].batch) /\ calls[d].batch \in Batches
      BY DEF BatchLocked, PanelInv, ImportHoldsBatch
    <3> QED
      BY <2>1, <3>1, <3>2 DEF PanelInv, ImportHoldsBatch
  <2>2. CASE calls'[d] # calls[d]
    BY <2>2, <1>2, <1>3
  <2> QED
    BY <2>1, <2>2
<1>6. \A file : Known(file)' = Known(file)
  BY DEF Known, RowsOf, Panelists
<1>7. PlanStaysCurrent'
  <2> SUFFICES ASSUME NEW d \in Calls, calls'[d].pc \in {"selected", "planned", "written"}
               PROVE  /\ calls'[d].creates \cap Known(calls'[d].file) = {}
                      /\ \A u \in calls'[d].updates :
                           u[2] \in Panelists /\ panel[u[2]].key = u[1]
    BY <1>6 DEF PlanStaysCurrent, Panelists
  <2>1. calls'[d] = calls[d]
    BY <1>2
  <2> QED
    BY <2>1 DEF PanelInv, PlanStaysCurrent
<1>8. OnlyCommittedBatchesWrote'
  BY <1>1, Types DEF PanelInv, OnlyCommittedBatchesWrote, Panelists, Row
<1>9. AnonymizedHasNoEmail' /\ ImportedOnce'
  BY DEF PanelInv, AnonymizedHasNoEmail, ImportedOnce, Panelists
<1> QED
  BY <1>1, <1>4, <1>5, <1>7, <1>8, <1>9 DEF PanelInv
(* The panel after one of its rows is replaced. *)
LEMMA ReplacedRow ==
  ASSUME NEW S, NEW p \in Seq(S), NEW r, NEW row, r \in DOMAIN p => row \in S
  PROVE  /\ [p EXCEPT ![r] = row] \in Seq(S)
         /\ DOMAIN [p EXCEPT ![r] = row] = DOMAIN p
         /\ \A x \in DOMAIN p : [p EXCEPT ![r] = row][x] = IF x = r THEN row ELSE p[x]
<1>1. PICK n \in Nat : p \in [1..n -> S]
  OBVIOUS
<1>2. DOMAIN p = 1..n
  BY <1>1
<1>3. [p EXCEPT ![r] = row] \in [1..n -> S]
  BY <1>1, <1>2
<1>4. \A f \in [1..n -> S] : f \in Seq(S)
  OBVIOUS
<1>5. DOMAIN [p EXCEPT ![r] = row] = DOMAIN p
  BY <1>1
<1>6. \A x \in DOMAIN p : [p EXCEPT ![r] = row][x] = IF x = r THEN row ELSE p[x]
  BY <1>1
<1> QED
  BY <1>3, <1>4, <1>5, <1>6, Zenon

(* A step that changes the panel, or what a submission or an anonymization *)
(* found, while no import is past the organization lock.                   *)
LEMMA PanelMoves ==
  ASSUME PanelInv, OrgFree, UNCHANGED <<batches, calls>>,
         panel' \in Seq(Row), pages' \in [Pages -> Page], scrubs' \in [Officers -> Scrub],
         AnonymizedHasNoEmail', OnlyCommittedBatchesWrote', ImportedOnce'
  PROVE  PanelInv'
<1>1. TypeOK'
  BY DEF PanelInv, TypeOK
<1>2. \A c \in Calls : ~InCommit(c)'
  BY DEF OrgFree, InCommit
<1>3. ImportsExclusive' /\ ImportHoldsBatch'
  BY <1>2 DEF PanelInv, ImportsExclusive, ImportHoldsBatch
<1>4. PlanStaysCurrent'
  BY <1>2 DEF PlanStaysCurrent, InCommit, CommitSteps
<1> QED
  BY <1>1, <1>3, <1>4 DEF PanelInv

(* A step of a submission or an anonymization that writes nothing yet. *)
LEMMA LookupMoves ==
  ASSUME PanelInv, UNCHANGED <<panel, batches, calls>>,
         pages' \in [Pages -> Page], scrubs' \in [Officers -> Scrub]
  PROVE  PanelInv'
<1>1. TypeOK'
  BY DEF PanelInv, TypeOK
<1>2. \A c \in Calls : InCommit(c)' <=> InCommit(c)
  BY DEF InCommit
<1>3. \A file : Known(file)' = Known(file)
  BY DEF Known, RowsOf, Panelists
<1>4. ImportsExclusive' /\ ImportHoldsBatch'
  BY <1>2 DEF PanelInv, ImportsExclusive, ImportHoldsBatch
<1>5. PlanStaysCurrent'
  BY <1>3 DEF PanelInv, PlanStaysCurrent, Panelists
<1>6. AnonymizedHasNoEmail' /\ OnlyCommittedBatchesWrote' /\ ImportedOnce'
  BY DEF PanelInv, AnonymizedHasNoEmail, OnlyCommittedBatchesWrote, ImportedOnce, Panelists
<1> QED
  BY <1>1, <1>4, <1>5, <1>6 DEF PanelInv

(* The recovery settles only batches nobody holds. *)
LEMMA RecoveredIsSafe ==
  ASSUME TypeOK, CanRecover
  PROVE  /\ Recovered \in [Batches -> Batch]
         /\ \A b \in Batches :
              /\ batches[b].status # "committing" => Recovered[b] = batches[b]
              /\ BatchLocked(b) => Recovered[b] = batches[b]
<1>1. \A b \in Batches : batches[b] \in Batch
  BY Types
<1>2. \A b \in Batches : [batches[b] EXCEPT !.status = "failed"] \in Batch
  BY <1>1 DEF Batch
<1> QED
  BY <1>1, <1>2 DEF Recovered, CanRecover, StaleCommits

-----------------------------------------------------------------------------
(* The actions. *)

LEMMA DryRunSelectStep ==
  ASSUME PanelInv, NEW c \in Calls, DryRunSelect(c)
  PROVE  PanelInv'
<1>0. PICK file \in (SUBSET Keys) \ {{}} : \E m \in Matches(file) :
        calls' = [calls EXCEPT ![c] = Planned(calls[c], file, m, "reviewing")]
  BY DEF DryRunSelect
<1>1. PICK m \in Matches(file) :
        calls' = [calls EXCEPT ![c] = Planned(calls[c], file, m, "reviewing")]
  BY <1>0
<1>2. PICK p : p = Planned(calls[c], file, m, "reviewing")
  OBVIOUS
<1>3. calls[c] \in Call
  BY Types DEF PanelInv
<1>4. p \in Call /\ p.pc = "reviewing" /\ p.creates \subseteq p.file
  BY <1>2, <1>3, PlannedIsCurrent DEF PanelInv
<1>5. UNCHANGED <<panel, batches, pages, scrubs>>
  BY DEF DryRunSelect
<1> QED
  BY <1>1, <1>2, <1>4, <1>5, CallMoves DEF CommitSteps

LEMMA DryRunSaveStep ==
  ASSUME PanelInv, NEW c \in Calls, NEW b \in Batches, DryRunSave(c, b)
  PROVE  PanelInv'
<1>1. TypeOK /\ calls[c] \in Call
  BY Types DEF PanelInv
<1>2. CanRecover /\ OrgFree /\ batches[b].status = "none"
  BY DEF DryRunSave
<1>3. PICK new : /\ batches' = [Recovered EXCEPT ![b] = new]
                 /\ new = [status |-> "dry_run", file |-> calls[c].file, stale |-> FALSE,
                           counts |-> [create |-> Cardinality(calls[c].creates),
                                       update |-> Cardinality(calls[c].file \ calls[c].creates),
                                       before |-> Len(panel)]]
  BY DEF DryRunSave
<1>4. new \in Batch
  <2>1. \A S \in SUBSET Keys : Cardinality(S) \in Nat
    BY PanelAssumption, FS_Subset, FS_CardinalityType
  <2>2. calls[c].creates \in SUBSET Keys /\ calls[c].file \in SUBSET Keys
    BY <1>1 DEF Call
  <2>3. calls[c].file \ calls[c].creates \in SUBSET Keys /\ Len(panel) \in Nat
    BY <2>2, <1>1 DEF TypeOK
  <2> QED
    BY <2>1, <2>2, <2>3, <1>3 DEF Batch, Counts
<1>5. \A d \in Batches : ~BatchLocked(d)
  BY <1>2 DEF OrgFree, BatchLocked
<1>6. /\ batches' \in [Batches -> Batch]
      /\ \A d \in Batches : batches[d].status = "committed" => batches'[d].status = "committed"
  BY <1>1, <1>2, <1>3, <1>4, RecoveredIsSafe
<1>7. /\ calls' = [calls EXCEPT ![c] = IdleCall]
      /\ UNCHANGED <<panel, pages, scrubs>>
  BY DEF DryRunSave
<1> QED
  BY <1>5, <1>6, <1>7, IdleIsCall, BatchesMove

LEMMA StartStep ==
  ASSUME PanelInv, NEW c \in Calls, NEW b \in Batches, StartPanelImportCommit(c, b)
  PROVE  PanelInv'
<1>1. TypeOK /\ batches[b] \in Batch /\ CanRecover /\ batches[b].status = "dry_run"
  BY Types DEF PanelInv, StartPanelImportCommit
<1>2. batches' = [Recovered EXCEPT ![b].status = "committing"]
  BY DEF StartPanelImportCommit
<1>3. ~BatchLocked(b)
  BY <1>1 DEF BatchLocked, PanelInv, ImportHoldsBatch
<1>4. [Recovered[b] EXCEPT !.status = "committing"] \in Batch
  BY <1>1, RecoveredIsSafe DEF Batch
<1>5. /\ batches' \in [Batches -> Batch]
      /\ \A d \in Batches : batches[d].status = "committed" => batches'[d].status = "committed"
      /\ \A d \in Batches : BatchLocked(d) => batches'[d].status = batches[d].status
  BY <1>1, <1>2, <1>3, <1>4, RecoveredIsSafe
<1>6. PICK call : /\ calls' = [calls EXCEPT ![c] = call]
                  /\ call = [IdleCall EXCEPT !.pc = "prepared", !.batch = b,
                                             !.file = batches[b].file]
  BY DEF StartPanelImportCommit
<1>7. call \in Call /\ call.pc = "prepared" /\ call.batch \in Batches /\ call.creates = {}
  BY <1>1, <1>6 DEF Batch, Call, IdleCall
<1>8. UNCHANGED <<panel, pages, scrubs>>
  BY DEF StartPanelImportCommit
<1> QED
  BY <1>5, <1>6, <1>7, <1>8, BatchesMove

LEMMA HistoryStep ==
  ASSUME PanelInv, ListBatches \/ \E b \in Batches : LeaseExpires(b)
  PROVE  PanelInv'
<1>1. TypeOK /\ \A b \in Batches : batches[b] \in Batch
  BY Types DEF PanelInv
<1>2. CASE ListBatches
  BY <1>1, <1>2, RecoveredIsSafe, BatchesMove DEF ListBatches
<1>3. CASE \E b \in Batches : LeaseExpires(b)
  <2>1. PICK b \in Batches : LeaseExpires(b)
    BY <1>3
  <2>2. [batches[b] EXCEPT !.stale = TRUE] \in Batch
    BY <1>1 DEF Batch
  <2>3. /\ batches' \in [Batches -> Batch]
        /\ \A d \in Batches : batches'[d].status = batches[d].status
    BY <1>1, <2>1, <2>2 DEF LeaseExpires, TypeOK, Batch
  <2> QED
    BY <2>1, <2>3, BatchesMove DEF LeaseExpires
<1> QED
  BY <1>2, <1>3

(* Steps that send an import to its catch block, or end the call. *)
LEMMA LeaveStep ==
  ASSUME PanelInv, NEW c \in Calls, NEW call \in {ToCatch(calls[c]), IdleCall},
         call = ToCatch(calls[c]) => calls[c].pc = "prepared" \/ InCommit(c),
         calls' = [calls EXCEPT ![c] = call],
         UNCHANGED <<panel, batches, pages, scrubs>>
  PROVE  PanelInv'
<1>1. calls[c] \in Call
  BY Types DEF PanelInv
<1>2. /\ call \in Call /\ call.pc \in {"failing", "idle"} /\ call.creates = {}
      /\ call.pc = "failing" => call.batch \in Batches
  BY <1>1, CatchIsCall, IdleIsCall DEF PanelInv, ImportHoldsBatch
<1> QED
  BY <1>2, CallMoves DEF CommitSteps
LEMMA LockStep ==
  ASSUME PanelInv, NEW c \in Calls, LockOrganization(c)
  PROVE  PanelInv'
<1>1. calls[c] \in Call /\ calls[c].pc = "prepared" /\ OrgFree
      /\ UNCHANGED <<panel, batches, pages, scrubs>>
  BY Types DEF PanelInv, LockOrganization
<1>2. CASE batches[calls[c].batch].status = "committing"
  <2>1. PICK call : call = [calls[c] EXCEPT !.pc = "locked"]
    OBVIOUS
  <2>2. calls' = [calls EXCEPT ![c] = call]
    BY <1>2, <2>1 DEF LockOrganization
  <2>3. /\ call \in Call /\ call.pc = "locked" /\ call.batch = calls[c].batch
        /\ call.creates = calls[c].creates /\ call.file = calls[c].file
    BY <1>1, <2>1 DEF Call
  <2>4. call.batch \in Batches /\ call.creates \subseteq call.file
    BY <1>1, <2>3 DEF PanelInv, ImportHoldsBatch
  <2>5. \A d \in Calls : ~InCommit(d)
    BY <1>1 DEF OrgFree
  <2> QED
    BY <1>1, <1>2, <2>2, <2>3, <2>4, <2>5, CallMoves
<1>3. CASE batches[calls[c].batch].status # "committing"
  BY <1>1, <1>3, LeaveStep DEF LockOrganization
<1> QED
  BY <1>2, <1>3

LEMMA PlanSelectStep ==
  ASSUME PanelInv, NEW c \in Calls, PlanSelect(c)
  PROVE  PanelInv'
<1>1. calls[c] \in Call /\ InCommit(c) /\ UNCHANGED <<panel, batches, pages, scrubs>>
  BY Types DEF PanelInv, PlanSelect, InCommit, CommitSteps
<1>2. PICK m \in Matches(calls[c].file) :
        calls' = [calls EXCEPT ![c] = Planned(calls[c], calls[c].file, m, "selected")]
  BY DEF PlanSelect
<1>3. PICK p : p = Planned(calls[c], calls[c].file, m, "selected")
  OBVIOUS
<1>4. calls[c].file \in SUBSET Keys
  BY <1>1 DEF Call
<1>5. /\ p \in Call /\ p.pc = "selected" /\ p.batch = calls[c].batch
      /\ p.creates \subseteq p.file
      /\ p.creates \cap Known(p.file) = {}
      /\ \A u \in p.updates : u[2] \in Panelists /\ panel[u[2]].key = u[1]
  BY <1>1, <1>3, <1>4, PlannedIsCurrent DEF PanelInv
<1>6. /\ \A d \in Calls : InCommit(d) => d = c
      /\ p.batch \in Batches /\ batches[p.batch].status = "committing"
  BY <1>1, <1>5 DEF PanelInv, ImportsExclusive, ImportHoldsBatch
<1> QED
  BY <1>1, <1>2, <1>3, <1>5, <1>6, CallMoves

(* The count and the write keep the plan or give it up. *)
LEMMA KeepStep ==
  ASSUME PanelInv, NEW c \in Calls, PlanCount(c) \/ WritePanelImport(c)
  PROVE  PanelInv'
<1>1. /\ calls[c] \in Call /\ calls[c].pc \in {"selected", "planned"} /\ InCommit(c)
      /\ panel \in Seq(Row) /\ UNCHANGED <<panel, batches, pages, scrubs>>
  BY Types DEF PanelInv, TypeOK, PlanCount, WritePanelImport, InCommit, CommitSteps
<1>2. ASSUME NEW call \in Call, calls' = [calls EXCEPT ![c] = call],
             call.pc \in {"planned", "written"}, call.batch = calls[c].batch,
             call.creates = calls[c].creates, call.updates = calls[c].updates,
             call.file = calls[c].file
      PROVE  PanelInv'
  <2>1. /\ \A d \in Calls : InCommit(d) => d = c
        /\ call.batch \in Batches /\ batches[call.batch].status = "committing"
        /\ call.creates \subseteq call.file
    BY <1>1, <1>2 DEF PanelInv, ImportsExclusive, ImportHoldsBatch
  <2>2. /\ call.creates \cap Known(call.file) = {}
        /\ \A u \in call.updates : u[2] \in Panelists /\ panel[u[2]].key = u[1]
    BY <1>1, <1>2 DEF PanelInv, PlanStaysCurrent
  <2> QED
    BY <1>1, <1>2, <2>1, <2>2, CallMoves
<1>3. PICK planned, written : /\ planned = [calls[c] EXCEPT !.pc = "planned", !.before = Len(panel)]
                              /\ written = [calls[c] EXCEPT !.pc = "written"]
  OBVIOUS
<1>4. \A call \in {planned, written} :
        /\ call \in Call
        /\ call.pc \in {"planned", "written"} /\ call.batch = calls[c].batch
        /\ call.creates = calls[c].creates /\ call.updates = calls[c].updates
        /\ call.file = calls[c].file
  <2>1. Len(panel) \in Nat
    BY <1>1
  <2>2. /\ planned \in Call /\ planned.pc = "planned" /\ planned.batch = calls[c].batch
        /\ planned.creates = calls[c].creates /\ planned.updates = calls[c].updates
        /\ planned.file = calls[c].file
    BY <1>1, <1>3, <2>1 DEF Call
  <2>3. /\ written \in Call /\ written.pc = "written" /\ written.batch = calls[c].batch
        /\ written.creates = calls[c].creates /\ written.updates = calls[c].updates
        /\ written.file = calls[c].file
    BY <1>1, <1>3 DEF Call
  <2> QED
    BY <2>2, <2>3
<1>5. \/ calls' = [calls EXCEPT ![c] = planned]
      \/ calls' = [calls EXCEPT ![c] = written]
      \/ calls' = [calls EXCEPT ![c] = ToCatch(calls[c])]
  BY <1>3 DEF PlanCount, WritePanelImport
<1> QED
  BY <1>1, <1>2, <1>4, <1>5, LeaveStep

(* The commit of an import. *)
LEMMA CommitStepKeepsInv ==
  ASSUME PanelInv, NEW c \in Calls, CommitPanelImport(c)
  PROVE  PanelInv'
<1> DEFINE b == calls[c].batch
           n == Cardinality(calls[c].creates)
<1>1. /\ calls[c] \in Call /\ calls[c].pc = "written" /\ InCommit(c) /\ b \in Batches
      /\ \A d \in Batches : batches[d] \in Batch
      /\ UNCHANGED <<pages, scrubs>>
  BY Types DEF PanelInv, CommitPanelImport, InCommit, CommitSteps, ImportHoldsBatch
<1>2. PICK s \in Orders(calls[c].creates) : panel' = ImportedPanel(calls[c], s)
  BY DEF CommitPanelImport
<1>3. PICK q : q = ImportedPanel(calls[c], s)
  OBVIOUS
<1>4. /\ q \in Seq(Row) /\ n \in Nat
      /\ DOMAIN q = 1..(Len(panel) + n)
      /\ \A r \in Panelists :
           /\ q[r].key = panel[r].key
           /\ q[r].anonymized = panel[r].anonymized
           /\ q[r].origin = panel[r].origin
           /\ q[r].batch \in {panel[r].batch, b}
      /\ \A i \in 1..n : q[Len(panel) + i] = ImportedRow(s[i], b)
  <2>1. calls[c].pc = "written"
    BY <1>1
  <2> QED
    BY <1>3, <2>1, CommittedPanel
<1>5. panel' = q
  BY <1>2, <1>3
<1>6. Panelists = 1..Len(panel) /\ Len(panel) \in Nat
  BY DEF PanelInv, TypeOK, Panelists
<1>7. \A r \in DOMAIN q : r \in Panelists \/ \E i \in 1..n : r = Len(panel) + i
  <2> SUFFICES ASSUME NEW r \in 1..(Len(panel) + n), r \notin 1..Len(panel)
               PROVE  \E i \in 1..n : r = Len(panel) + i
    BY <1>4, <1>6
  <2>1. r - Len(panel) \in 1..n /\ r = Len(panel) + (r - Len(panel))
    BY <1>4, <1>6
  <2> QED
    BY <2>1
<1>8. \A i \in 1..n : s[i] \in calls[c].creates /\ \A j \in 1..n : s[i] = s[j] => i = j
  BY DEF Orders
<1>9. \A k \in calls[c].creates : k \in Keys /\ \A r \in Panelists : panel[r].key # k
  <2>1. /\ calls[c].creates \subseteq calls[c].file
        /\ calls[c].creates \cap Known(calls[c].file) = {}
    BY <1>1 DEF PanelInv, ImportHoldsBatch, PlanStaysCurrent
  <2>2. calls[c].creates \subseteq Keys
    BY <1>1 DEF Call
  <2> QED
    BY <2>1, <2>2 DEF Known, RowsOf
<1>10. batches' = [batches EXCEPT ![b].status = "committed"]
  BY DEF CommitPanelImport
<1>11. /\ batches' \in [Batches -> Batch]
       /\ batches'[b].status = "committed"
       /\ \A d \in Batches \ {b} : batches'[d] = batches[d]
  <2>1. [batches[b] EXCEPT !.status = "committed"] \in Batch
    BY <1>1 DEF Batch
  <2> QED
    BY <1>1, <1>10, <2>1 DEF PanelInv, TypeOK, Batch
<1>12. /\ calls' \in [Calls -> Call]
       /\ \A d \in Calls \ {c} : calls'[d] = calls[d]
       /\ calls'[c].pc \in {"idle", "failing"} /\ calls'[c].creates = {}
       /\ calls'[c].pc = "failing" => calls'[c].batch = b
  BY <1>1, IdleIsCall, CatchIsCall DEF CommitPanelImport, PanelInv, TypeOK
<1>13. TypeOK'
  BY <1>1, <1>4, <1>5, <1>11, <1>12 DEF PanelInv, TypeOK
<1>14. \A d \in Calls : ~InCommit(d)'
  <2>1. \A d \in Calls \ {c} : ~InCommit(d)
    BY <1>1 DEF PanelInv, ImportsExclusive
  <2> QED
    BY <1>12, <2>1 DEF InCommit, CommitSteps
<1>15. ImportsExclusive' /\ PlanStaysCurrent'
  BY <1>14 DEF ImportsExclusive, PlanStaysCurrent, InCommit, CommitSteps
<1>16. ImportHoldsBatch'
  <2> SUFFICES ASSUME NEW d \in Calls
               PROVE  /\ calls'[d].pc \in {"prepared", "failing"} => calls'[d].batch \in Batches
                      /\ calls'[d].creates \subseteq calls'[d].file
    BY <1>14 DEF ImportHoldsBatch
  <2> QED
    BY <1>1, <1>12 DEF PanelInv, ImportHoldsBatch
<1> HIDE DEF b, n
<1>20. \A i \in 1..n : LET new == q[Len(panel) + i] IN
         /\ new.key = s[i] /\ new.key \in calls[c].creates
         /\ ~new.anonymized /\ new.batch = b /\ new.origin = "import"
  <2> SUFFICES ASSUME NEW i \in 1..n, NEW new, new = q[Len(panel) + i]
               PROVE  /\ new.key = s[i] /\ new.key \in calls[c].creates
                      /\ ~new.anonymized /\ new.batch = b /\ new.origin = "import"
    OBVIOUS
  <2>1. new = ImportedRow(s[i], b)
    BY <1>4
  <2>2. /\ new.key = s[i] /\ ~new.anonymized /\ new.batch = b /\ new.origin = "import"
    BY <2>1 DEF ImportedRow
  <2>3. s[i] \in calls[c].creates
    BY <1>8
  <2> QED
    BY <2>2, <2>3
<1>17. AnonymizedHasNoEmail'
  <2> SUFFICES ASSUME NEW r \in DOMAIN q, q[r].anonymized
               PROVE  q[r].key = NoKey
    BY <1>5 DEF AnonymizedHasNoEmail, Panelists
  <2>1. CASE r \in Panelists
    BY <1>4, <2>1 DEF PanelInv, AnonymizedHasNoEmail
  <2>2. CASE \E i \in 1..n : r = Len(panel) + i
    BY <1>20, <2>2
  <2> QED
    BY <1>7, <2>1, <2>2
<1>18. OnlyCommittedBatchesWrote'
  <2> SUFFICES ASSUME NEW r \in DOMAIN q, q[r].batch # NoBatch
               PROVE  batches'[q[r].batch].status = "committed"
    BY <1>5 DEF OnlyCommittedBatchesWrote, Panelists
  <2>1. CASE r \in Panelists
    <3>1. panel[r].batch \in Batches \cup {NoBatch}
      BY <2>1, Types DEF PanelInv, Row
    <3>2. panel[r].batch # NoBatch => batches[panel[r].batch].status = "committed"
      BY <2>1 DEF PanelInv, OnlyCommittedBatchesWrote
    <3>3. q[r].batch = panel[r].batch \/ q[r].batch = b
      BY <1>4, <2>1
    <3> QED
      BY <1>11, <3>1, <3>2, <3>3
  <2>2. CASE \E i \in 1..n : r = Len(panel) + i
    BY <1>11, <1>20, <2>2
  <2> QED
    BY <1>7, <2>1, <2>2
<1>19. ImportedOnce'
  <2> SUFFICES ASSUME NEW r \in DOMAIN q, NEW t \in DOMAIN q,
                      q[r].key = q[t].key, q[r].key # NoKey,
                      q[r].origin = "import", q[t].origin = "import"
               PROVE  r = t
    BY <1>5 DEF ImportedOnce, Panelists
  <2>1. CASE r \in Panelists /\ t \in Panelists
    BY <1>4, <2>1 DEF PanelInv, ImportedOnce
  <2>2. ASSUME NEW x \in Panelists, NEW i \in 1..n
        PROVE  q[x].key # q[Len(panel) + i].key
    BY <1>4, <1>9, <1>20, <2>2
  <2>3. CASE r \in Panelists /\ \E i \in 1..n : t = Len(panel) + i
    BY <2>2, <2>3
  <2>4. CASE t \in Panelists /\ \E i \in 1..n : r = Len(panel) + i
    BY <2>2, <2>4
  <2>5. CASE (\E i \in 1..n : r = Len(panel) + i) /\ (\E i \in 1..n : t = Len(panel) + i)
    <3>1. PICK i \in 1..n, j \in 1..n : r = Len(panel) + i /\ t = Len(panel) + j
      BY <2>5
    <3>2. s[i] = s[j]
      BY <1>20, <3>1
    <3> QED
      BY <1>8, <3>1, <3>2
  <2> QED
    BY <1>7, <2>1, <2>3, <2>4, <2>5
<1> QED
  BY <1>13, <1>15, <1>16, <1>17, <1>18, <1>19 DEF PanelInv
LEMMA FailStep ==
  ASSUME PanelInv, NEW c \in Calls, FailPanelImport(c)
  PROVE  PanelInv'
<1> DEFINE b == calls[c].batch
<1>1. /\ calls[c].pc = "failing" /\ b \in Batches /\ batches[b] \in Batch
      /\ calls' = [calls EXCEPT ![c] = IdleCall] /\ UNCHANGED <<panel, pages, scrubs>>
  BY Types DEF FailPanelImport, PanelInv, ImportHoldsBatch
<1>2. CASE batches[b].status = "committing"
  <2>1. OrgFree /\ batches' = [batches EXCEPT ![b].status = "failed"]
    BY <1>2 DEF FailPanelImport
  <2>2. [batches[b] EXCEPT !.status = "failed"] \in Batch
    BY <1>1 DEF Batch
  <2>3. batches' \in [Batches -> Batch] /\ \A d \in Batches \ {b} : batches'[d] = batches[d]
    BY <1>1, <2>1, <2>2 DEF PanelInv, TypeOK
  <2>4. \A d \in Batches : ~BatchLocked(d)
    BY <2>1 DEF OrgFree, BatchLocked
  <2> QED
    BY <1>1, <1>2, <2>3, <2>4, IdleIsCall, BatchesMove
<1>3. CASE batches[b].status # "committing"
  <2>1. UNCHANGED batches
    BY <1>3 DEF FailPanelImport
  <2> QED
    BY <1>1, <2>1, LeaveStep DEF IdleCall, ToCatch
<1> QED
  BY <1>2, <1>3

LEMMA BreakDeadlockStep ==
  ASSUME PanelInv, NEW c \in Calls, NEW o \in Officers, BreakDeadlock(c, o)
  PROVE  PanelInv'
<1>1. InCommit(c) /\ UNCHANGED <<panel, batches, pages>>
  BY DEF BreakDeadlock, InCommit, CommitSteps
<1>2. CASE calls' = [calls EXCEPT ![c] = ToCatch(calls[c])] /\ UNCHANGED scrubs
  BY <1>1, <1>2, LeaveStep
<1>3. CASE scrubs' = [scrubs EXCEPT ![o] = IdleScrub] /\ UNCHANGED calls
  <2>1. scrubs' \in [Officers -> Scrub] /\ pages' \in [Pages -> Page]
    BY <1>1, <1>3 DEF PanelInv, TypeOK, Scrub, IdleScrub, NoRow
  <2> QED
    BY <1>1, <1>3, <2>1, LookupMoves
<1> QED
  BY <1>2, <1>3 DEF BreakDeadlock

LEMMA RecruitSaveStep ==
  ASSUME PanelInv, NEW g \in Pages, NEW answered \in BOOLEAN, RecruitSave(g, answered)
  PROVE  PanelInv'
<1> DEFINE r == pages[g].row
           k == pages[g].key
<1>1. /\ panel \in Seq(Row) /\ Panelists = 1..Len(panel) /\ Len(panel) \in Nat
      /\ pages[g] \in Page /\ OrgFree /\ UNCHANGED <<batches, calls, scrubs>>
  BY Types DEF PanelInv, TypeOK, RecruitSave, Panelists
<1>2. pages' \in [Pages -> Page] /\ scrubs' \in [Officers -> Scrub]
  BY DEF PanelInv, TypeOK, RecruitSave, Page, IdlePage, NoRow
<1>3. CASE r = NoRow
  <2>1. PICK row : row = RecruitedRow(k, answered)
    OBVIOUS
  <2>2. row \in Row /\ ~row.anonymized /\ row.batch = NoBatch /\ row.origin = "recruitment"
    BY <1>1, <2>1 DEF RecruitedRow, Row, Page
  <2>3. panel' = Append(panel, row)
    BY <1>3, <2>1 DEF RecruitSave
  <2>4. /\ panel' \in Seq(Row)
        /\ Panelists' = Panelists \cup {Len(panel) + 1}
        /\ \A x \in Panelists : panel'[x] = panel[x]
        /\ panel'[Len(panel) + 1] = row
    BY <1>1, <2>2, <2>3 DEF Panelists
  <2>5. AnonymizedHasNoEmail' /\ ImportedOnce'
    BY <2>2, <2>4 DEF PanelInv, AnonymizedHasNoEmail, ImportedOnce
  <2>6. OnlyCommittedBatchesWrote'
    BY <1>1, <2>2, <2>4 DEF PanelInv, OnlyCommittedBatchesWrote
  <2> QED
    BY <1>1, <1>2, <2>4, <2>5, <2>6, PanelMoves
<1>4. CASE r # NoRow
  <2>1. panel' = [panel EXCEPT ![r].name = TRUE, ![r].attrs = @ \/ answered]
    BY <1>4 DEF RecruitSave
  <2>2. /\ panel' \in Seq(Row)
        /\ Panelists' = Panelists
        /\ \A x \in Panelists :
             /\ panel'[x].key = panel[x].key /\ panel'[x].batch = panel[x].batch
             /\ panel'[x].anonymized = panel[x].anonymized
             /\ panel'[x].origin = panel[x].origin
    <3>1. PICK row : row = [panel[r] EXCEPT !.name = TRUE, !.attrs = @ \/ answered]
      OBVIOUS
    <3>2. panel' = [panel EXCEPT ![r] = row]
      BY <2>1, <3>1
    <3>3. ASSUME r \in Panelists
          PROVE  /\ row \in Row /\ row.key = panel[r].key /\ row.batch = panel[r].batch
                 /\ row.anonymized = panel[r].anonymized /\ row.origin = panel[r].origin
      <4>1. panel[r] \in Row
        BY <1>1, <3>3
      <4>2. (panel[r].attrs \/ answered) \in BOOLEAN
        OBVIOUS
      <4> QED
        BY <3>1, <4>1, <4>2 DEF Row
    <3>4. panel \in Seq(Row) /\ DOMAIN panel = Panelists /\ DOMAIN panel' = Panelists'
      BY <1>1 DEF Panelists
    <3>5. PICK p : p = panel
      OBVIOUS
    <3>6. PICK q : q = [p EXCEPT ![r] = row]
      OBVIOUS
    <3>7. /\ q \in Seq(Row) /\ DOMAIN q = DOMAIN p
          /\ \A x \in DOMAIN p : q[x] = IF x = r THEN row ELSE p[x]
      <4>1. p \in Seq(Row) /\ (r \in DOMAIN p => row \in Row)
        BY <3>3, <3>4, <3>5
      <4> QED
        BY <3>6, <4>1, ReplacedRow, Zenon
    <3>8. panel' = q
      BY <3>2, <3>5, <3>6
    <3> QED
      BY <3>3, <3>4, <3>5, <3>7, <3>8
  <2>3. AnonymizedHasNoEmail' /\ ImportedOnce'
    BY <2>2 DEF PanelInv, AnonymizedHasNoEmail, ImportedOnce
  <2>4. OnlyCommittedBatchesWrote'
    BY <1>1, <2>2 DEF PanelInv, OnlyCommittedBatchesWrote
  <2> QED
    BY <1>1, <1>2, <2>2, <2>3, <2>4, PanelMoves
<1> QED
  BY <1>3, <1>4

LEMMA ScrubRowStep ==
  ASSUME PanelInv, NEW o \in Officers, ScrubRow(o)
  PROVE  PanelInv'
<1> DEFINE r == scrubs[o].row
<1>1. /\ panel \in Seq(Row) /\ Panelists = 1..Len(panel) /\ Len(panel) \in Nat
      /\ OrgFree /\ UNCHANGED <<batches, calls, pages>>
  BY DEF PanelInv, TypeOK, ScrubRow, Panelists
<1>2. pages' \in [Pages -> Page] /\ scrubs' \in [Officers -> Scrub]
  BY DEF PanelInv, TypeOK, ScrubRow, Scrub, IdleScrub, NoRow
<1>3. panel' = [panel EXCEPT
        ![r].key = NoKey, ![r].name = FALSE, ![r].anonymized = TRUE,
        ![r].attrs = @ /\ ~scrubs[o].held]
  BY DEF ScrubRow
<1>4. /\ panel' \in Seq(Row)
      /\ Panelists' = Panelists
      /\ \A x \in Panelists :
           /\ panel'[x].key = panel[x].key \/ panel'[x].key = NoKey
           /\ panel'[x].anonymized =>
                panel'[x].key = NoKey \/ panel[x].anonymized
           /\ panel'[x].batch = panel[x].batch /\ panel'[x].origin = panel[x].origin
  <2>1. PICK row : row = [panel[r] EXCEPT !.key = NoKey, !.name = FALSE, !.anonymized = TRUE,
                                          !.attrs = @ /\ ~scrubs[o].held]
    OBVIOUS
  <2>2. panel' = [panel EXCEPT ![r] = row]
    BY <1>3, <2>1
  <2>3. ASSUME r \in Panelists
        PROVE  /\ row \in Row /\ row.key = NoKey
               /\ row.batch = panel[r].batch /\ row.origin = panel[r].origin
    <3>1. panel[r] \in Row
      BY <1>1, <2>3
    <3>2. (panel[r].attrs /\ ~scrubs[o].held) \in BOOLEAN
      OBVIOUS
    <3> QED
      BY <2>1, <3>1, <3>2 DEF Row
  <2>4. panel \in Seq(Row) /\ DOMAIN panel = Panelists /\ DOMAIN panel' = Panelists'
    BY <1>1 DEF Panelists
  <2>5. PICK p : p = panel
    OBVIOUS
  <2>6. PICK q : q = [p EXCEPT ![r] = row]
    OBVIOUS
  <2>7. /\ q \in Seq(Row) /\ DOMAIN q = DOMAIN p
        /\ \A x \in DOMAIN p : q[x] = IF x = r THEN row ELSE p[x]
    <3>1. p \in Seq(Row) /\ (r \in DOMAIN p => row \in Row)
      BY <2>3, <2>4, <2>5
    <3> QED
      BY <2>6, <3>1, ReplacedRow, Zenon
  <2>8. panel' = q
    BY <2>2, <2>5, <2>6
  <2> QED
    BY <2>3, <2>4, <2>5, <2>7, <2>8
<1>5. AnonymizedHasNoEmail' /\ ImportedOnce'
  BY <1>4 DEF PanelInv, AnonymizedHasNoEmail, ImportedOnce
<1>6. OnlyCommittedBatchesWrote'
  BY <1>1, <1>4 DEF PanelInv, OnlyCommittedBatchesWrote
<1> QED
  BY <1>1, <1>2, <1>4, <1>5, <1>6, PanelMoves

LEMMA LookupStep ==
  ASSUME PanelInv,
         \/ \E g \in Pages : RecruitAborted(g) \/ \E k \in Keys : RecruitLookup(g, k)
         \/ \E o \in Officers : ScrubAborted(o) \/ \E r \in Panelists : ScrubChildren(o, r)
  PROVE  PanelInv'
<1>1. TypeOK /\ \A r \in Panelists : panel[r] \in Row /\ r \in Nat
  BY Types DEF PanelInv
<1>2. pages' \in [Pages -> Page] /\ scrubs' \in [Officers -> Scrub]
  <2>1. CASE \E g \in Pages : RecruitAborted(g)
    BY <1>1, <2>1 DEF RecruitAborted, TypeOK, Page, IdlePage, NoRow
  <2>2. CASE \E g \in Pages : \E k \in Keys : RecruitLookup(g, k)
    <3>1. PICK g \in Pages, k \in Keys : RecruitLookup(g, k)
      BY <2>2
    <3>2. \E p \in Page : pages' = [pages EXCEPT ![g] = p]
      BY <1>1, <3>1 DEF RecruitLookup, RowsOf, Page, NoRow
    <3> QED
      BY <1>1, <3>1, <3>2 DEF RecruitLookup, TypeOK
  <2>3. CASE \E o \in Officers : ScrubAborted(o)
    BY <1>1, <2>3 DEF ScrubAborted, TypeOK, Scrub, IdleScrub, NoRow
  <2>4. CASE \E o \in Officers : \E r \in Panelists : ScrubChildren(o, r)
    <3>1. PICK o \in Officers, r \in Panelists : ScrubChildren(o, r)
      BY <2>4
    <3>2. [row |-> r, held |-> panel[r].attrs] \in Scrub
      BY <1>1, <3>1 DEF Scrub, Row
    <3> QED
      BY <1>1, <3>1, <3>2 DEF ScrubChildren, TypeOK
  <2> QED
    BY <2>1, <2>2, <2>3, <2>4
<1>3. UNCHANGED <<panel, batches, calls>>
  BY DEF RecruitAborted, RecruitLookup, ScrubAborted, ScrubChildren
<1> QED
  BY <1>2, <1>3, LookupMoves
-----------------------------------------------------------------------------
(* The invariant and what follows from it. *)

LEMMA InitHolds == Init => PanelInv
<1> SUFFICES ASSUME Init PROVE PanelInv
  OBVIOUS
<1>1. \A c \in Calls : calls[c] = IdleCall
  BY DEF Init
<1>2. Panelists = {}
  BY DEF Init, Panelists
<1>3. TypeOK
  BY IdleIsCall DEF Init, TypeOK, Batch, Counts, Page, IdlePage, Scrub, IdleScrub, NoRow
<1>4. ImportsExclusive /\ ImportHoldsBatch /\ PlanStaysCurrent
  BY <1>1 DEF ImportsExclusive, ImportHoldsBatch, PlanStaysCurrent, InCommit, CommitSteps,
              IdleCall
<1>5. AnonymizedHasNoEmail /\ OnlyCommittedBatchesWrote /\ ImportedOnce
  BY <1>2 DEF AnonymizedHasNoEmail, OnlyCommittedBatchesWrote, ImportedOnce
<1> QED
  BY <1>3, <1>4, <1>5 DEF PanelInv

LEMMA NextKeepsInv ==
  ASSUME PanelInv, [Next]_vars
  PROVE  PanelInv'
<1>1. CASE \E c \in Calls : CallStep(c)
  <2> SUFFICES ASSUME NEW c \in Calls, CallStep(c)
               PROVE  PanelInv'
    BY <1>1
  <2>1. CASE DryRunSelect(c)
    BY <2>1, DryRunSelectStep
  <2>2. CASE \E b \in Batches : DryRunSave(c, b) \/ StartPanelImportCommit(c, b)
    BY <2>2, DryRunSaveStep, StartStep
  <2>3. CASE CommitStep(c)
    BY <2>3, LockStep, PlanSelectStep, KeepStep, CommitStepKeepsInv DEF CommitStep
  <2>4. CASE StatementFails(c)
    BY <2>4, LeaveStep DEF StatementFails
  <2>5. CASE FailPanelImport(c)
    BY <2>5, FailStep
  <2>6. CASE FailureNotRecorded(c) \/ Crash(c)
    BY <2>6, LeaveStep DEF FailureNotRecorded, Crash, IdleCall, ToCatch
  <2> QED
    BY <2>1, <2>2, <2>3, <2>4, <2>5, <2>6 DEF CallStep
<1>2. CASE ListBatches \/ \E b \in Batches : LeaseExpires(b)
  BY <1>2, HistoryStep
<1>3. CASE \E g \in Pages : PageStep(g)
  BY <1>3, LookupStep, RecruitSaveStep DEF PageStep
<1>4. CASE \E o \in Officers : OfficerStep(o)
  BY <1>4, LookupStep, ScrubRowStep DEF OfficerStep
<1>5. CASE \E c \in Calls, o \in Officers : BreakDeadlock(c, o)
  BY <1>5, BreakDeadlockStep
<1>6. CASE UNCHANGED vars
  BY <1>6, LookupMoves DEF vars, PanelInv, TypeOK
<1> QED
  BY <1>1, <1>2, <1>3, <1>4, <1>5, <1>6 DEF Next

(* PanelInv holds in every reachable state: actions.ts:161-291 with what   *)
(* runs beside it.                                                         *)
THEOREM PanelInvCorrect == Spec => []PanelInv
<1>1. Init => PanelInv
  BY InitHolds
<1>2. PanelInv /\ [Next]_vars => PanelInv'
  BY NextKeepsInv
<1> QED
  BY <1>1, <1>2, PTL DEF Spec

(* Types. *)
THEOREM TypeCorrect == Spec => []TypeOK
<1>1. PanelInv => TypeOK
  BY DEF PanelInv
<1> QED
  BY <1>1, PanelInvCorrect, PTL

(* The plan of an import stays true of the panel until it commits. *)
THEOREM PlanCorrect == Spec => []PlanStaysCurrent
<1>1. PanelInv => PlanStaysCurrent
  BY DEF PanelInv
<1> QED
  BY <1>1, PanelInvCorrect, PTL

(* No import gives an anonymized panelist an e-mail address again. *)
THEOREM NoEmailCorrect == Spec => []AnonymizedHasNoEmail
<1>1. PanelInv => AnonymizedHasNoEmail
  BY DEF PanelInv
<1> QED
  BY <1>1, PanelInvCorrect, PTL

(* Imports alone never give one address to two panelists. *)
THEOREM ImportedOnceCorrect == Spec => []ImportedOnce
<1>1. PanelInv => ImportedOnce
  BY DEF PanelInv
<1> QED
  BY <1>1, PanelInvCorrect, PTL

(* A panelist is linked only to a batch documented as committed. *)
THEOREM AllOrNothingCorrect == Spec => []OnlyCommittedBatchesWrote
<1>1. PanelInv => OnlyCommittedBatchesWrote
  BY DEF PanelInv
<1> QED
  BY <1>1, PanelInvCorrect, PTL

(* A settled batch stays as it was settled: whoever settles a batch finds  *)
(* it committing, and the import that holds it keeps all others waiting.   *)
LEMMA StepKeepsSettled ==
  ASSUME PanelInv, [Next]_vars, NEW b \in Batches,
         batches[b].status \in {"committed", "failed"}
  PROVE  batches'[b].status = batches[b].status
<1>1. TypeOK
  BY DEF PanelInv
<1>2. CanRecover => Recovered[b].status = batches[b].status
  BY <1>1, RecoveredIsSafe
<1>3. \A c \in Calls : InCommit(c) => batches[calls[c].batch].status = "committing"
  BY DEF PanelInv, ImportHoldsBatch
<1>4. CASE UNCHANGED batches
  BY <1>4
<1>5. ASSUME NEW c \in Calls, NEW d \in Batches, DryRunSave(c, d)
      PROVE  batches'[b].status = batches[b].status
  BY <1>1, <1>2, <1>5 DEF DryRunSave, Recovered, TypeOK
<1>6. ASSUME NEW c \in Calls, NEW d \in Batches, StartPanelImportCommit(c, d)
      PROVE  batches'[b].status = batches[b].status
  BY <1>1, <1>2, <1>6 DEF StartPanelImportCommit, Recovered, TypeOK
<1>7. ASSUME NEW c \in Calls, CommitPanelImport(c)
      PROVE  batches'[b].status = batches[b].status
  <2>1. calls[c].batch # b
    BY <1>3, <1>7 DEF CommitPanelImport, InCommit, CommitSteps
  <2> QED
    BY <1>1, <1>7, <2>1 DEF CommitPanelImport, TypeOK
<1>8. ASSUME NEW c \in Calls, FailPanelImport(c)
      PROVE  batches'[b].status = batches[b].status
  BY <1>1, <1>8 DEF FailPanelImport, TypeOK
<1>9. ASSUME NEW d \in Batches, LeaseExpires(d)
      PROVE  batches'[b].status = batches[b].status
  <2>1. d # b
    BY <1>9 DEF LeaseExpires
  <2> QED
    BY <1>1, <1>9, <2>1 DEF LeaseExpires, TypeOK
<1>10. CASE ListBatches
  BY <1>2, <1>10 DEF ListBatches
<1>11. ASSUME NEW c \in Calls, CallStep(c)
       PROVE  batches'[b].status = batches[b].status
  BY <1>4, <1>5, <1>6, <1>7, <1>8, <1>11
     DEF CallStep, CommitStep, DryRunSelect, LockOrganization, PlanSelect, PlanCount,
         WritePanelImport, StatementFails, FailureNotRecorded, Crash
<1>12. CASE \/ \E g \in Pages : PageStep(g)
            \/ \E o \in Officers : OfficerStep(o)
            \/ \E c \in Calls, o \in Officers : BreakDeadlock(c, o)
            \/ UNCHANGED vars
  BY <1>4, <1>12
     DEF PageStep, RecruitLookup, RecruitSave, RecruitAborted,
         OfficerStep, ScrubChildren, ScrubRow, ScrubAborted, BreakDeadlock, vars
<1> QED
  BY <1>9, <1>10, <1>11, <1>12 DEF Next

THEOREM SettledCorrect == Spec => SettledStays
<1> DEFINE Stays == \A b \in Batches : batches[b].status \in {"committed", "failed"} =>
                      batches'[b].status = batches[b].status
<1>1. PanelInv /\ [Next]_vars => [Stays]_vars
  BY StepKeepsSettled
<1>2. Spec => [][Stays]_vars
  BY <1>1, PanelInvCorrect, PTL DEF Spec
<1> QED
  BY <1>2 DEF SettledStays
-----------------------------------------------------------------------------
(* What commits is what was reviewed.  ReviewInv is inductive on top of     *)
(* PanelInv; the commit then turns the counts into rows of the panel.       *)

(* The rows a plan updates. *)
UpdatedRows(call) == {u[2] : u \in call.updates}

(* No file and no reviewed count ever changes once the batch is saved. *)
LEMMA ReviewKept ==
  ASSUME PanelInv, [Next]_vars, NEW b \in Batches, batches[b].status # "none"
  PROVE  /\ batches'[b].status # "none"
         /\ batches'[b].file = batches[b].file
         /\ batches'[b].counts = batches[b].counts
<1> DEFINE Kept == /\ batches'[b].status # "none"
                   /\ batches'[b].file = batches[b].file
                   /\ batches'[b].counts = batches[b].counts
<1>1. TypeOK /\ \A d \in Batches : batches[d] \in Batch
  BY Types DEF PanelInv
<1>2. \A d \in Batches :
        /\ Recovered[d].status # "none" \/ batches[d].status = "none"
        /\ Recovered[d].file = batches[d].file
        /\ Recovered[d].counts = batches[d].counts
  BY <1>1 DEF Recovered, Batch
<1>3. Recovered = [d \in Batches |-> Recovered[d]]
  BY DEF Recovered
<1>4. CASE UNCHANGED batches
  BY <1>4
<1>5. ASSUME NEW c \in Calls, NEW d \in Batches, DryRunSave(c, d)
      PROVE  Kept
  <2>1. d # b
    BY <1>5 DEF DryRunSave
  <2>2. batches'[b] = Recovered[b]
    BY <1>3, <1>5, <2>1 DEF DryRunSave
  <2> QED
    BY <1>2, <2>2
<1>6. ASSUME NEW c \in Calls, NEW d \in Batches, StartPanelImportCommit(c, d)
      PROVE  Kept
  <2>1. batches' = [Recovered EXCEPT ![d].status = "committing"]
    BY <1>6 DEF StartPanelImportCommit
  <2>2. batches'[b] = Recovered[b] \/ batches'[b] = [Recovered[b] EXCEPT !.status = "committing"]
    BY <1>3, <2>1
  <2>3. Recovered[b] \in Batch
    BY <1>1 DEF Recovered, Batch
  <2> QED
    BY <1>2, <2>2, <2>3 DEF Batch
<1>7. ASSUME NEW d \in Batches, NEW st \in {"committed", "failed"},
             batches' = [batches EXCEPT ![d].status = st]
      PROVE  Kept
  <2>1. batches'[b] = batches[b] \/ batches'[b] = [batches[b] EXCEPT !.status = st]
    BY <1>1, <1>7 DEF TypeOK
  <2> QED
    BY <1>1, <2>1 DEF Batch
<1>8. ASSUME NEW d \in Batches, LeaseExpires(d)
      PROVE  Kept
  <2>1. batches'[b] = batches[b] \/ batches'[b] = [batches[b] EXCEPT !.stale = TRUE]
    BY <1>1, <1>8 DEF LeaseExpires, TypeOK
  <2> QED
    BY <1>1, <2>1 DEF Batch
<1>9. CASE ListBatches
  BY <1>2, <1>9 DEF ListBatches
<1>10. ASSUME NEW c \in Calls, CommitPanelImport(c) \/ FailPanelImport(c)
       PROVE  Kept
  <2>1. calls[c].batch \in Batches
    BY <1>10 DEF CommitPanelImport, FailPanelImport, PanelInv, ImportHoldsBatch, InCommit,
                 CommitSteps
  <2> QED
    BY <1>4, <1>7, <1>10, <2>1 DEF CommitPanelImport, FailPanelImport
<1>11. ASSUME NEW c \in Calls, CallStep(c)
       PROVE  Kept
  BY <1>4, <1>5, <1>6, <1>10, <1>11
     DEF CallStep, CommitStep, DryRunSelect, LockOrganization, PlanSelect, PlanCount,
         WritePanelImport, StatementFails, FailureNotRecorded, Crash
<1>12. CASE \/ \E g \in Pages : PageStep(g)
            \/ \E o \in Officers : OfficerStep(o)
            \/ \E c \in Calls, o \in Officers : BreakDeadlock(c, o)
            \/ UNCHANGED vars
  BY <1>4, <1>12
     DEF PageStep, RecruitLookup, RecruitSave, RecruitAborted,
         OfficerStep, ScrubChildren, ScrubRow, ScrubAborted, BreakDeadlock, vars
<1> QED
  BY <1>8, <1>9, <1>11, <1>12 DEF Next

(* While an import is past the organization lock, only its commit changes  *)
(* the panel.                                                               *)
LEMMA PanelKept ==
  ASSUME PanelInv, [Next]_vars, NEW c \in Calls, InCommit(c), InCommit(c)'
  PROVE  panel' = panel
<1>1. ~OrgFree /\ \A d \in Calls : InCommit(d) => d = c
  BY DEF OrgFree, PanelInv, ImportsExclusive
<1>2. ASSUME NEW d \in Calls, CommitPanelImport(d)
      PROVE  FALSE
  <2>1. d = c
    BY <1>1, <1>2 DEF CommitPanelImport, InCommit, CommitSteps
  <2>2. calls'[c] \in {IdleCall, ToCatch(calls[c])} /\ calls[c] \in Call
    BY <1>2, <2>1, Types DEF CommitPanelImport, PanelInv, TypeOK
  <2> QED
    BY <2>2, CatchIsCall, IdleIsCall DEF InCommit, CommitSteps
<1>3. ASSUME NEW d \in Calls, CallStep(d)
      PROVE  panel' = panel
  BY <1>2, <1>3
     DEF CallStep, CommitStep, DryRunSelect, DryRunSave, StartPanelImportCommit,
         LockOrganization, PlanSelect, PlanCount, WritePanelImport, StatementFails,
         FailPanelImport, FailureNotRecorded, Crash
<1>4. ASSUME NEW g \in Pages, PageStep(g)
      PROVE  panel' = panel
  BY <1>1, <1>4 DEF PageStep, RecruitLookup, RecruitSave, RecruitAborted
<1>5. ASSUME NEW o \in Officers, OfficerStep(o)
      PROVE  panel' = panel
  BY <1>1, <1>5 DEF OfficerStep, ScrubChildren, ScrubRow, ScrubAborted
<1> QED
  BY <1>3, <1>4, <1>5 DEF Next, LeaseExpires, ListBatches, BreakDeadlock, vars

(* How a call can get into, or go on in, the transactions of an import. *)
LEMMA CallTrail ==
  ASSUME PanelInv, [Next]_vars, NEW c \in Calls
  PROVE  \/ calls'[c] = calls[c]
         \/ calls'[c].pc \in {"idle", "reviewing", "failing"}
         \/ \E b \in Batches : StartPanelImportCommit(c, b)
         \/ LockOrganization(c) \/ PlanSelect(c) \/ PlanCount(c) \/ WritePanelImport(c)
<1> DEFINE Trail == \/ calls'[c] = calls[c]
                    \/ calls'[c].pc \in {"idle", "reviewing", "failing"}
                    \/ \E b \in Batches : StartPanelImportCommit(c, b)
                    \/ LockOrganization(c) \/ PlanSelect(c) \/ PlanCount(c) \/ WritePanelImport(c)
<1>1. calls \in [Calls -> Call] /\ calls[c] \in Call
  BY Types DEF PanelInv, TypeOK
<1>2. ASSUME NEW d \in Calls, NEW call, calls' = [calls EXCEPT ![d] = call], d # c
      PROVE  Trail
  BY <1>1, <1>2
<1>3. ASSUME NEW call, calls' = [calls EXCEPT ![c] = call],
             call.pc \in {"idle", "reviewing", "failing"}
      PROVE  Trail
  BY <1>1, <1>3
<1>4. ToCatch(calls[c]).pc = "failing" /\ IdleCall.pc = "idle"
  BY <1>1, CatchIsCall, IdleIsCall
<1>5. ASSUME NEW file, NEW m PROVE Planned(calls[c], file, m, "reviewing").pc = "reviewing"
  BY <1>1 DEF Planned, Call
<1>6. ASSUME NEW d \in Calls, CallStep(d)
      PROVE  Trail
  <2>1. CASE d # c
    <3>1. \E call : calls' = [calls EXCEPT ![d] = call]
      BY <1>6
         DEF CallStep, CommitStep, DryRunSelect, DryRunSave, StartPanelImportCommit,
             LockOrganization, PlanSelect, PlanCount, WritePanelImport, CommitPanelImport,
             StatementFails, FailPanelImport, FailureNotRecorded, Crash
    <3> QED
      BY <1>2, <2>1, <3>1
  <2>2. CASE d = c /\ DryRunSelect(c)
    <3>1. PICK file \in (SUBSET Keys) \ {{}} : \E m \in Matches(file) :
            calls' = [calls EXCEPT ![c] = Planned(calls[c], file, m, "reviewing")]
      BY <2>2 DEF DryRunSelect
    <3>2. PICK m \in Matches(file) :
            calls' = [calls EXCEPT ![c] = Planned(calls[c], file, m, "reviewing")]
      BY <3>1
    <3>3. PICK p : p = Planned(calls[c], file, m, "reviewing")
      OBVIOUS
    <3> QED
      BY <1>3, <1>5, <3>2, <3>3
  <2>3. CASE /\ d = c
             /\ \/ \E b \in Batches : DryRunSave(c, b)
                \/ CommitPanelImport(c) \/ StatementFails(c) \/ FailPanelImport(c)
                \/ FailureNotRecorded(c) \/ Crash(c)
    <3>1. \/ calls' = [calls EXCEPT ![c] = IdleCall]
          \/ calls' = [calls EXCEPT ![c] = ToCatch(calls[c])]
      BY <2>3 DEF DryRunSave, CommitPanelImport, StatementFails, FailPanelImport,
                  FailureNotRecorded, Crash
    <3> QED
      BY <1>3, <1>4, <3>1
  <2> QED
    BY <1>6, <2>1, <2>2, <2>3 DEF CallStep, CommitStep
<1>7. ASSUME NEW d \in Calls, NEW o \in Officers, BreakDeadlock(d, o)
      PROVE  Trail
  <2>1. CASE UNCHANGED calls
    BY <2>1
  <2>2. CASE calls' = [calls EXCEPT ![d] = ToCatch(calls[d])]
    <3>1. CASE d = c
      BY <1>3, <1>4, <2>2, <3>1
    <3>2. CASE d # c
      BY <1>2, <2>2, <3>2
    <3> QED
      BY <3>1, <3>2
  <2> QED
    BY <1>7, <2>1, <2>2 DEF BreakDeadlock
<1>8. CASE \/ \E g \in Pages : PageStep(g)
           \/ \E o \in Officers : OfficerStep(o)
           \/ ListBatches \/ \E b \in Batches : LeaseExpires(b)
           \/ UNCHANGED vars
  <2>1. UNCHANGED calls
    BY <1>8 DEF PageStep, RecruitLookup, RecruitSave, RecruitAborted,
        OfficerStep, ScrubChildren, ScrubRow, ScrubAborted, ListBatches, LeaseExpires, vars
  <2> QED
    BY <2>1
<1> QED
  BY <1>6, <1>7, <1>8 DEF Next

(* A plan splits its file. *)
LEMMA PlannedSplitsFile ==
  ASSUME NEW call \in Call, NEW file, NEW m \in Matches(file), NEW pc, NEW p,
         p = Planned(call, file, m, pc)
  PROVE  SplitsFile(p) /\ p.pc = pc /\ p.batch = call.batch /\ p.file = file
<1>1. /\ p.pc = pc /\ p.batch = call.batch /\ p.file = file
      /\ p.creates = file \ Known(file)
      /\ p.updates = {<<k, m[k]>> : k \in Known(file)}
  BY DEF Planned, Call
<1>2. file \ p.creates = Known(file)
  BY <1>1 DEF Known
<1>3. \A k \in Known(file) : <<k, m[k]>> \in p.updates /\ <<k, m[k]>>[1] = k
  BY <1>1
<1>4. \A u \in p.updates : \E k \in Known(file) : u = <<k, m[k]>>
  BY <1>1
<1>5. \A u \in p.updates : u[1] \in Known(file) /\ u = <<u[1], m[u[1]]>>
  BY <1>4
<1>6. \A u, v \in p.updates : u[1] = v[1] => u = v
  BY <1>5
<1>7. \A k \in Known(file) : \E u \in p.updates : u[1] = k
  BY <1>3
<1>8. SplitsFile(p)
  BY <1>1, <1>2, <1>5, <1>6, <1>7, Zenon DEF SplitsFile
<1> QED
  BY <1>1, <1>8

(* What each step that takes a call into the import, or further, leaves. *)
LEMMA EntersImport ==
  ASSUME PanelInv, NEW c \in Calls,
         (\E b \in Batches : StartPanelImportCommit(c, b)) \/ LockOrganization(c)
  PROVE  \/ calls'[c].pc = "failing"
         \/ /\ calls'[c].pc \in {"prepared", "locked"}
            /\ \/ /\ calls'[c].batch \in Batches
                  /\ batches[calls'[c].batch].status = "dry_run"
                  /\ calls'[c].file = batches[calls'[c].batch].file
               \/ /\ calls[c].pc = "prepared"
                  /\ calls'[c].batch = calls[c].batch /\ calls'[c].file = calls[c].file
<1>1. calls \in [Calls -> Call] /\ calls[c] \in Call /\ \A b \in Batches : batches[b] \in Batch
  BY Types DEF PanelInv, TypeOK
<1>2. ASSUME NEW b \in Batches, StartPanelImportCommit(c, b)
      PROVE  /\ calls'[c].pc = "prepared" /\ calls'[c].batch = b
             /\ calls'[c].file = batches[b].file /\ batches[b].status = "dry_run"
  BY <1>1, <1>2 DEF StartPanelImportCommit, IdleCall, Call
<1>3. ASSUME LockOrganization(c)
      PROVE  /\ calls[c].pc = "prepared"
             /\ \/ calls'[c].pc = "failing"
                \/ /\ calls'[c].pc = "locked"
                   /\ calls'[c].batch = calls[c].batch /\ calls'[c].file = calls[c].file
  <2>1. calls'[c] \in {[calls[c] EXCEPT !.pc = "locked"], ToCatch(calls[c])}
    BY <1>1, <1>3 DEF LockOrganization
  <2> QED
    BY <1>1, <1>3, <2>1, CatchIsCall DEF LockOrganization, Call
<1> QED
  BY <1>2, <1>3

LEMMA GoesOnImporting ==
  ASSUME PanelInv, NEW c \in Calls, PlanSelect(c) \/ PlanCount(c) \/ WritePanelImport(c)
  PROVE  \/ calls'[c].pc = "failing"
         \/ /\ InCommit(c)
            /\ calls'[c].batch = calls[c].batch /\ calls'[c].file = calls[c].file
            /\ UNCHANGED <<panel, batches>>
            /\ \/ calls'[c].pc = "selected" /\ SplitsFile(calls'[c])
               \/ /\ calls[c].pc \in {"selected", "planned"}
                  /\ calls'[c].pc \in {"planned", "written"}
                  /\ calls'[c].creates = calls[c].creates
                  /\ calls'[c].updates = calls[c].updates
                  /\ calls[c].pc = "selected" => SamePlanCounts(calls[c], Len(panel))
<1>1. calls \in [Calls -> Call] /\ calls[c] \in Call
  BY Types DEF PanelInv, TypeOK
<1>2. ToCatch(calls[c]).pc = "failing"
  BY <1>1, CatchIsCall
<1>3. ASSUME PlanSelect(c)
      PROVE  /\ calls[c].pc = "locked" /\ UNCHANGED <<panel, batches>>
             /\ calls'[c].pc = "selected" /\ SplitsFile(calls'[c])
             /\ calls'[c].batch = calls[c].batch /\ calls'[c].file = calls[c].file
  <2>1. PICK m \in Matches(calls[c].file) :
          calls' = [calls EXCEPT ![c] = Planned(calls[c], calls[c].file, m, "selected")]
    BY <1>3 DEF PlanSelect
  <2>2. PICK p : p = Planned(calls[c], calls[c].file, m, "selected")
    OBVIOUS
  <2>3. calls'[c] = p
    BY <1>1, <2>1, <2>2
  <2>4. SplitsFile(p) /\ p.pc = "selected" /\ p.batch = calls[c].batch /\ p.file = calls[c].file
    BY <1>1, <2>2, PlannedSplitsFile
  <2> QED
    BY <1>3, <2>3, <2>4 DEF PlanSelect
<1>4. ASSUME PlanCount(c) \/ WritePanelImport(c)
      PROVE  \/ calls'[c].pc = "failing"
             \/ /\ UNCHANGED <<panel, batches>>
                /\ calls'[c].batch = calls[c].batch /\ calls'[c].file = calls[c].file
                /\ calls[c].pc \in {"selected", "planned"}
                /\ calls'[c].pc \in {"planned", "written"}
                /\ calls'[c].creates = calls[c].creates
                /\ calls'[c].updates = calls[c].updates
                /\ calls[c].pc = "selected" => SamePlanCounts(calls[c], Len(panel))
  <2>1. PICK planned, written :
          /\ planned = [calls[c] EXCEPT !.pc = "planned", !.before = Len(panel)]
          /\ written = [calls[c] EXCEPT !.pc = "written"]
    OBVIOUS
  <2>2. \A call \in {planned, written} :
          /\ call.pc \in {"planned", "written"} /\ call.batch = calls[c].batch
          /\ call.creates = calls[c].creates /\ call.updates = calls[c].updates
          /\ call.file = calls[c].file
    BY <1>1, <2>1 DEF Call
  <2>3. CASE PlanCount(c)
    <3>1. \/ calls'[c] = ToCatch(calls[c])
          \/ calls'[c] = planned /\ SamePlanCounts(calls[c], Len(panel))
      BY <1>1, <2>1, <2>3 DEF PlanCount
    <3> QED
      BY <1>2, <2>2, <2>3, <3>1 DEF PlanCount
  <2>4. CASE WritePanelImport(c)
    <3>1. calls'[c] = ToCatch(calls[c]) \/ calls'[c] = written
      BY <1>1, <2>1, <2>4 DEF WritePanelImport
    <3> QED
      BY <1>2, <2>2, <2>4, <3>1 DEF WritePanelImport
  <2> QED
    BY <1>4, <2>3, <2>4
<1> QED
  BY <1>3, <1>4 DEF InCommit, CommitSteps

(* ReviewInv is inductive. *)
LEMMA ReviewInit == Init => ReviewInv
<1> SUFFICES ASSUME Init PROVE ReviewInv
  OBVIOUS
<1>1. \A c \in Calls : calls[c].pc = "idle"
  BY DEF Init, IdleCall
<1>2. PanelInv
  BY InitHolds
<1> QED
  BY <1>1, <1>2 DEF ReviewInv, KeepsFile, PlanSplitsFile, CountsStayReviewed, InCommit, CommitSteps

LEMMA ReviewStep ==
  ASSUME ReviewInv, [Next]_vars
  PROVE  ReviewInv'
<1>1. PanelInv /\ PanelInv'
  BY NextKeepsInv DEF ReviewInv
<1>2. ASSUME NEW c \in Calls, calls'[c].pc = "prepared" \/ InCommit(c)'
      PROVE  /\ batches'[calls'[c].batch].status # "none"
             /\ calls'[c].file = batches'[calls'[c].batch].file
  <2>1. \/ calls'[c] = calls[c]
        \/ /\ calls'[c].batch = calls[c].batch /\ calls'[c].file = calls[c].file
           /\ calls[c].pc = "prepared" \/ InCommit(c)
        \/ /\ calls'[c].batch \in Batches
           /\ batches[calls'[c].batch].status = "dry_run"
           /\ calls'[c].file = batches[calls'[c].batch].file
    BY <1>1, <1>2, CallTrail, EntersImport, GoesOnImporting DEF InCommit, CommitSteps
  <2>2. /\ calls'[c].batch \in Batches
        /\ batches[calls'[c].batch].status # "none"
        /\ calls'[c].file = batches[calls'[c].batch].file
    BY <1>1, <1>2, <2>1 DEF ReviewInv, KeepsFile, PanelInv, ImportHoldsBatch, InCommit
  <2> QED
    BY <1>1, <2>2, ReviewKept
<1>3. KeepsFile'
  BY <1>2 DEF KeepsFile
<1>4. ASSUME NEW c \in Calls, calls'[c].pc \in {"selected", "planned", "written"}
      PROVE  /\ SplitsFile(calls'[c])
             /\ calls'[c].pc # "selected" => SamePlanCounts(calls[c], Len(panel))'
  <2>1. \/ calls'[c] = calls[c]
        \/ PlanSelect(c) \/ PlanCount(c) \/ WritePanelImport(c)
    BY <1>1, <1>4, CallTrail, EntersImport
  <2>2. CASE calls'[c] = calls[c]
    <3>1. InCommit(c) /\ InCommit(c)'
      BY <1>4, <2>2 DEF InCommit, CommitSteps
    <3>2. panel' = panel
      BY <1>1, <3>1, PanelKept
    <3>3. batches[calls[c].batch].status # "none" /\ calls[c].batch \in Batches
      BY <1>1, <3>1 DEF ReviewInv, KeepsFile, PanelInv, ImportHoldsBatch
    <3>4. batches'[calls[c].batch].counts = batches[calls[c].batch].counts
      BY <1>1, <3>3, ReviewKept
    <3>5. SplitsFile(calls[c])
      BY <1>4, <2>2 DEF ReviewInv, PlanSplitsFile
    <3>6. calls[c].pc # "selected" => SamePlanCounts(calls[c], Len(panel))
      BY <1>4, <2>2 DEF ReviewInv, CountsStayReviewed
    <3> QED
      BY <2>2, <3>2, <3>4, <3>5, <3>6 DEF SamePlanCounts
  <2>3. CASE PlanSelect(c) \/ PlanCount(c) \/ WritePanelImport(c)
    <3>1. /\ calls'[c].batch = calls[c].batch /\ calls'[c].file = calls[c].file
          /\ UNCHANGED <<panel, batches>>
          /\ \/ calls'[c].pc = "selected" /\ SplitsFile(calls'[c])
             \/ /\ calls[c].pc \in {"selected", "planned"}
                /\ calls'[c].pc \in {"planned", "written"}
                /\ calls'[c].creates = calls[c].creates
                /\ calls'[c].updates = calls[c].updates
                /\ calls[c].pc = "selected" => SamePlanCounts(calls[c], Len(panel))
      BY <1>1, <1>4, <2>3, GoesOnImporting
    <3>2. CASE calls'[c].pc = "selected" /\ SplitsFile(calls'[c])
      BY <3>2
    <3>3. CASE /\ calls[c].pc \in {"selected", "planned"}
               /\ calls'[c].creates = calls[c].creates
               /\ calls'[c].updates = calls[c].updates
               /\ calls[c].pc = "selected" => SamePlanCounts(calls[c], Len(panel))
      <4>1. SplitsFile(calls[c]) /\ SamePlanCounts(calls[c], Len(panel))
        BY <3>3 DEF ReviewInv, PlanSplitsFile, CountsStayReviewed
      <4> QED
        BY <3>1, <3>3, <4>1 DEF SplitsFile, SamePlanCounts
    <3> QED
      BY <3>1, <3>2, <3>3
  <2> QED
    BY <2>1, <2>2, <2>3
<1>5. PlanSplitsFile' /\ CountsStayReviewed'
  BY <1>4 DEF PlanSplitsFile, CountsStayReviewed
<1> QED
  BY <1>1, <1>3, <1>5 DEF ReviewInv

(* A plan updates one row for each key it has no row to create for.        *)
LEMMA UpdatesCounted ==
  ASSUME ReviewInv, NEW c \in Calls, calls[c].pc = "written"
  PROVE  /\ UpdatedRows(calls[c]) \subseteq Panelists
         /\ IsFiniteSet(UpdatedRows(calls[c]))
         /\ Cardinality(UpdatedRows(calls[c])) =
              Cardinality(calls[c].file \ calls[c].creates)
<1> DEFINE call == calls[c]
           K == call.file \ call.creates
           U == UpdatedRows(call)
<1>1. /\ call \in Call /\ TypeOK
      /\ \A u \in call.updates : u[2] \in Panelists /\ panel[u[2]].key = u[1]
  BY Types DEF ReviewInv, PanelInv, PlanStaysCurrent
<1>2. /\ \A u \in call.updates : u[1] \in K
      /\ \A k \in K : \E u \in call.updates : u[1] = k
      /\ \A u, v \in call.updates : u[1] = v[1] => u = v
  BY DEF ReviewInv, PlanSplitsFile, SplitsFile
<1>3. \A u, v \in call.updates : u[2] = v[2] => u[1] = v[1]
  BY <1>1
<1>4. IsFiniteSet(K)
  <2>1. K \in SUBSET Keys
    BY <1>1 DEF Call
  <2> QED
    BY <2>1, FS_Subset, PanelAssumption
<1>5. U \subseteq Panelists /\ \A r \in U : \E u \in call.updates : u[2] = r
  BY <1>1 DEF UpdatedRows
<1>6. \A u \in call.updates : u[2] \in U
  BY DEF UpdatedRows
<1> HIDE DEF call, K, U
<1> DEFINE pick(k) == CHOOSE u \in call.updates : u[1] = k
           f == [k \in K |-> pick(k)[2]]
<1>7. \A k \in K : pick(k) \in call.updates /\ pick(k)[1] = k
  BY <1>2
<1>8. \A u \in call.updates : pick(u[1]) = u
  BY <1>2, <1>7
<1> HIDE DEF pick
<1>9. f \in [K -> U] /\ \A k \in K : f[k] = pick(k)[2]
  BY <1>6, <1>7
<1>10. \A j, k \in K : f[j] = f[k] => j = k
  BY <1>3, <1>7, <1>9
<1>11. \A r \in U : \E k \in K : f[k] = r
  BY <1>2, <1>5, <1>8, <1>9
<1> HIDE DEF f
<1>12. f \in Bijection(K, U)
  BY <1>9, <1>10, <1>11 DEF Bijection, Injection, Surjection, IsInjective
<1>13. ExistsBijection(K, U)
  BY <1>12 DEF ExistsBijection
<1>14. IsFiniteSet(U) /\ Cardinality(U) = Cardinality(K)
  BY <1>4, <1>13, FS_Bijection
<1> QED
  BY <1>5, <1>14 DEF call, K, U

(* The rows of an import that commits carry its batch, and no others do.   *)
LEMMA UpdatedBatch ==
  ASSUME PanelInv, NEW c \in Calls, calls[c].pc = "written",
         NEW s \in Orders(calls[c].creates),
         NEW q, q = ImportedPanel(calls[c], s), NEW r \in Panelists
  PROVE  q[r].batch = IF r \in UpdatedRows(calls[c]) THEN calls[c].batch ELSE panel[r].batch
<1> DEFINE call == calls[c]
           old == UpdatedPanel(call)
           new == [i \in 1..Cardinality(call.creates) |-> ImportedRow(s[i], call.batch)]
<1>1. /\ call \in Call /\ panel[r] \in Row /\ panel \in Seq(Row) /\ Panelists = 1..Len(panel)
      /\ Len(panel) \in Nat
  BY Types DEF PanelInv, TypeOK, Panelists
<1>2. (\E k \in Keys : <<k, r>> \in call.updates) <=> r \in UpdatedRows(call)
  <2>1. call.updates \subseteq Keys \X (Nat \ {0})
    BY <1>1 DEF Call
  <2>2. ASSUME r \in UpdatedRows(call) PROVE \E k \in Keys : <<k, r>> \in call.updates
    <3>1. PICK u \in call.updates : r = u[2]
      BY <2>2 DEF UpdatedRows
    <3>2. u[1] \in Keys /\ u = <<u[1], r>>
      BY <2>1, <3>1
    <3> QED
      BY <3>1, <3>2
  <2>3. ASSUME NEW k \in Keys, <<k, r>> \in call.updates PROVE r \in UpdatedRows(call)
    <3>1. PICK u \in call.updates : u = <<k, r>>
      BY <2>3
    <3>2. u[2] = r
      BY <3>1
    <3> QED
      BY <3>2 DEF UpdatedRows
  <2> QED
    BY <2>2, <2>3
<1>3. old[r].batch = IF r \in UpdatedRows(call) THEN call.batch ELSE panel[r].batch
  <2>1. CASE \E k \in Keys : <<k, r>> \in call.updates
    <3> DEFINE kk == CHOOSE k \in Keys : <<k, r>> \in call.updates
    <3>1. old[r] = [panel[r] EXCEPT !.key = kk, !.name = TRUE, !.attrs = TRUE,
                                    !.batch = call.batch]
      BY <2>1 DEF UpdatedPanel
    <3> HIDE DEF kk
    <3> QED
      BY <1>1, <1>2, <2>1, <3>1 DEF Row
  <2>2. CASE ~\E k \in Keys : <<k, r>> \in call.updates
    BY <1>2, <2>2 DEF UpdatedPanel
  <2> QED
    BY <2>1, <2>2
<1>4. PICK a : a = old
  OBVIOUS
<1>5. PICK b : b = new
  OBVIOUS
<1>6. q = a \o b
  BY <1>4, <1>5 DEF ImportedPanel
<1>7. DOMAIN a = 1..Len(panel)
  BY <1>1, <1>4 DEF UpdatedPanel
<1>8. Len(a) = Len(panel)
  BY <1>1, <1>7
<1>9. (a \o b)[r] = a[r]
  BY <1>1, <1>8
<1> QED
  BY <1>3, <1>4, <1>6, <1>9

(* A commit: the counts the reviewer saw become rows of the panel.          *)
LEMMA CommitCounts ==
  ASSUME ReviewInv, NEW c \in Calls, CommitPanelImport(c), NEW b, b = calls[c].batch
  PROVE  /\ Len(panel) = batches[b].counts.before
         /\ Len(panel') = Len(panel) + batches[b].counts.create
         /\ Cardinality({r \in DOMAIN panel' : panel'[r].batch = b}) =
              Cardinality(batches[b].file)
<1>1. /\ calls[c] \in Call /\ calls[c].pc = "written" /\ InCommit(c) /\ PanelInv
      /\ b \in Batches /\ batches[b].status = "committing"
      /\ panel \in Seq(Row) /\ Panelists = 1..Len(panel) /\ Len(panel) \in Nat
  BY Types DEF ReviewInv, PanelInv, TypeOK, CommitPanelImport, InCommit, CommitSteps,
               ImportHoldsBatch, Panelists
<1>2. PICK n, F, K : n = Cardinality(calls[c].creates) /\ F = calls[c].file
                     /\ K = calls[c].file \ calls[c].creates
  OBVIOUS
<1>3. /\ batches[b].file = F
      /\ batches[b].counts.before = Len(panel) /\ batches[b].counts.create = n
  <2>1. SamePlanCounts(calls[c], Len(panel))
    BY <1>1 DEF ReviewInv, CountsStayReviewed
  <2>2. batches[b].file = F
    BY <1>1, <1>2 DEF ReviewInv, KeepsFile
  <2> QED
    BY <1>2, <2>1, <2>2 DEF SamePlanCounts
<1>4. PICK s \in Orders(calls[c].creates) : panel' = ImportedPanel(calls[c], s)
  BY DEF CommitPanelImport
<1>5. PICK q : q = ImportedPanel(calls[c], s)
  OBVIOUS
<1>6. PICK U : U = UpdatedRows(calls[c])
  OBVIOUS
<1>7. /\ q \in Seq(Row) /\ n \in Nat /\ DOMAIN q = 1..(Len(panel) + n)
      /\ \A i \in 1..n : q[Len(panel) + i] = ImportedRow(s[i], b)
  BY <1>1, <1>2, <1>5, CommittedPanel
<1>8. U \subseteq Panelists /\ IsFiniteSet(U) /\ Cardinality(U) = Cardinality(K)
  BY <1>1, <1>2, <1>6, UpdatesCounted
<1>9. \A r \in Panelists : q[r].batch = b <=> r \in U
  <2>1. TAKE r \in Panelists
  <2>2. q[r].batch = IF r \in U THEN b ELSE panel[r].batch
    BY <1>1, <1>5, <1>6, UpdatedBatch
  <2>3. panel[r].batch # b
    <3>1. b # NoBatch
      BY <1>1, PanelAssumption
    <3>2. panel[r].batch # NoBatch => batches[panel[r].batch].status = "committed"
      BY <1>1 DEF PanelInv, OnlyCommittedBatchesWrote
    <3> QED
      BY <1>1, <3>1, <3>2
  <2> QED
    BY <2>2, <2>3
<1>10. PICK N : N = (Len(panel) + 1)..(Len(panel) + n)
  OBVIOUS
<1>11. \A r \in N : q[r].batch = b
  <2>1. TAKE r \in N
  <2>2. r - Len(panel) \in 1..n /\ r = Len(panel) + (r - Len(panel))
    BY <1>1, <1>7, <1>10
  <2>3. PICK i \in 1..n : r = Len(panel) + i
    BY <2>2
  <2>4. q[r] = ImportedRow(s[i], b)
    BY <1>7, <2>3
  <2> QED
    BY <2>4 DEF ImportedRow
<1>12. DOMAIN q = Panelists \cup N /\ Panelists \cap N = {}
  BY <1>1, <1>7, <1>10
<1>13. {r \in DOMAIN q : q[r].batch = b} = U \cup N
  BY <1>8, <1>9, <1>11, <1>12
<1>14. IsFiniteSet(N) /\ Cardinality(N) = n
  <2>1. /\ IsFiniteSet(N)
        /\ Cardinality(N) = IF Len(panel) + 1 > Len(panel) + n THEN 0
                            ELSE (Len(panel) + n) - (Len(panel) + 1) + 1
    <3>1. Len(panel) + 1 \in Int /\ Len(panel) + n \in Int
      BY <1>1, <1>7
    <3> QED
      BY <1>10, <3>1, FS_Interval
  <2> QED
    BY <1>1, <1>7, <2>1
<1>15. Cardinality(U \cup N) = Cardinality(K) + n
  <2>1. U \cap N = {}
    BY <1>8, <1>12
  <2>2. Cardinality(U \cup N) = Cardinality(U) + Cardinality(N) - Cardinality(U \cap N)
    BY <1>8, <1>14, FS_Union
  <2>3. Cardinality(U) \in Nat
    BY <1>8, FS_CardinalityType
  <2>4. Cardinality(U \cap N) = 0
    BY <2>1, FS_EmptySet
  <2>5. Cardinality(U \cup N) = Cardinality(U) + n
    BY <1>7, <1>14, <2>2, <2>3, <2>4
  <2> QED
    BY <1>8, <2>5
<1>16. Cardinality(F) = Cardinality(K) + n
  <2>1. PICK C : C = calls[c].creates
    OBVIOUS
  <2>2. F \in SUBSET Keys /\ C \subseteq F /\ K = F \ C
    BY <1>1, <1>2, <2>1 DEF Call, PanelInv, ImportHoldsBatch
  <2>3. IsFiniteSet(F) /\ IsFiniteSet(C) /\ IsFiniteSet(K)
    <3>1. C \in SUBSET Keys /\ K \in SUBSET Keys
      BY <2>2
    <3> QED
      BY <2>2, <3>1, FS_Subset, PanelAssumption
  <2>4. F = K \cup C /\ K \cap C = {}
    BY <2>2
  <2>5. Cardinality(K \cup C) = Cardinality(K) + Cardinality(C) - Cardinality(K \cap C)
    BY <2>3, FS_Union
  <2>6. Cardinality(K) \in Nat
    BY <2>3, FS_CardinalityType
  <2>7. Cardinality(K \cap C) = 0
    BY <2>4, FS_EmptySet
  <2>8. Cardinality(C) = n
    BY <1>2, <2>1
  <2>9. Cardinality(K \cup C) = Cardinality(K) + n
    BY <1>7, <2>5, <2>6, <2>7, <2>8
  <2> QED
    BY <2>4, <2>9
<1>17. panel' = q /\ Len(q) = Len(panel) + n
  BY <1>1, <1>4, <1>5, <1>7
<1> QED
  BY <1>3, <1>13, <1>15, <1>16, <1>17

(* A batch becomes committed only by the commit of the import that holds it. *)
LEMMA OnlyCommitCommits ==
  ASSUME PanelInv, [Next]_vars, NEW b \in Batches,
         batches[b].status # "committed", batches'[b].status = "committed"
  PROVE  \E c \in Calls : CommitPanelImport(c) /\ b = calls[c].batch
<1>1. batches \in [Batches -> Batch] /\ \A d \in Batches : batches[d] \in Batch
  BY Types DEF PanelInv, TypeOK
<1>2. \A d \in Batches : Recovered[d].status \in {"failed", batches[d].status}
  BY <1>1 DEF Recovered, Batch
<1>3. Recovered \in [Batches -> Batch]
  <2>1. \A d \in Batches : [batches[d] EXCEPT !.status = "failed"] \in Batch
    BY <1>1 DEF Batch
  <2> QED
    BY <1>1, <2>1 DEF Recovered
<1>4. ASSUME NEW c \in Calls, NEW d \in Batches, DryRunSave(c, d) PROVE FALSE
  <2>1. batches'[b].status \in {"dry_run", Recovered[b].status}
    BY <1>3, <1>4 DEF DryRunSave
  <2> QED
    BY <1>2, <2>1
<1>5. ASSUME NEW c \in Calls, NEW d \in Batches, StartPanelImportCommit(c, d) PROVE FALSE
  <2>1. batches'[b].status \in {"committing", Recovered[b].status}
    BY <1>3, <1>5 DEF StartPanelImportCommit, Batch
  <2> QED
    BY <1>2, <2>1
<1>6. ASSUME NEW c \in Calls, FailPanelImport(c) PROVE FALSE
  BY <1>1, <1>6 DEF FailPanelImport, Batch
<1>7. ASSUME NEW d \in Batches, LeaseExpires(d) PROVE FALSE
  BY <1>1, <1>7 DEF LeaseExpires, Batch
<1>8. ASSUME ListBatches PROVE FALSE
  BY <1>2, <1>8 DEF ListBatches
<1>9. ASSUME NEW c \in Calls, CallStep(c)
      PROVE  CommitPanelImport(c)
  BY <1>4, <1>5, <1>6, <1>9
     DEF CallStep, CommitStep, DryRunSelect, LockOrganization, PlanSelect, PlanCount,
         WritePanelImport, StatementFails, FailureNotRecorded, Crash
<1>10. PICK c \in Calls : CommitPanelImport(c)
  BY <1>7, <1>8, <1>9
     DEF Next, PageStep, RecruitLookup, RecruitSave, RecruitAborted,
         OfficerStep, ScrubChildren, ScrubRow, ScrubAborted, BreakDeadlock, vars
<1>11. b = calls[c].batch
  BY <1>1, <1>10 DEF CommitPanelImport
<1> QED
  BY <1>10, <1>11

(* What commits is what was reviewed: the size of the panel and the number *)
(* of new rows the reviewer saw, and each row of the file once              *)
(* (actions.ts:107-112, 217-237).                                           *)
THEOREM ReviewCorrect == Spec => CommitsAsReviewed
<1> DEFINE AsReviewed ==
      \A b \in Batches :
        batches[b].status # "committed" /\ batches'[b].status = "committed" =>
          /\ Len(panel) = batches[b].counts.before
          /\ Len(panel') = Len(panel) + batches[b].counts.create
          /\ Cardinality({r \in DOMAIN panel' : panel'[r].batch = b}) =
               Cardinality(batches[b].file)
<1>1. Init => ReviewInv
  BY ReviewInit
<1>2. ReviewInv /\ [Next]_vars => ReviewInv'
  BY ReviewStep
<1>3. ReviewInv /\ [Next]_vars => [AsReviewed]_vars
  <2> SUFFICES ASSUME ReviewInv, [Next]_vars, NEW b \in Batches,
                      batches[b].status # "committed", batches'[b].status = "committed"
               PROVE  /\ Len(panel) = batches[b].counts.before
                      /\ Len(panel') = Len(panel) + batches[b].counts.create
                      /\ Cardinality({r \in DOMAIN panel' : panel'[r].batch = b}) =
                           Cardinality(batches[b].file)
    OBVIOUS
  <2>1. PICK c \in Calls : CommitPanelImport(c) /\ b = calls[c].batch
    BY OnlyCommitCommits DEF ReviewInv
  <2> QED
    BY <2>1, CommitCounts
<1>4. Spec => [][AsReviewed]_vars
  BY <1>1, <1>2, <1>3, PTL DEF Spec
<1> QED
  BY <1>4, PTL DEF CommitsAsReviewed
===============================================================================
