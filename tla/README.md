# A verification project for the CX survey platform

TLA+ modules, TLC runs and TLAPS proofs for the platform in this repository: a
Next.js application (`apps/web`) on PostgreSQL, a shared domain library
(`packages/domain`), a Python analytics service (`apps/analytics`), and SQL
migrations (`supabase/migrations`).

Every definition is translated from the source; `PROJECT.json` maps it to the
lines it stands for, lists the runs, the mutants that show each property can
fail, the hazards of the code and the theorems.

## 1. The system

The browser of a researcher or panel manager calls server actions
(`app/(app)/**/actions.ts`), respondents and candidates call API routes
(`app/api/**`) and token pages (`/s`, `/i`, `/p`, `/r`). Everything meets in
PostgreSQL at READ COMMITTED: `withAuthorized`/`withUser` run one transaction
under row-level security, `adminSql` bypasses it. There is no in-process state
shared between requests but the rate limiter. So concurrency is interleaving of
SQL statements, with row locks taken by `for update` and by updates, and every
read that is not locking may be stale when it is used. Two stores lie outside
the database: the object store (stimuli, report artifacts) and the analytics
service.

| Component | State | Operations | What makes it correct |
|---|---|---|---|
| Report queue | `report_jobs`, objects | request, claim, renew, publish, retry, fail | one owner per attempt; a published report has its object; bounded retries; everything settles |
| Respondent path | `invitations`, `responses`, side tables | open, start, complete | one open response and one answer per invitation; side effects once; finals never change |
| Anonymization | `panelists` and all rows that link to one | `anonymizePanelist` | nothing links to an anonymized person, whatever ran meanwhile |
| Panel import and recruitment submission | `import_batches`, `panelists` | review, commit, fail, recover; submit | what is committed is what was reviewed; all or nothing; a crash leaves a batch that settles |
| Study lifecycle | `studies`, `study_versions` | create, edit, publish, set status, delete, duplicate | versions immutable and numbered once; only dependency-free drafts are deleted |
| Study stimuli | `media_assets`, objects | upload, delete with the study | an image a definition shows is stored |
| Distributions and audience | `distributions`, `invitations`, `contact_events` | invite under contact rules | cooldown and cap hold; nobody is left out silently; a segment narrows |
| Survey logic | pure | branching, visibility, publishability, validation | what the browser sends of a legal path the server accepts |
| Survey runtime | React state, the response | answer, next, back, report, start, complete, retry | no false thank-you; what is stored is a path of the instrument; refusals only for known reasons |
| Survey builders | React state, the draft | edit, save, upload, pick frames | what is shown as saved is saved; codes are unique; the draft has no half-written logic |
| Membership and permissions | `memberships`, cookies | sign in, invite, change role, deactivate | no work without the permission; somebody can still administer |
| Datasets and analyses | `datasets`, versions, `analysis_runs` | build, derive, run, rerun | rows are those of one version and told apart by their columns; numbers never clash; a run's verdict is the service's; a call ends |
| Raw data import | the screen, its pending calls | choose, clear, preview, correct, import | what is imported is what was previewed |
| Recruitment pages | `recruitment_*`, two editors, visitors | edit, ask, link, publish, delete; visit, submit | links and positions stay unique; only an active page collects; the last submission wins |
| Feature requests | `feature_requests`, their events, the inbox | change status or owner | the trail tells every change |
| Rate limiter | a map in the process | count | a fixed window |
| Results, metrics, analytics service | none | read, compute | arithmetic |
| Figma connection, website import, documents, templates, UI components, development database | – | – | I/O, formatting or layout |

All rows but the last three are modelled, wholly or partly; section 7 says what
is left out and why.

The hard behaviours are: statements of two requests interleaved around a row
that was read before it was locked (respondent path, anonymization, audience,
imports); opposite lock orders; the death of a process between two
transactions, or between a transaction and the object store (report queue,
imports, stimuli, analyses); leases that run out while their holder is still
working; lost replies and retries; a browser page that goes on while its call is
under way, or shows what is no longer true (both builders, the survey, the inbox,
the recruitment editor, the import screen); and invariants kept by the application
that no constraint of the database enforces. `PROJECT.json` lists these hazards at
their lines.

## 2. The modules

| Module | Models | Checked with | Proofs |
|---|---|---|---|
| `ReportQueue` | the queue, its invocations and the object store | `MCReportQueue` | `ReportQueue_proofs` |
| `ReportPromise` | what the queue promises whoever requests a report | as a property of `ReportQueue` | `ReportQueue_proofs` |
| `Respondent` | opening, starting, completing; anonymization against them | `MCRespondent` | `Respondent_proofs` |
| `PanelImport` | imports, recruitment submissions, anonymization of the panel row | `MCPanelImport` | `PanelImport_proofs` |
| `StudyLifecycle` | studies, versions, images, the tabs that show them | `MCStudyLifecycle` | `StudyLifecycle_proofs` |
| `Audience` | panel invitations under the contact rules | `MCAudience` | `Audience_proofs` |
| `SurveyLogic` | conditions, branches, visibility, publishability | with `SurveyRuntime` | `SurveyRuntime_proofs` |
| `Submission` | what the server accepts of a respondent | with `SurveyRuntime` | `SurveyRuntime_proofs` |
| `SurveyRuntime` | the renderer, the public page and the server's two routes | `MCSurvey` | `SurveyRuntime_proofs` |
| `Builder` | the modern and the legacy builder on one draft | `MCBuilder` | `Builder_proofs` |
| `Membership` | members, cookies, permissions, requests | with `Workspace` | `Workspace_proofs` |
| `FeatureRequests` | the inbox and its trail | with `Workspace` | `Workspace_proofs` |
| `DatasetColumns` | columns of a study's answers, variables of a table | with `Workspace` | `Workspace_proofs` |
| `Analyses` | datasets, versions, runs of the service | with `Workspace` | `Workspace_proofs` |
| `RawImport` | the import of a table | with `Workspace` | `Workspace_proofs` |
| `Recruitment` | pages, their editors, their visitors | with `Workspace` | `Workspace_proofs` |
| `Workspace` | the composition of the six above | `MCWorkspace` | `Workspace_proofs` |

Conventions. A variable that is a function of rows stands for a table or a
column; `pc` (a variable, or a field of `calls`) is where a request stands
between two statements. An action is one statement, or a run of statements
between which nothing another transaction does can be told apart, or one call to
the object store. A definition named `X_Something` is a mutant of `X`, a
plausible bug; no specification uses it.

**`ReportQueue`.** `rows` are the columns of `report_jobs`; a lease is null, held or
expired instead of a timestamp. An invocation of `processNextReportJob` runs
`CronPoll` or `ManualPoll` (the transaction that fails exhausted rows),
`ClaimJob`, `GenerateArtifact`, `PutArtifact`, `RenewBeforePublish`,
`PublishReport`, and, in its catch block, `DeleteArtifact` and `ReleaseJob`.
`Faults` names what the environment may do to it: an upload that throws before
or after it has stored, a failing statement, delete or generation, a lost commit
reply, the death of the process. The object's path names the attempt
(`ObjectPath`), as `storageKey` does. `requestReportJob` inserts a row
(`RequestReport`); its snapshot of the results is left out, since the artifact is
built from the snapshot alone and nothing changes it later.

**`ReportPromise`** has no workers, leases or store: tries are bounded, giving up
needs them all, what is published is of the latest try, settled stays settled.
`ReportQueue` implements it with `outcome`, `attempt` and `key`.

**`Respondent`.** Row locks are explicit (`locks`, `WaitsFor`, `DeadlockAbort`), because
the code's guarantees rest on them: `startResponse` locks the invitation
(`StartLock`) before it looks for an open response (`StartFind`), `completeResponse`
locks the response (`CompleteLock`) and then the invitation (`Finalize`),
`anonymizePanelist` locks invitations and then responses. A locking statement
that waited re-reads that row only, as PostgreSQL does at READ COMMITTED: what
it read from the other tables of its join is old. `Abort` is a dropped connection at
any statement.

**`PanelImport`.** An import is `DryRunSelect`/`DryRunSave` (the review),
`StartPanelImportCommit` (the claim, a transaction of its own),
`LockOrganization`, `PlanSelect`, `PlanCount`, `WritePanelImport`,
`CommitPanelImport`, and on an error `FailPanelImport`. `ListBatches` recovers
batches whose lease is over. The lock that matters is the organization row:
an import takes it `for update`, and every insert of a row with an `org_id` needs
it `for key share` for its foreign key. So the audit event of an anonymization,
and the rows of a recruitment, wait for the import (`OrgFree`). The other lock is
that of the attribute rows an anonymization has deleted (`AttrsHeld`), the other
half of a deadlock the database breaks (`BreakDeadlock`).

**`StudyLifecycle`.** A tab (`calls`) holds what its page showed when it was
rendered, and offers the buttons of that status (`Buttons`, `CanPublish`): this is
the staleness the server actions meet, since `setStudyStatus` has no guard of its
own. `publishStudy` is three steps (the read and validation, the
highest number, the insert and the update), `deleteStudy` two, `duplicateStudy`
two; an upload is the object, the row, and the clean-up in the catch block.

**`Audience`.** `createPanelInvite` in the five steps between which others commit:
the segment, the candidates, the contact rules, the addresses, the inserts. The
contact rules use the day the transaction began, as `now()` does, both for what
they read and for the event they write. The history variables `began` and `owed`
remember what a call could see when it began, and are read by properties only.

**`SurveyLogic`** and **`Submission`** are shared by the browser and the server, as
`packages/domain` is. An instrument is its questions in order; `NextStep`
follows a branch and then display conditions, `Publishable` is what
`validateSurvey` demands, and `ValidateSubmission` rebuilds the path from the answers on it
and holds the submission against it, in the order of `validateSubmission`.

**`SurveyRuntime`** is `SurveyRenderer` with its history of questions, the Figma
component inside it, and `PublicRuntime`. Each event handler is an action. The
start and the completion of the response are calls whose message or reply may
be lost (`Faults`); the server's side is one step each, since `Respondent` has
their transactions. Everything but Next stays usable while the completion is under
way, so what was sent and what is shown may differ.

**`Builder`**. Two tabs (`Editor` says which builder each is) edit a document and
save it over the other's; a save, an upload and a fetch of frames answer when
they like, and their handlers apply to the document of that moment. The legacy
tab compares a revision when the reply comes; the modern one does not (finding 4).
`NewCode` is the code a builder gives a question it adds. Removing one (`Filter`) leaves
the conditions and branches of the others as they are, and the server refuses a draft
with incomplete logic (`DisplayLogicWarnings`). An upload of an image puts it
into the list there was before the await (`Uploaded`); the screenshot of a prototype's
frame writes the whole configuration of the prototype back (`UploadScreenshot`,
`Illustrated`).

**`Membership`** gives every server action the same frame: a request arrives with
a cookie, opens a transaction, reads its author's role, works, commits.
Permissions are checked at the second statement; a later change is not seen.
`Barred` and `Hidden` are the row policies, which do ask again. `members` are
changed by requests of the administration (`Jobs`). The history field `lawful`
remembers whether the author ever had the permission since the request arrived.

**`FeatureRequests`**, **`Analyses`** and the administration put their jobs
into that frame. An inbox page shows what it last read (`shown`), and its selects
send a status and an owner together. A build looks up the dataset of a title,
picks the responses and inserts the next version in separate statements; a run is
`Prepare`, the call of the service (`Answer`, `TimesOut`) and `Finalize`, with a
permission check in between.

**`DatasetColumns`** says which columns a question of each type becomes and which
cell an answer puts there, and how a table's headers and cells become named,
typed variables.

**`RawImport`** is the screen. Server actions of one page are sent one after the
other with what was read at the click, and the screen stays usable between
them; `calls` is that queue. A file is its worksheets with their names. The first
preview returns the name of the first of them as it is, the select trims the names it
offers (`OptionValue`), and both server actions trim the one they are sent
(`Selected`), so a name with outer blanks is not found again, or another worksheet's
is found. `chosen` is what the user chose last and whether the file was taken back
(`ClearFile`) before or after its preview was answered.

**`Recruitment`**. An editor's props are what the server last sent, its form what
is typed. Adding a question (`LookForPosition`, `AddQuestion`) and setting a link
(`LookForClash`, `SetLink`) are each a read and a write that may interleave with
another window's. A visitor reads the page (`Visit`) and then its questions
(`LoadQuestions`), passes the screening, types and submits; the submission locks the page.

**`Workspace`** composes the six. The database they share is the reason: a member's
deactivation meets a build under way, an inbox, an analysis. `agenda`, chosen in Init
and never changed, says which parts are used in a behaviour; it keeps parts that share
nothing from being interleaved.

## 3. What each run checks

"States" are distinct states found by TLC. Every property of a passing run has
a mutant that violates it in that run.

| Run | Instance | Shows |
|---|---|---|
| `report_queue` (58k) | 2 rows of 2 organizations, a cron and a manual invocation, 2 attempts, every fault but the lost commit reply; fair | a report that can be downloaded has its object (`DownloadHasObject`), the queue implements `ReportPromise` (`PromiseKept`), uploads are left behind only by a crash or a failed delete (`DebrisNeedsFailure`), `EveryReportSettles` |
| `respondent` (303k) | 2 connections, 2 invitations of 1 panelist and a public link, 2 responses; fair | `OneOpenResponse`, `EffectsOnce`, `OneAnswerUnlessOverwritten`, `AnonymizedUnlinked`; every request ends, deadlocks included (`RequestsEnd`) |
| `respondent_duplicate` | 1 invitation | violates `NoDuplicateResponse` (finding 1) |
| `panel_import` (148k) | 1 address, 2 batches, 2 calls, 1 recruitment page, 1 anonymization; fair | `PlanStaysCurrent`, `CommitsAsReviewed`, `OnlyCommittedBatchesWrote`, `ClaimedBatchesSettle`, with crashes, rollbacks and lost replies at every point |
| `panel_anonymized` | 1 call, 1 page, 1 anonymization | violates `AnonymizedKeepsNothing` (finding 2) |
| `study_lifecycle` (735k) | 2 studies, 2 tabs, 1 image, 1 version | `VersionsNumbered`, `LiveHasVersion`, `ShownImagesAreStored`, `VersionsNeverChange`, with copies and failed uploads |
| `study_delete` | the same, 2 versions | violates `DraftsAreDeleted` (finding 3) |
| `audience` (1.05M) | 2 panelists, 2 overlapping calls, 2 days, 1 earlier contact, cooldown 1, cap 2 in 3 days, 1 invitation at most | `ContactRulesKept`, `NobodyLeftOut` |
| `survey` (595k) | the publishable ones of 49 instruments of 3 questions, 4 interactions (2 of a prototype), 3 answers back; start failures, lost messages and replies, a resized window | `ThankYouIsStored`; what is stored is a path of the instrument with a good answer to each required question on it (`StoredIsAPath`); a completion is refused only for one of three named reasons (`RefusedOnlyFor`); `TypeOK` with the limit on interactions |
| `builder` (185k) | a modern and a legacy tab on one study whose draft is one of 3; 3 images per question, 2 pieces of work (saves, uploads of images and screenshots, fetches) | `CodesUnique`, `DraftLogicComplete`, `LegacySavedMeansSaved`, late replies fit the document they meet (`LateRepliesFit`), what is stored parses (`TypeOK`) |
| `builder_saved` | the same | violates `SavedMeansSaved` (finding 4) |
| `workspace` (354k) | 8 agendas: two members administering each other, beside signing in, datasets, analyses or the inbox; datasets beside fieldwork; the import of 6 files; recruitment pages in 2 windows, and 1 window beside a visitor; fair | see below |

`workspace` asks, for each part it composes:

- `LawfulOnly`, `AdministratorRemains`: no request works unless its author had the
  permission at some time since it arrived, and somebody is left who can administer,
  unless a change was committed by somebody who no longer could, or somebody
  invited themselves. Both happen in this code (two administrators who demote each
  other, an owner who invites their own address with a lesser role), nothing on the
  server prevents them, and the property says that these are the only ways.
- `AnalyticsSound` (with its parts `RowsOfStudyVersion`, `DerivedFromSource`,
  `NumbersNeverClash`, `StatusIsVerdict`) and `AnswersToldApart`: a version's
  rows are the completed responses of one version of the study, each answer is
  still told from another by its columns, derived rows are rows of their source,
  overlapping builds never share a number, and a run ends with the verdict of its
  own call.
- `TrailReplays`: replaying the events of a request gives its status and its owner.
- `ImportsAsShown`. `LastChoiceWins`: an import reads the file chosen last, which was
  not cleared, unless it was cleared while its preview was pending; and of it the
  worksheet chosen last, if neither the select nor the server changes its name.
  `PreviewPredictsImport`: what was previewed as ready and imported as it is under a
  worksheet's name without outer blanks is refused only because the dataset's name is
  taken or comes from a file name over 160 characters, a header is blank or over 300
  characters, there are more than 500 columns, or a value beyond the rows the
  inference looked at does not fit. The six files of the run have every one of these cases, with
  small limits (one header and one name count as too long, 2 columns as all there may be).
- `PagesConsistent`, `CollectsOnlyWhileActive`, `LastSubmissionWins`, `DoneIsStored`:
  links belong to one page and positions to one question, nothing is collected by
  a page that is off when the submission holds it, a panelist has the last answer to
  each question, and a visitor who is thanked is stored with what was typed.
- `TypeOK`, the shapes of what several parts write, and `EveryCallEnds`: a call of
  the service does not go on for ever.

Why the bounds are enough. Every hazard listed needs two actors on one row, and
some a third that undoes the first (publish, delete, publish; open, complete,
start); each instance has that many. Two attempts are the least with a takeover
and a last attempt, two rows the least with an order of claims. One address is
enough for what two imports, a recruitment and an anonymization do to each
other; `MCPanelImport` lets either pages insert or an anonymization run in one
behaviour (`inserting`), since a page that inserts a new row and an anonymization of
an older one meet only through the lock both need. In `audience` the cooldown (1
day) and the window (3 days) end inside the days of the model, the earlier contact
lies within the window but not within the cooldown, and the limit of an invitation
(1) lies below the number of panelists. In `survey` three questions are the least
in which a branch passes one by and a condition depends on what was passed by; the
family has every question type in the middle and every kind of branch before it;
the limit on interactions (4) is reached by one question. In `builder` two saves
are enough for one to be overtaken, and the images of a draft are one or none below
their limit. In `workspace` two members are the least who can demote each other,
two requests the least that overlap, three versions the least after two overlapping
builds, four clicks the least for two choices and two replies. Beyond these sizes
the theorems of section 5 hold for every value of the constants.

`CHECK_DEADLOCK FALSE` stands where the model may stop: studies deleted and
identifiers used up, days and distributions at their bound, a survey that is over,
members who have spent their requests.

## 4. Fairness

- `ReportQueue`: weak fairness of the cron invocations and of the passing of
  leases. The cron is scheduled for ever and the platform ends an invocation that
  hangs. Nothing is assumed of the manual invocations, which may stall anywhere.
- `Respondent`: strong fairness of each connection's next statement, since
  PostgreSQL queues the waiters of a row lock, and weak fairness of the deadlock
  detector.
- `PanelImport`: strong fairness of the steps of an import for the same reason (an
  import that waits for one anonymization is served before the next one), weak
  fairness of the write of an anonymization, of the detector, of the lease's
  end, and of somebody opening the import history, which is where recovery
  happens. No call has to fail, crash or record its failure.
- `Workspace`: weak fairness of the timeout the client sets on its call, of the
  permission check after it and of the finalization. Nothing is assumed of the
  service, which may never answer, nor of any member.
- The other modules state no liveness property: their calls end in a fixed number
  of steps, or wait for a person or a network of which nothing is known.

## 5. What is proved

`*_proofs.tla` hold the proofs; each rests on one inductive invariant and on the
assumptions its module names about its constants.

| Module | Inductive invariant | Consequences |
|---|---|---|
| `ReportQueue` | `QueueInv`, `ArtifactInv` | `OneOwnerPerAttempt`, `FailedOnlyWhenSpent`, `SettledIsFinal`, `PromiseKept`, `DebrisNeedsFailure`; `ArtifactInv` and `DownloadHasObject` when no commit reply is lost |
| `Respondent` | `RespondentInv` | `OneOpenResponse`, `EffectsOnce`, `OneAnswerUnlessOverwritten`, `AnonymizedUnlinked`, `RevokedStartsNothing`, `FinalIsFinal` |
| `PanelImport` | `PanelInv`; `ReviewInv` | `PlanStaysCurrent`, `AnonymizedHasNoEmail`, `ImportedOnce`, `OnlyCommittedBatchesWrote`, `SettledStays`; `CommitsAsReviewed` |
| `StudyLifecycle` | `StudyInv` | `VersionsNumbered`, `PublishedIsValid`, `LiveHasVersion`, `ShownImagesAreStored`, `VersionsNeverChange` |
| `Audience` | `AudienceInv` | `ContactRulesKept` (`CooldownKept`, `CapKept`), `NobodyLeftOut` |
| `SurveyRuntime` | `Way`, the ordered history with the place shown; `Answer`, the phase with the response; `Accepted`, the answers in flight with the path the server rebuilds; `RuntimeInv`, the browser's way | `HistoryOrdered`; `ThankYouIsStored`; `StoredIsAPath`; `RefusedOnlyFor`, `TypeOK` |
| `Builder` | `BuilderInv` | `TypeOK`, `CodesUnique`, `DraftLogicComplete`, `LegacySavedMeansSaved`, `LateRepliesFit` |
| `Workspace`: members | `RequestsFit` | `LawfulOnly`, `AdministratorRemains` |
| `Workspace`: pages | `EditorsFit` with `PagesFit`; `LocksHold`; `LogFits` | `PagesConsistent`; `CollectsOnlyWhileActive`; `LastSubmissionWins`, `DoneIsStored` |
| `Workspace`: requests for features | `TrailFits` | `TrailReplays` |
| `Workspace`: datasets and runs | `DataFits`, `RunsFit` | `AnalyticsSound`, `AnswersToldApart` |
| `Workspace`: import | `ScreenFits` | `ImportsAsShown` |
| `Workspace`: types | the above with `RecordsFit`, `LengthsFit`, `FieldsFit`, `PhasesFit` and the screen's `Stages` | `TypeOK` |

TLC found each of these formulas true before it was proved. What is proved and is
said by other properties of a run already, or only serves a proof (the invariants,
`TypeOK` of all of them but `SurveyRuntime`, `Builder` and `Workspace`, `SettledIsFinal`, `FinalIsFinal`,
`RevokedStartsNothing`, `ImportedOnce`, `PublishedIsValid`, `HistoryOrdered`
and a few more) is not checked again in the runs.

Why the properties alone are not inductive:

- *Report queue.* That two invocations never hold the same attempt follows from
  every held attempt having been given out (`HoldsAttempt`). That no published
  object is deleted needs the attempt of a published row to be held by nobody
  (`PublishedUnheld`) and the upload to be there when it is published
  (`UploadStands`). Debris: while nothing has failed, every object in the store is
  published, or is in the hands of an invocation that will publish or delete it.
- *Respondent.* `Standing` says, per request, what it has locked and what it
  therefore still knows: between the lock of the invitation and the insert no other
  response can be opened; once an anonymization holds the panelist's
  invitations, no request can insert a response it would not find.
- *Imports.* `ImportsExclusive` (one import past the organization lock) keeps other
  imports from changing the plan, and the shape of `OrgFree` keeps
  anonymizations and recruitments from it. `ImportHoldsBatch` keeps the recovery from
  settling the batch of a live import. `CommitsAsReviewed` compares the rows that carry
  a batch's mark with the counts of the reviewed plan. `ReviewInv` says that the plan
  splits the file between creations and updates, and that counts found equal to the
  reviewed ones stay equal, since the panel is frozen for an import past the lock.
  The commit then is a matter of counting: the updated rows are a bijection with the
  updated addresses, apart from the inserted rows, and no other row has the batch.
- *Studies.* Stale tabs are in the invariant. `UnpublishedHasNoVersion` makes the
  status, tested by the delete itself, protect versions the stale counts miss;
  `PagesShowPublished` makes an old button harmless; `UploadsAreApart` and
  `OfferedIsStored` keep the clean-up of one upload from another's object.
- *Audience.* A call's promise is about the contacts committed when it began.
  `Unobstructed` is stable, because that prefix of `dists` never changes. Everybody
  owed either stays unobstructed and in the audience, or has an excuse
  (`Excused`), which never goes away. The cap is a cardinality: the contacts seen at
  the beginning are a subset of those counted later.

- *Survey.* Every rule that decides leads ahead (`StepIsAhead`); the history is not
  beyond the question shown, and Back takes its last. That
  what is stored is a path: the server's walk over the submitted answers and the walk
  over the answers it kept agree step by step (`SameStep`), because each step looks
  only at answers of places already passed; the induction is on the least place where
  they would part. That a submission is refused for the named reasons only:
  Back and new answers change the flow ahead of the respondent, never behind.
  `Linked` says that each step of the way still is the one the answers given now
  lead to, `Passed` that what is required on it is answered, `EnteredIn` and
  `RecordedIn` what an input can hold and what is recorded of it. A submission
  with nothing left elsewhere is then walked by the server as it was by the
  respondent (`RebuiltAsVisited`); `FitsValid`, `InteractionsOK` and `EvidenceOK` say
  that the rest of it passes too.
- *Builder.* A reply that finds the revision it was sent with finds the same
  document, because every edit makes a larger one (`RevisionTells`). Every edit keeps
  a document with distinct codes and complete logic, by where each question of the new
  document comes from; that a new code can always be found is the pigeonhole
  principle. A late reply (`JobOK`) still knows what it was sent with.
- *Workspace.* Nothing but the answer ends what a request knows of its author: a job on a
  membership is never on the author's own (`JobFits`), so who changes a member
  remains an administrator unless changed in the meantime. An editor reads its page
  before it writes, and the unique indexes on links and on positions are checked
  when it does. A submission holds its page's row from its check to its commit.
  - *Feature requests.* A trail of events leads, without a gap, to the state of its
    idea, since one request at a time holds the idea's row.
  - *Datasets and runs.* Versions and responses only grow, and a version fits what
    had been answered when it was built, so an analysis that names a version keeps
    its meaning; one run at a time waits for a recipe.
  - *Pages.* The log of submissions is kept beside the profile, and the profile is
    that of the latest of them.
  - *Raw data import.* What the screen shows is of the last choice, or the call that
    will correct it is still due (`Due`, `Agrees`, `Asks`). A preview infers variables
    the import accepts (`InferredRefused`, `RefusalPredicted`).
  - *Types.* A job carries a role that is hired, a state or a recipe that is there
    (`JobKnown`), so what a commit writes is a membership and a run's recipe exists.
    Whoever has read a dataset's number holds its row, so the bound on its versions
    still holds at the insert (`LengthsFit`). A page asks about fields there are, and
    one that is deleted keeps nothing (`FieldsFit`).

The assumptions on the constants are named in the modules and evaluated by every
run. Besides the typing of the constants and bounds at least one, they say:
`DefinitionsAssumption`, that an instrument's blocks, questions, options and rules are
lists and that its questions come in the order of their blocks (that it passes the
code's own validation is the guard of `Init`); `DocumentsAssumption`, that the builder starts from drafts with distinct
codes and complete logic, as the server returns them; `PagesAssumption`, that the pages
at the start keep the database's unique indexes and foreign keys; `FilesAssumption`
(worksheets of distinct names), `TrimAssumption` (nothing is trimmed from the empty
string), `SuffixAssumption`, `InstrumentAssumption`, `StartedAssumption` and
`BuiltAssumption`, what a file, a name, an instrument, a started study and a built
dataset may be.

Only model-checked:

- liveness (`EveryReportSettles`, `RequestsEnd`, `ClaimedBatchesSettle`,
  `EveryCallEnds`), which needs fairness and `ENABLED` and is out of the prover's reach;
- the four violated properties.

## 6. Findings

1. `respondent_duplicate`: an open that read the invitation before its completion
   writes `clicked` over `completed`, and the token starts a second response.
2. `panel_anonymized`: the answers of a recruitment submission that commits between
   the deletes of `anonymizePanelist` and its update of the row stay attached to
   the anonymized panelist. (The other order leaves the name: the submission
   looks the row up, the anonymization commits, the submission writes the first
   name by id.)
3. `study_delete`: since migration 11 a draft with an uploaded image cannot be
   deleted; the foreign key of its `media_assets` rows no longer cascades and
   `deleteStudy` does not delete them.
4. `builder_saved`: the modern builder shows an edit as saved that was made while the
   save was under way; it clears `dirty` when the reply comes, and Save is disabled.

`PROJECT.json` quotes the lines each of them contradicts.

Behaviours met while modelling that contradict no statement of the repository, or
are outside a run, worth knowing to whoever changes this code:

- *Imports of raw data.* Choosing a file A and then B before A's preview is answered
  imports B under A's name. A blank header of a CSV file, a header over 300 characters and
  a file name over 160 are previewed as ready and refused at the import
  (`import/actions.ts:17-26`). A worksheet whose name has outer blanks is previewed as
  ready; at the import it is not found, or its namesake without the blanks is imported
  (`import/actions.ts:41`). Clearing the file while its preview is pending lets the
  reply put it back, and it can be imported (`raw-data-import.tsx:46`).
- *Datasets.* Overlapping builds may store older rows as the latest version. Studies
  with the same title share one dataset, though the description stored with it (`lib/data/datasets.ts:124`) says
  it is built from one study version. A second concurrent first build is refused on
  the name. A question whose code is that of a base column makes every build fail. A
  likert or matrix question without distinct values loses answers (`Faithful` of
  `DatasetColumns` excludes it). Nothing ends a run whose process died, the "crash
  reconciliation" of `analytics/actions.ts:44-45` does not exist.
- *Recruitment.* The second of two concurrent additions of a question fails with the
  database's own error. A link moved to another page sends an open visitor's
  submission there. A submission whose reply was lost is stored a second time when sent
  again. Leaving an optional field empty keeps the older answer. The screening gate is
  only in the browser, though `lib/data/recruitment.ts:127` speaks of a server-side
  check; addresses are not unique in `panelists`. Deleting a page deletes its submissions.
- *Members.* Nothing but the page's disabled controls keeps the last owner; inviting
  oneself may be a demotion, and two administrators may demote each other at once.
- *Feature requests.* A status and an owner are sent together, so choosing an owner on a
  stale page sets an old status back. Events are ordered by the start of their
  transaction, which need not be the order of the commits.
- *Invitations.* A segment deleted before the invitation starts invites the whole active
  panel (`studies/distribution-actions.ts:70`). The statement with the contact
  rules has no order (`lib/data/panel.ts:379`), so a seed need not repeat a sample.
- *Survey.* Answers left on a branch the respondent came back from steer what the browser shows
  next (`renderer.tsx:76`), but not what the server rebuilds (`submission.ts:64`): this
  is the first of the three reasons of `RefusedOnlyFor`.

## 7. What is not modelled, and why

- *Planned:* the copies of a panelist in messages, invitations and datasets against an
  anonymization (`PanelPrivacy`), the shuffle of the sampler, follow-up rules.
- *Left out inside modelled components:* the deduplication rules other than
  e-mail, panel filters, public links' creation, the text of messages, parsing and
  validation of the panel's files (a choice of values), labels and languages of a
  survey, the pages' texts and pictures, procedures' parameters, exports, passwords and
  the end of a cookie by time, `media_assets` serving, titles and templates.
- *Of row-level security* only what a former member sees (`Hidden`, `Barred`), since
  every module has one organization (`ReportQueue` has two, and the scope of an
  invocation).
- *Not to be modelled:* statistics and metrics (floating point), results and other
  read-only queries, the rate limiter (it only refuses, and no property relies on
  it), the external services (Figma's own API and OAuth, Firecrawl), documents, layout,
  readiness, and the tools of a developer.

## 8. The plan

1. `ReportQueue`, `Respondent`, `PanelImport`, `StudyLifecycle`, `Audience`,
   `SurveyRuntime`, `Builder`, `Workspace` and the modules they extend: done.
2. `PanelPrivacy`: `anonymizePanelist` statement by statement against
   `createPanelInvite`, submissions and dataset builds; what remains of a person.
3. Proofs: an abstract specification of the import (a batch is committed at once
   or not at all) implemented by `PanelImport`.
4. A specification of the server that both `Respondent` and the two calls of
   `SurveyRuntime` implement, so that their composition follows.
