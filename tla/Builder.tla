------------------------------- MODULE Builder -------------------------------
(***************************************************************************)
(* The two survey builders (builder/modern-builder.tsx and, with           *)
(* ?mode=legacy, builder/builder.tsx) open on one study, the image upload   *)
(* and the Figma picker inside a question, and the draft they save to       *)
(* (studies/actions.ts updateDraft).                                        *)
(*                                                                          *)
(* A document is what a tab edits and the study row stores: a title, and    *)
(* blocks of questions with display conditions, branches, images and a      *)
(* Figma configuration.  Everything that is only displayed (labels, help,   *)
(* options, scales, required, hidden, messages, frame screenshots) is one   *)
(* field "look".                                                            *)
(***************************************************************************)
EXTENDS Integers, Sequences, FiniteSets, SequencesExt

CONSTANTS Tabs, Editor,      \* the open pages; "modern" or "legacy" for each
          Documents,         \* the drafts the study may start with
          Types,             \* question types
          Looks,             \* values of the displayed fields
          Files,             \* Figma prototypes
          MaxStimuli,        \* images per question, 8 in the code
          MaxWork            \* bound: edits, uploads, syncs, picks and reloads

ASSUME EditorAssumption == Editor \in [Tabs -> {"modern", "legacy"}]
ASSUME BoundAssumption == MaxStimuli \in Nat /\ MaxWork \in Nat

VARIABLES draft,      \* studies.title and studies.draft_definition
          editable,   \* the status is one of draft, review, live, paused
          tab,        \* the state of each page
          jobs,       \* uploads and Figma calls whose answer is outstanding
          work        \* how much the users have started so far

vars == <<draft, editable, tab, jobs, work>>
-----------------------------------------------------------------------------
(* Documents *)

NoCode == <<"", 0>>
NoFile == "no file"
NoFrame == <<NoFile, 0>>
NoList == <<0>>                      \* stimuli: undefined, not an empty list
FramesOf(file) == {<<file, 1>>, <<file, 2>>}
EmptyConfig == [file |-> NoFile, start |-> NoFrame, goal |-> NoFrame,
                flow |-> "task", version |-> NoFile]

Questions(doc) == FlattenSeq([b \in DOMAIN doc.blocks |-> doc.blocks[b].questions])
Asked(doc) == UNION {ToSet(doc.blocks[b].questions) : b \in DOMAIN doc.blocks}
Codes(questions) == {questions[i].code : i \in DOMAIN questions}

IsIncompleteLogicCondition(c) ==
    c.question = NoCode \/ (c.op # "answered" /\ ~c.given)

(* The display conditions the modern builder counts and the server looks at. *)
DisplayLogicWarnings(doc) ==
    {b \in DOMAIN doc.blocks :
        \/ \E i \in DOMAIN doc.blocks[b].visibleIf :
              IsIncompleteLogicCondition(doc.blocks[b].visibleIf[i])
        \/ \E q \in DOMAIN doc.blocks[b].questions :
              \E i \in DOMAIN doc.blocks[b].questions[q].visibleIf :
                 IsIncompleteLogicCondition(doc.blocks[b].questions[q].visibleIf[i])}

(* What the schema refuses: a list of images that is there and empty. *)
Parses(doc) ==
    \A b \in DOMAIN doc.blocks : \A q \in DOMAIN doc.blocks[b].questions :
        doc.blocks[b].questions[q].stimuli # <<>>

(* The first free code of a type: nps, nps_2, nps_3, ... *)
NewCode(type, existing) ==
    <<type, CHOOSE n \in 1..(Len(existing) + 1) :
              /\ <<type, n>> \notin Codes(existing)
              /\ \A m \in 1..(n - 1) : <<type, m>> \in Codes(existing)>>

MakeQuestion(type, existing) ==
    [code |-> NewCode(type, existing), type |-> type, look |-> "new", visibleIf |-> <<>>,
     branches |-> <<>>, stimuli |-> NoList, prototype |-> EmptyConfig]

WithQuestions(doc, lists) ==
    [doc EXCEPT !.blocks = [b \in DOMAIN doc.blocks |->
        [doc.blocks[b] EXCEPT !.questions = lists[b]]]]

(* Replaces every question of that code, in whichever block it is. *)
UpdateQuestion(doc, code, patched) ==
    WithQuestions(doc, [b \in DOMAIN doc.blocks |->
        LET questions == doc.blocks[b].questions IN
        [i \in DOMAIN questions |-> IF questions[i].code = code THEN patched[questions[i]]
                                                              ELSE questions[i]]])

Filter(questions, code) ==
    LET kept[n \in 0..Len(questions)] ==
            IF n = 0 THEN <<>>
            ELSE IF questions[n].code = code THEN kept[n - 1]
            ELSE Append(kept[n - 1], questions[n])
    IN  kept[Len(questions)]

(* A draft as a study is created with it, or as earlier saves have left it.  *)
IsList(s) == Len(s) \in Nat /\ s = [k \in 1..Len(s) |-> s[k]]
List(stimuli) == IF stimuli = NoList THEN <<>> ELSE stimuli

IsQuestion(q) ==
    /\ DOMAIN q = {"code", "type", "look", "visibleIf", "branches", "stimuli", "prototype"}
    /\ IsList(q.stimuli) /\ Len(List(q.stimuli)) <= MaxStimuli
    /\ DOMAIN EmptyConfig \subseteq DOMAIN q.prototype
    /\ q.prototype.version \in {NoFile, q.prototype.file}

IsDocument(doc) ==
    /\ DOMAIN doc = {"title", "look", "blocks"} /\ doc.title \in Looks \cup {""}
    /\ IsList(doc.blocks) /\ doc.blocks # <<>>
    /\ \A b \in DOMAIN doc.blocks :
          /\ DOMAIN doc.blocks[b] = {"visibleIf", "questions"}
          /\ IsList(doc.blocks[b].questions)
          /\ \A i \in DOMAIN doc.blocks[b].questions : IsQuestion(doc.blocks[b].questions[i])

Distinct(doc) ==
    \A b, c \in DOMAIN doc.blocks :
        \A i \in DOMAIN doc.blocks[b].questions, j \in DOMAIN doc.blocks[c].questions :
            doc.blocks[b].questions[i].code = doc.blocks[c].questions[j].code => b = c /\ i = j

ASSUME DocumentsAssumption ==
    \A doc \in Documents :
        /\ IsDocument(doc) /\ Distinct(doc) /\ doc.title \in Looks
        /\ Parses(doc) /\ DisplayLogicWarnings(doc) = {}
-----------------------------------------------------------------------------
(* What one edit by hand makes of a document: a set of documents *)

EditMessages(doc) == {[doc EXCEPT !.look = w] : w \in Looks \ {doc.look}}

Worded(doc, w) == [q \in Asked(doc) |-> [q EXCEPT !.look = w]]

EditTexts(doc) ==
    {UpdateQuestion(doc, c, Worded(doc, w)) :
        c \in Codes(Questions(doc)), w \in Looks \ {doc.look}}

EditTitle(doc) == {[doc EXCEPT !.title = w] : w \in (Looks \cup {""}) \ {doc.title}}

AddQuestion_OfSection(doc, blocks) ==
    {[doc EXCEPT !.blocks[b].questions =
         Append(doc.blocks[b].questions, MakeQuestion(type, doc.blocks[b].questions))] :
        b \in blocks, type \in Types}

AddQuestion(doc, blocks) ==
    {[doc EXCEPT !.blocks[b].questions =
         Append(doc.blocks[b].questions, MakeQuestion(type, Questions(doc)))] :
        b \in blocks, type \in Types}

AddBlock(doc) ==
    {[doc EXCEPT !.blocks = Append(doc.blocks, [visibleIf |-> <<>>, questions |-> <<>>])]}

RemoveBlock(doc) ==
    IF Len(doc.blocks) = 1 THEN {}
    ELSE {[doc EXCEPT !.blocks = RemoveAt(doc.blocks, b)] : b \in DOMAIN doc.blocks}

RemoveQuestion(doc) ==
    {WithQuestions(doc, [b \in DOMAIN doc.blocks |-> Filter(doc.blocks[b].questions, c)]) :
        c \in Codes(Questions(doc))}

Places(doc) ==
    FlattenSeq([b \in DOMAIN doc.blocks |->
                  [q \in DOMAIN doc.blocks[b].questions |-> <<b, q>>]])

(* Within its section only; the legacy builder swaps across sections. *)
MoveQuestion(doc) ==
    {[doc EXCEPT !.blocks[p[1]].questions =
        [doc.blocks[p[1]].questions EXCEPT
            ![p[2]] = doc.blocks[p[1]].questions[p[2] + 1],
            ![p[2] + 1] = doc.blocks[p[1]].questions[p[2]]]] :
        p \in {p \in ToSet(Places(doc)) : p[2] < Len(doc.blocks[p[1]].questions)}}

MoveAcross(doc) ==
    LET p == Places(doc)
        all == Questions(doc)
    IN  {[doc EXCEPT !.blocks[p[i][1]].questions[p[i][2]] = all[i + 1],
                     !.blocks[p[i + 1][1]].questions[p[i + 1][2]] = all[i]] :
            i \in 1..(Len(p) - 1)}

(* A new type keeps code, texts and logic; keys of the old type stay behind. *)
Retyped(doc, type) ==
    [q \in Asked(doc) |->
        [q EXCEPT !.type = type,
                  !.prototype = IF type = "prototype_test" THEN EmptyConfig ELSE q.prototype]]

ChangeType(doc) ==
    {UpdateQuestion(doc, c, Retyped(doc, type)) :
        c \in Codes(Questions(doc)), type \in Types}

EmptyDisplayCondition == [question |-> NoCode, op |-> "eq", given |-> FALSE]

ConditionOperatorFor(candidates, code) ==
    IF \E i \in DOMAIN candidates : candidates[i].code = code
                                    /\ candidates[i].type = "multiple_choice"
    THEN "contains" ELSE "eq"

(* An answer is chosen for a target the editor finds among its candidates. *)
AnswerValueControl(conditions, candidates) ==
    {[conditions EXCEPT ![i].given = g,
          ![i].op = ConditionOperatorFor(candidates, conditions[i].question)] :
        i \in {i \in DOMAIN conditions : conditions[i].question \in Codes(candidates)},
        g \in BOOLEAN}

(* The display logic editor: on, off, another condition, one less, another   *)
(* target (for which the answer is asked again).                             *)
DisplayLogicEditor(conditions, candidates) ==
    IF conditions = <<>> THEN {<<EmptyDisplayCondition>>}
    ELSE {<<>>, Append(conditions, EmptyDisplayCondition)}
         \cup {RemoveAt(conditions, i) : i \in DOMAIN conditions}
         \cup {[conditions EXCEPT ![i] = [question |-> c, given |-> FALSE,
                                          op |-> ConditionOperatorFor(candidates, c)]] :
                 i \in DOMAIN conditions, c \in Codes(candidates) \cup {NoCode}}
         \cup AnswerValueControl(conditions, candidates)

(* The legacy rows: a new one points at the first candidate, and nothing     *)
(* asks for the answer again when target or operator change.                 *)
ConditionRows(conditions, candidates) ==
    {RemoveAt(conditions, i) : i \in DOMAIN conditions}
    \cup {[conditions EXCEPT ![i].question = c] :
            i \in DOMAIN conditions, c \in Codes(candidates)}
    \cup {[conditions EXCEPT ![i].op = op] :
            i \in DOMAIN conditions, op \in {"eq", "answered"}}
    \cup {[conditions EXCEPT ![i].given = g] : i \in DOMAIN conditions, g \in BOOLEAN}
    \cup IF candidates = <<>> THEN {}
         ELSE {Append(conditions, [EmptyDisplayCondition EXCEPT
                                     !.question = Head(candidates).code])}

Earlier(doc, i) == SubSeq(Questions(doc), 1, i - 1)

EditLogic(doc, Rows(_, _)) ==
    UNION {{UpdateQuestion(doc, Questions(doc)[i].code,
                           [q \in Asked(doc) |-> [q EXCEPT !.visibleIf = conditions]]) :
              conditions \in Rows(Questions(doc)[i].visibleIf, Earlier(doc, i))} :
            i \in DOMAIN Questions(doc)}

EditSectionLogic(doc) ==
    UNION {{[doc EXCEPT !.blocks[b].visibleIf = conditions] :
              conditions \in DisplayLogicEditor(doc.blocks[b].visibleIf,
                  Questions([doc EXCEPT !.blocks = SubSeq(doc.blocks, 1, b - 1)]))} :
            b \in DOMAIN doc.blocks}

(* Routing rules, which only the legacy builder shows: a new one ends the    *)
(* survey, and its target is a later question or one of the two ends.        *)
End == <<"END", 0>>
Disqualify == <<"DISQUALIFY", 0>>

EditRules(rules, later) ==
    {Append(rules, End)} \cup {RemoveAt(rules, r) : r \in DOMAIN rules}
    \cup {[rules EXCEPT ![r] = target] :
             r \in DOMAIN rules, target \in Codes(later) \cup {End, Disqualify}}

EditBranches(doc) ==
    UNION {{UpdateQuestion(doc, Questions(doc)[i].code,
                           [q \in Asked(doc) |-> [q EXCEPT !.branches = rules]]) :
              rules \in EditRules(Questions(doc)[i].branches,
                                 SubSeq(Questions(doc), i + 1, Len(Questions(doc))))} :
            i \in DOMAIN Questions(doc)}

(* Each builder shows the images of one type of question. *)
ImageType(editor) == IF editor = "modern" THEN "first_click" ELSE "preference_test"

RemoveStimulus(doc, editor) ==
    UNION {{UpdateQuestion(doc, q.code, [x \in Asked(doc) |->
              [x EXCEPT !.stimuli =
                  IF editor = "modern" /\ Len(List(x.stimuli)) = 1 THEN NoList
                  ELSE RemoveAt(List(x.stimuli), i)]]) :
              i \in DOMAIN List(q.stimuli)} :
            q \in {q \in Asked(doc) : q.type = ImageType(editor)}}

(* A pasted Figma link, with or without a frame; the flow; no link any more. *)
Imported(c, file, node) ==
    [c EXCEPT !.file = file, !.version = NoFile,
              !.start = IF node = NoFrame THEN c.start ELSE node,
              !.goal = IF file = c.file THEN c.goal ELSE NoFrame]

ImportPrototype(c) ==
    UNION {{Imported(c, file, node) : node \in FramesOf(file) \cup {NoFrame}} : file \in Files}

EditPrototype(doc) ==
    UNION {{UpdateQuestion(doc, q.code, [x \in Asked(doc) |-> [x EXCEPT !.prototype = c]]) :
              c \in ImportPrototype(q.prototype)
                    \cup {[q.prototype EXCEPT !.flow = "task"],
                          [q.prototype EXCEPT !.flow = "free", !.goal = NoFrame],
                          [EmptyConfig EXCEPT !.flow = q.prototype.flow]}} :
            q \in {q \in Asked(doc) : q.type = "prototype_test"}}

QuestionCard(doc) ==
    EditTexts(doc) \cup ChangeType(doc) \cup EditLogic(doc, DisplayLogicEditor)
    \cup RemoveStimulus(doc, "modern") \cup EditPrototype(doc)

StudySection(doc) ==
    EditSectionLogic(doc) \cup AddQuestion(doc, DOMAIN doc.blocks)
    \cup MoveQuestion(doc) \cup RemoveQuestion(doc) \cup RemoveBlock(doc)

ModernEdits(doc) ==
    EditTitle(doc) \cup EditMessages(doc) \cup AddBlock(doc)
    \cup StudySection(doc) \cup QuestionCard(doc)

LegacyQuestionEditor(doc) ==
    EditTexts(doc) \cup EditLogic(doc, ConditionRows) \cup EditBranches(doc)
    \cup RemoveStimulus(doc, "legacy")

LegacyEdits(doc) ==
    EditMessages(doc) \cup AddQuestion(doc, {Len(doc.blocks)}) \cup MoveAcross(doc)
    \cup RemoveQuestion(doc) \cup LegacyQuestionEditor(doc)
-----------------------------------------------------------------------------
(* Pages *)

NoSave == [stage |-> "none"]
NoPicker == [target |-> "none"]

(* BuilderPage: a page shows the draft as it is when it is opened.           *)
(* "shared" is the document a reply last confirmed, behind the preview link. *)
Opened(doc) == [doc |-> doc, dirty |-> FALSE, shared |-> doc, revision |-> 0,
                save |-> NoSave, picker |-> NoPicker]

Init ==
    /\ draft \in Documents
    /\ editable = TRUE
    /\ tab = [t \in Tabs |-> Opened(draft)]
    /\ jobs = {}
    /\ work = 0

Work == work < MaxWork /\ work' = work + 1

Reload(t) ==
    /\ tab[t] # Opened(draft)
    /\ Work
    /\ tab' = [tab EXCEPT ![t] = Opened(draft)]
    /\ jobs' = {j \in jobs : j.tab # t}
    /\ UNCHANGED <<draft, editable>>

(* A functional state update, so edits made before a render add up. *)
Mutated(page, doc) ==
    [page EXCEPT !.doc = doc, !.dirty = TRUE, !.revision = @ + 1]

Edit(t) ==
    /\ tab[t].picker = NoPicker
    /\ Work
    /\ \E doc \in IF Editor[t] = "modern" THEN ModernEdits(tab[t].doc)
                                          ELSE LegacyEdits(tab[t].doc) :
          tab' = [tab EXCEPT ![t] = Mutated(@, doc)]
    /\ UNCHANGED <<draft, editable, jobs>>

(* Save is disabled while a save is pending or nothing is dirty; the modern  *)
(* page also refuses an empty name and unfinished display logic.             *)
Save(t) ==
    /\ tab[t].save = NoSave
    /\ tab[t].dirty
    /\ Editor[t] = "modern" =>
          tab[t].doc.title # "" /\ DisplayLogicWarnings(tab[t].doc) = {}
    /\ tab' = [tab EXCEPT ![t].save =
                 [stage |-> "sent", doc |-> tab[t].doc, revision |-> tab[t].revision]]
    /\ UNCHANGED <<draft, editable, jobs, work>>

Accepts_NoLogic(doc) == editable /\ Parses(doc)
Accepts_NoParse(doc) == editable /\ DisplayLogicWarnings(doc) = {}

(* The server validates what it is sent and replaces the whole draft: no     *)
(* version is compared, and the legacy page sends no title.                  *)
Accepts(doc) == editable /\ Parses(doc) /\ DisplayLogicWarnings(doc) = {}

UpdateDraft(t) ==
    /\ tab[t].save.stage = "sent"
    /\ LET doc == tab[t].save.doc
       IN  IF Accepts(doc)
           THEN /\ draft' = IF Editor[t] = "modern" THEN doc
                            ELSE [doc EXCEPT !.title = draft.title]
                /\ tab' = [tab EXCEPT ![t].save.stage = "stored"]
           ELSE tab' = [tab EXCEPT ![t].save.stage = "refused"] /\ UNCHANGED draft
    /\ UNCHANGED <<editable, jobs, work>>

Confirmed_AnyRevision(t) ==
    [tab[t] EXCEPT !.save = NoSave, !.shared = tab[t].save.doc, !.dirty = FALSE]

(* The page clears "dirty"; the legacy page only if nothing was edited since. *)
Confirmed(t) ==
    [tab[t] EXCEPT !.save = NoSave, !.shared = tab[t].save.doc,
                   !.dirty = Editor[t] = "legacy" /\ tab[t].save.revision # tab[t].revision]

SaveReply(t) ==
    /\ tab[t].save.stage = "stored"
    /\ tab' = [tab EXCEPT ![t] = Confirmed(t)]
    /\ UNCHANGED <<draft, editable, jobs, work>>

(* The request was refused, or it or its reply was lost. *)
SaveError(t) ==
    /\ tab[t].save # NoSave
    /\ tab' = [tab EXCEPT ![t].save = NoSave]
    /\ UNCHANGED <<draft, editable, jobs, work>>

(* Publishing, pausing, closing and archiving: see StudyLifecycle. *)
SetStatus ==
    /\ editable' = ~editable
    /\ UNCHANGED <<draft, tab, jobs, work>>
-----------------------------------------------------------------------------
(* Images: the list they go into is that of the render the upload began in *)

Shown(t, type) == {q \in Asked(tab[t].doc) : q.type = type}

Start(job) ==
    /\ Work
    /\ jobs' = jobs \cup {job}
    /\ UNCHANGED <<draft, editable, tab>>

(* In the place of an image, or behind them while there is room.  Only the   *)
(* mounted editor is disabled while it uploads: going to the preview and     *)
(* back, or to another question, mounts a new one.                           *)
Upload(t) ==
    \E q \in Shown(t, ImageType(Editor[t])) :
      \E slot \in 1..(Len(List(q.stimuli)) + 1) :
        /\ slot <= MaxStimuli
        /\ Start([kind |-> "upload", tab |-> t, code |-> q.code, slot |-> slot,
                  base |-> List(q.stimuli), asset |-> work + 1])

WithImage(j) == IF j.slot > Len(j.base) THEN Append(j.base, j.asset)
                ELSE [j.base EXCEPT ![j.slot] = j.asset]

(* Lets the patch of an answer into the page that asked, if the question is  *)
(* still there, and counts as an edit in any case.                           *)
Answer(j, patched) ==
    /\ tab' = [tab EXCEPT ![j.tab] =
                 Mutated(tab[j.tab], UpdateQuestion(tab[j.tab].doc, j.code, patched))]
    /\ jobs' = jobs \ {j}
    /\ UNCHANGED <<draft, editable, work>>

Uploaded(j) ==
    /\ j.kind = "upload"
    /\ Answer(j, [q \in Asked(tab[j.tab].doc) |-> [q EXCEPT !.stimuli = WithImage(j)]])

(* The screenshot of a prototype's frame goes into an entry of the           *)
(* configuration as it was when the upload began.                            *)
UploadScreenshot(t) ==
    \E q \in Shown(t, "prototype_test") :
        /\ Editor[t] = "modern"
        /\ Start([kind |-> "screenshot", tab |-> t, code |-> q.code, config |-> q.prototype])

Illustrated(j) ==
    /\ j.kind = "screenshot"
    /\ Answer(j, [q \in Asked(tab[j.tab].doc) |-> [q EXCEPT !.prototype = j.config]])

Failed(j) ==
    /\ jobs' = jobs \ {j}
    /\ UNCHANGED <<draft, editable, tab, work>>
-----------------------------------------------------------------------------
(* Figma: frames are fetched for a prototype question of the stored draft *)

SyncFrames(t) ==
    \E q \in Shown(t, "prototype_test") :
        /\ Editor[t] = "modern"
        /\ q.prototype.file # NoFile
        /\ Start([kind |-> "sync", tab |-> t, code |-> q.code, config |-> q.prototype])

AssertFigmaDraftAccess(code, file) ==
    \E q \in Asked(draft) :
        q.code = code /\ q.type = "prototype_test" /\ q.prototype.file = file

WithFrames(config) ==
    [config EXCEPT !.version = config.file,
                   !.start = IF config.start = NoFrame THEN <<config.file, 1>> ELSE config.start]

Synced_Current(j) ==
    /\ j.kind = "sync"
    /\ AssertFigmaDraftAccess(j.code, j.config.file)
    /\ Answer(j, [q \in Asked(tab[j.tab].doc) |->
                   [q EXCEPT !.prototype.version = j.config.file]])

(* The answer is merged into the configuration of the render it began in. *)
Synced(j) ==
    /\ j.kind = "sync"
    /\ AssertFigmaDraftAccess(j.code, j.config.file)
    /\ Answer(j, [q \in Asked(tab[j.tab].doc) |-> [q EXCEPT !.prototype = WithFrames(j.config)]])

(* The picker covers the page; Figma reports the frame it presents. *)
OpenPicker(t) ==
    /\ Editor[t] = "modern" /\ tab[t].picker = NoPicker
    /\ Work
    /\ \E q \in Shown(t, "prototype_test"), target \in {"start", "goal"} :
        /\ q.prototype.file # NoFile
        /\ target = "goal" => q.prototype.flow = "task" /\ q.prototype.start # NoFrame
        /\ tab' = [tab EXCEPT ![t].picker =
              [target |-> target, code |-> q.code, frame |-> q.prototype[target]]]
    /\ UNCHANGED <<draft, editable, jobs>>

Present(t) ==
    /\ tab[t].picker # NoPicker
    /\ \E q \in Shown(t, "prototype_test") : \E frame \in FramesOf(q.prototype.file) :
        /\ q.code = tab[t].picker.code
        /\ tab' = [tab EXCEPT ![t].picker.frame = frame]
    /\ UNCHANGED <<draft, editable, jobs, work>>

ClosePicker(t) ==
    /\ tab[t].picker # NoPicker
    /\ tab' = [tab EXCEPT ![t].picker = NoPicker]
    /\ UNCHANGED <<draft, editable, jobs, work>>

WithFrame(c, picker) ==
    IF picker.target = "goal" THEN [c EXCEPT !.goal = picker.frame]
    ELSE [c EXCEPT !.start = picker.frame,
                   !.goal = IF c.goal = picker.frame THEN NoFrame ELSE c.goal]

SelectCurrentFrame(t) ==
    /\ tab[t].picker # NoPicker
    /\ tab[t].picker.frame # NoFrame
    /\ \E q \in Shown(t, "prototype_test") :
        /\ q.code = tab[t].picker.code
        /\ tab[t].picker.target = "goal" => tab[t].picker.frame # q.prototype.start
        /\ tab' = [tab EXCEPT ![t] =
              [Mutated(tab[t], UpdateQuestion(tab[t].doc, q.code, [x \in Asked(tab[t].doc) |->
                  [x EXCEPT !.prototype = WithFrame(x.prototype, tab[t].picker)]]))
                 EXCEPT !.picker = NoPicker]]
    /\ UNCHANGED <<draft, editable, jobs, work>>
-----------------------------------------------------------------------------
Page(t) == \/ Reload(t) \/ Edit(t) \/ Save(t) \/ UpdateDraft(t) \/ SaveReply(t)
           \/ SaveError(t) \/ Upload(t) \/ UploadScreenshot(t) \/ SyncFrames(t)
           \/ OpenPicker(t) \/ Present(t) \/ ClosePicker(t) \/ SelectCurrentFrame(t)

Next ==
    \/ \E t \in Tabs : Page(t)
    \/ \E j \in jobs : Uploaded(j) \/ Illustrated(j) \/ Synced(j) \/ Failed(j)
    \/ SetStatus

Spec == Init /\ [][Next]_vars
-----------------------------------------------------------------------------
(* Properties *)

OpenDocs == {tab[t].doc : t \in Tabs}
AllQuestions == UNION {Asked(doc) : doc \in OpenDocs \cup {draft}}

(* Nothing is stored that the schema refuses or a study cannot be: a draft   *)
(* has a name, a section, and no empty list of images.                       *)
TypeOK ==
    /\ draft.title \in Looks /\ draft.blocks # <<>> /\ Parses(draft)
    /\ editable \in BOOLEAN
    /\ \A t \in Tabs :
          /\ tab[t].doc.title \in Looks \cup {""} /\ tab[t].doc.blocks # <<>>
          /\ tab[t].dirty \in BOOLEAN /\ tab[t].revision \in Nat
          /\ tab[t].save.stage \in {"none", "sent", "stored", "refused"}
          /\ tab[t].picker.target \in {"none", "start", "goal"}
    /\ \A j \in jobs : j.tab \in Tabs /\ j.kind \in {"upload", "screenshot", "sync"}
    /\ work \in 0..MaxWork

(* A code names one question, in every page and in the draft, whatever is    *)
(* added, removed, moved or still being uploaded: answers, conditions and    *)
(* columns of the dataset are keyed by it.                                   *)
CodesUnique ==
    \A doc \in OpenDocs \cup {draft} :
        Cardinality(Codes(Questions(doc))) = Len(Questions(doc))

(* No unfinished display condition gets into the draft, from neither         *)
(* builder, though the legacy one sends what it has.                         *)
DraftLogicComplete == DisplayLogicWarnings(draft) = {}

(* The legacy page says "Gemt" only when what it shows is what the server    *)
(* confirmed: edits and finished uploads during a save keep it dirty.        *)
Content(doc) == <<doc.look, doc.blocks>>
LegacySavedMeansSaved ==
    \A t \in Tabs : Editor[t] = "legacy" /\ ~tab[t].dirty =>
        Content(tab[t].doc) = Content(tab[t].shared)

(* Uploads finishing in any order never make a list longer than the schema   *)
(* accepts, which would make the draft impossible to save.                   *)
StimuliWithinLimit == \A q \in AllQuestions : Len(List(q.stimuli)) <= MaxStimuli

(* A version belongs to the Figma file it is stored with, although another   *)
(* link may be imported while frames are being fetched.                      *)
VersionOfFile ==
    \A q \in AllQuestions : q.prototype.version \in {NoFile, q.prototype.file}

(* What an upload or a fetch of frames answers fits the document it meets,   *)
(* however that has been edited since (modern-builder.tsx:938-960,           *)
(* figma-frame-picker.tsx:89-110).                                           *)
LateRepliesFit == StimuliWithinLimit /\ VersionOfFile

(* The modern page says "All changes saved", "Draft saved" and "Saved" only  *)
(* when what it shows is what the server confirmed.                          *)
SavedMeansSaved ==
    \A t \in Tabs : Editor[t] = "modern" /\ ~tab[t].dirty => tab[t].doc = tab[t].shared
=============================================================================
