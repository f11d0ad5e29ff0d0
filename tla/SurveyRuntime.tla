---------------------------- MODULE SurveyRuntime ----------------------------
(***************************************************************************)
(* A respondent answering one published study in the browser, and the      *)
(* server that receives the answers: SurveyRenderer with its history of    *)
(* questions, the Figma component inside it, PublicRuntime that starts the *)
(* response and sends it, and the two API routes.                          *)
(*                                                                         *)
(* Browser steps are event handlers, which run to completion.  Between the *)
(* press of the last Next and the answer of the server anything else may   *)
(* happen: only the Next button is disabled meanwhile.                     *)
(***************************************************************************)
EXTENDS Submission

CONSTANTS
  Definitions,   \* the instruments studied
  Presented,     \* what Figma may report as presented
  Measures,      \* may a recorded position fail the server's checks (odd)?
  Words,         \* what is typed into a text question
  Restless,      \* the instruments whose respondents go on during a submission: a
                 \* bound, the product of both is explored where it is small
  MaxHistory,    \* bound on the presses of Next that Back has not undone
  Faults         \* of "startFails", "lost", "replyLost", "resize"

Numbered(s) == s \in Seq(Range(s))

\* Questions, their options and routing rules and the blocks are lists; the questions
\* of a block come after those of the blocks before it.
ASSUME DefinitionsAssumption ==
  \A d \in Definitions :
    /\ Numbered(d.questions) /\ Numbered(d.blocks)
    /\ \A i \in DOMAIN d.questions : /\ Numbered(d.questions[i].options)
                                     /\ Numbered(d.questions[i].branches)
                                     /\ d.questions[i].block \in DOMAIN d.blocks
    /\ \A i, j \in DOMAIN d.questions : i <= j => d.questions[i].block <= d.questions[j].block

ASSUME HistoryAssumption == MaxHistory \in Nat

VARIABLES
  def,           \* the definition of the published version
  phase,         \* intro, question, done, disqualified; "away": not rendered
  current,       \* the question shown, 0 for null
  answers,
  history,       \* the questions Next was pressed on
  interactions,  \* interactionsRef
  figma,         \* the state of the mounted FigmaPrototype instance
  request,       \* the completion in flight
  response       \* the row of the response: none, started, or its final status

browser == <<phase, current, answers, history, interactions, figma>>
vars == <<def, browser, request, response>>

Unmounted == [mounted |-> FALSE]
Instance(consented, last, reached) ==
  [mounted |-> TRUE, consented |-> consented, last |-> last, reached |-> reached]

NoRequest == [stage |-> "idle"]
Stages == {"starting", "sent", "accepted", "invalid", "finalized"}
Final  == {"completed", "disqualified"}

submitting == request.stage # "idle" /\ request.mine

Free == request.stage = "idle" \/ def \in Restless

TypeOK ==
  /\ def \in Definitions
  /\ phase \in {"intro", "question", "away"} \cup {"done", "disqualified"}
  /\ current \in {0} \cup Codes(def)
  /\ phase = "question" => current # 0
  /\ DOMAIN answers = Codes(def)
  /\ history \in Seq(Codes(def)) /\ Len(history) <= MaxHistory
  /\ Len(interactions) <= MaxInteractions
  /\ \A k \in DOMAIN interactions : interactions[k].code \in Codes(def)
  /\ figma.mounted => figma.consented \in BOOLEAN /\ figma.reached \in BOOLEAN
  /\ request.stage # "idle" => /\ request.stage \in Stages
                               /\ request.mine \in BOOLEAN
                               /\ request.sub.status \in Final
  /\ response \in {"none", "started"} \cup Final

Unanswered(d) == [i \in Codes(d) |-> Missing]

Fresh(p) ==
  /\ phase' = p
  /\ current' = 0
  /\ answers' = Unanswered(def)
  /\ history' = <<>>
  /\ interactions' = <<>>
  /\ figma' = Unmounted

Init ==
  /\ def \in {d \in Definitions : Publishable(d)}
  /\ phase = "intro" /\ current = 0
  /\ answers = Unanswered(def)
  /\ history = <<>> /\ interactions = <<>>
  /\ figma = Unmounted
  /\ request = NoRequest
  /\ response = "none"

----------------------------------------------------------------------------
(* The renderer.                                                           *)

Question == def.questions[current]

\* React keeps the Figma component when the question before was one as well:
\* it has no key.  Its state is initialized only when it is mounted anew.
FigmaFor(p, i, given) ==
  IF p = "question" /\ def.questions[i].type = "prototype_test"
  THEN IF figma.mounted THEN figma
       ELSE Instance(~def.questions[i].consent, NoFrame,
                     Is(given[i], "goal") /\ given[i].goal)
  ELSE Unmounted

Show(p, i, given) ==
  /\ phase' = p
  /\ current' = i
  /\ figma' = FigmaFor(p, i, given)

\* The hidden questions are never sent; the others with whatever they hold.
Payload(given) ==
  [i \in Codes(def) |-> IF def.questions[i].hidden THEN Missing ELSE given[i]]

\* setHistory runs first: a submission that fails leaves the question in it.
GoNext(from, given, past) ==
  LET step == NextStep(def, from, given) IN
  /\ answers' = given
  /\ history' = past
  /\ UNCHANGED <<def, interactions, response>>
  /\ IF step.kind = "question"
     THEN Show("question", step.code, given) /\ UNCHANGED request
     ELSE /\ request.stage = "idle"       \* one at a time: a bound
          /\ request' = [stage |-> "starting", mine |-> TRUE, visited |-> Range(past),
                         sub |-> [status |-> StatusOf(step), answers |-> Payload(given),
                                  interactions |-> interactions]]
          /\ UNCHANGED <<phase, current, figma>>

Start == phase = "intro" /\ GoNext(0, answers, history)

\* Mutant: a required question may be skipped.
IsAnswered_Skipped(q, v) == TRUE

IsAnswered(q, v) ==
  /\ Answered(v)
  /\ q.type = "matrix" => \A k \in DOMAIN q.options : q.options[k] \in DOMAIN v.grid

\* A ranking nobody touched counts as the order in which it was shown.
WithRanking(given) ==
  IF Question.type = "ranking" /\ given[current] = Missing
  THEN [given EXCEPT ![current] = List(Question.options)]
  ELSE given

Next_ ==
  LET given == WithRanking(answers) IN
  /\ phase = "question" /\ ~submitting
  /\ Len(history) < MaxHistory
  /\ Question.required => IsAnswered(Question, given[current])
  /\ GoNext(current, given, Append(history, current))

Back ==
  /\ phase = "question"
  /\ IF history = <<>>
     THEN Show("intro", 0, answers) /\ UNCHANGED history
     ELSE /\ Show("question", history[Len(history)], answers)
          /\ history' = SubSeq(history, 1, Len(history) - 1)
  /\ UNCHANGED <<def, answers, interactions, request, response>>

SetAnswer(v) == answers' = [answers EXCEPT ![current] = v]

\* What one change of an input makes of the value v it shows.
Rate(q) == {Num(q.options[k]) : k \in DOMAIN q.options}

Choose(q) == {Word(q.options[k]) : k \in DOMAIN q.options}

Prefer(q) == {Pick(q.options[k]) : k \in DOMAIN q.options}

Toggle(list, o) ==
  IF o \in Range(list) THEN Without(list, {o}) ELSE Append(list, o)

Swap(s, j) == [s EXCEPT ![j] = s[j + 1], ![j + 1] = s[j]]

Fill(grid, row) == [r \in DOMAIN grid \cup {row} |-> IF r = row THEN 1 ELSE grid[r]]

Enterable(q, v) ==
  LET list == IF Is(v, "list") THEN v.list ELSE IF q.type = "ranking" THEN q.options ELSE <<>>
      grid == IF Is(v, "grid") THEN v.grid ELSE <<>>
  IN CASE q.type = "single_choice" -> Choose(q)
       [] q.type = "dropdown" -> Choose(q) \cup {Missing}
       [] q.type = "scale"    -> Rate(q)
       [] q.type = "number"   -> {Num(1), Missing}
       [] q.type = "text"     -> {Word(w) : w \in Words \cup {""}}
       [] q.type = "date"     -> {Word(Day), Word("")}
       [] q.type = "consent"  -> {Bool(TRUE), Bool(FALSE)}
       [] q.type = "multiple_choice" -> {List(Toggle(list, o)) : o \in Range(q.options)}
       [] q.type = "ranking"  -> {List(Swap(list, j)) : j \in 1 .. Len(list) - 1}
       [] q.type = "matrix"   -> {Grid(Fill(grid, o)) : o \in Range(q.options)}
       [] q.type = "preference_test" -> Prefer(q)
       [] OTHER -> {}

ChangeAnswer ==
  /\ phase = "question"
  /\ \E v \in Enterable(Question, answers[current]) : SetAnswer(v)
  /\ UNCHANGED <<def, phase, current, history, interactions, figma, request, response>>

ClickStimulus(k, odd) ==
  LET point == Point(Question.options[k])
      r == RecordSubmissionInteraction(def, interactions, FirstClick(current, point, odd))
  IN /\ phase = "question" /\ Question.type = "first_click"
     /\ k \in DOMAIN Question.options
     /\ r.ok
     /\ interactions' = r.interactions
     /\ SetAnswer(point)
     /\ UNCHANGED <<def, phase, current, history, figma, request, response>>

----------------------------------------------------------------------------
(* FigmaPrototype.                                                         *)

ConsentToFigma ==
  /\ figma.mounted /\ ~figma.consented
  /\ figma' = [figma EXCEPT !.consented = TRUE]
  /\ UNCHANGED <<def, phase, current, answers, history, interactions, request, response>>

\* Success is sticky.
PrototypeGoalReached(already, f, goal) == already \/ (goal # NoFrame /\ f = goal)

\* A frame is remembered as the last one even when its event is refused.
FigmaFrame(f) ==
  LET r == RecordSubmissionInteraction(def, interactions,
             PrototypeEvent(current, "prototype_frame", f, FALSE))
      reached == PrototypeGoalReached(figma.reached, f, Question.goal)
  IN /\ figma.mounted /\ figma.consented
     /\ f \notin {NoFrame, figma.last}
     /\ IF r.ok
        THEN /\ interactions' = r.interactions
             /\ SetAnswer(Goal(reached, f))
             /\ figma' = [figma EXCEPT !.last = f, !.reached = reached]
        ELSE /\ figma' = [figma EXCEPT !.last = f]
             /\ UNCHANGED <<interactions, answers>>
     /\ UNCHANGED <<def, phase, current, history, request, response>>

\* INITIAL_LOAD tells of the starting frame, PRESENTED_NODE_CHANGED of any.
FigmaLoaded == figma.mounted /\ FigmaFrame(Question.start)

\* A click on the prototype, or its asking for a login or a password; the frame
\* it came from is left out.
FigmaOther(event, odd) ==
  LET r == RecordSubmissionInteraction(def, interactions,
             PrototypeEvent(current, event, NoFrame, odd))
  IN /\ figma.mounted /\ figma.consented
     /\ event = "prototype_click" => figma.last # NoFrame
     /\ event = "prototype_status" => ~odd
     /\ r.ok
     /\ interactions' = r.interactions
     /\ UNCHANGED <<def, phase, current, answers, history, figma, request, response>>

----------------------------------------------------------------------------
(* PublicRuntime and the routes.                                           *)

\* The first touch starts the response in the background.
EnsureStarted ==
  /\ response = "none"
  /\ phase # "away" \/ request.stage = "starting"
  /\ response' = "started"
  /\ UNCHANGED <<def, browser, request>>

SendCompletion ==
  /\ request.stage = "starting" /\ response # "none"
  /\ request' = [request EXCEPT !.stage = "sent"]
  /\ UNCHANGED <<def, browser, response>>

\* completeResponse: a transaction on the row of the response.
CompleteResponse ==
  LET v == ValidateSubmission(def, request.sub) IN
  /\ request.stage = "sent"
  /\ IF response \in Final
     THEN /\ request' = [request EXCEPT !.stage = "finalized"]
          /\ UNCHANGED response
     ELSE IF ~v.ok
     THEN /\ request' = [request EXCEPT !.stage = "invalid"]
          /\ UNCHANGED response
     ELSE /\ request' = [request EXCEPT !.stage = "accepted"]
          /\ response' = v.status
  /\ UNCHANGED <<def, browser>>

\* onComplete throws: the renderer stays where it is and shows a message.
SubmissionFails ==
  /\ \/ request.stage \in {"invalid", "finalized"}
     \/ "startFails" \in Faults /\ request.stage = "starting" /\ response = "none"
     \/ "lost" \in Faults /\ request.stage = "sent"
     \/ "replyLost" \in Faults /\ request.stage = "accepted"
  /\ request' = NoRequest
  /\ UNCHANGED <<def, browser, response>>

\* Mutant: "already finalized" is taken for success.
SubmissionSucceeds_Finalized ==
  /\ request.stage \in {"accepted", "finalized"}
  /\ request' = NoRequest
  /\ Show(IF request.sub.status = "disqualified" THEN "disqualified" ELSE "done",
          current, answers)
  /\ UNCHANGED <<def, answers, history, interactions, response>>

\* A renderer that is gone hears nothing of it.
SubmissionSucceeds ==
  /\ request.stage = "accepted"
  /\ request' = NoRequest
  /\ IF request.mine
     THEN Show(IF request.sub.status = "disqualified" THEN "disqualified" ELSE "done",
               current, answers)
     ELSE UNCHANGED <<phase, current, figma>>
  /\ UNCHANGED <<def, answers, history, interactions, response>>

\* A viewport the study does not allow takes the renderer away, and with it
\* all it held; PublicRuntime keeps the response.
ViewportDenied ==
  /\ "resize" \in Faults /\ phase # "away"
  /\ Fresh("away")
  /\ request' = IF request.stage = "idle" THEN request
                ELSE [request EXCEPT !.mine = FALSE]
  /\ UNCHANGED <<def, response>>

ViewportAllowed ==
  /\ phase = "away"
  /\ Fresh("intro")
  /\ UNCHANGED <<def, request, response>>

----------------------------------------------------------------------------
Respondent ==
  /\ Free
  /\ \/ Start \/ Next_ \/ Back \/ ChangeAnswer
     \/ \E odd \in Measures, k \in {1, 2} : ClickStimulus(k, odd)
     \/ ConsentToFigma
     \/ ViewportDenied \/ ViewportAllowed

Figma ==
  /\ Free
  /\ \/ FigmaLoaded
     \/ \E f \in Presented : FigmaFrame(f)
     \/ \E event \in {"prototype_click", "prototype_status"}, odd \in Measures :
          FigmaOther(event, odd)

Network ==
  \/ EnsureStarted \/ SendCompletion \/ CompleteResponse
  \/ SubmissionFails \/ SubmissionSucceeds

Next == Respondent \/ Figma \/ Network

Spec == Init /\ [][Next]_vars

----------------------------------------------------------------------------
(* Properties.                                                             *)

Bad(i, v) == v # Missing /\ ~ValidAnswerValue(def.questions[i], v)

GoalFrameSeen(i, ints) ==
  \E k \in Of(ints, i) : /\ ints[k].event = "prototype_frame"
                         /\ ints[k].frame = def.questions[i].goal

\* The thank-you screen is never false: it is shown only for a response that
\* is final on the server, and with the status shown, whatever was lost, sent
\* again or answered late (renderer.tsx submits before it shows the screen).
ThankYouIsStored ==
  /\ phase = "done"         => response = "completed"
  /\ phase = "disqualified" => response = "disqualified"

\* What completing a response stores is a path of the instrument: taken alone,
\* the stored answers lead to exactly the stored questions and status, and
\* every required question on the way has its answer.
StoredIsAPath ==
  request.stage = "accepted" =>
    LET stored == ValidateSubmission(def, request.sub).answers
        path   == VisiblePath(def, stored)
    IN /\ response = StatusOf(path.step)
       /\ \A i \in Codes(def) :
            /\ stored[i] # Missing => i \in path.codes
            /\ i \in path.codes /\ def.questions[i].required => Answered(stored[i])
            /\ ~Bad(i, stored[i])

\* The server refuses what the renderer let a respondent submit for three
\* reasons only: something was left on a question the respondent went back
\* from and never came to again; a value or a measure the input does not
\* check; a success carried over from another prototype.
RefusedOnlyFor ==
  request.stage = "invalid" =>
    LET sub == request.sub
        elsewhere(i) == i \notin request.visited
        left      == \E i \in Codes(def) : /\ elsewhere(i)
                                          /\ \/ sub.answers[i] # Missing
                                             \/ Of(sub.interactions, i) # {}
        unchecked == \/ \E i \in Codes(def) :
                          /\ Bad(i, sub.answers[i])
                          /\ sub.answers[i] \in {Word(""), Word(Overlong)}
                     \/ \E k \in DOMAIN sub.interactions : sub.interactions[k].odd
        carried   == \E i \in Codes(def) : /\ Is(sub.answers[i], "goal")
                                          /\ sub.answers[i].goal
                                          /\ ~GoalFrameSeen(i, sub.interactions)
    IN left \/ unchecked \/ carried

\* Back retraces: the questions behind the respondent are in the order of the
\* instrument, none of them beyond the one on screen.
HistoryOrdered ==
  /\ \A j, k \in DOMAIN history : j <= k => history[j] <= history[k]
  /\ phase = "question" => \A k \in DOMAIN history : history[k] <= current
=============================================================================
