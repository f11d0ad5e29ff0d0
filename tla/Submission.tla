------------------------------ MODULE Submission ------------------------------
(***************************************************************************)
(* What the server accepts of a respondent: recordSubmissionInteraction,   *)
(* shared with the browser, and validateSubmission, which rebuilds the     *)
(* path from the answers that are on it and holds the rest against it.     *)
(*                                                                         *)
(* A submission is [status, answers, interactions]; answers maps each code *)
(* to its value, Missing when it was not sent, so that an answer sent      *)
(* twice, under a wrong type or an unknown code is outside the model.  An  *)
(* interaction is [code, event, frame, point, odd]: odd says that its      *)
(* measures fail the server's checks (a negative position, an image of no  *)
(* size), which the browser does not look at.                              *)
(***************************************************************************)
EXTENDS SurveyLogic

Overlong == "overlong"     \* a text beyond 500, or 5000, characters
Day      == "2026-07-29"   \* any real date
FrameEvents == {"prototype_frame", "prototype_click", "prototype_status"}

FirstClick(code, point, odd) ==
  [code |-> code, event |-> "first_click", frame |-> NoFrame,
   point |-> point, odd |-> odd]

PrototypeEvent(code, event, frame, odd) ==
  [code |-> code, event |-> event, frame |-> frame,
   point |-> Missing, odd |-> odd]

Of(interactions, code) == {k \in DOMAIN interactions : interactions[k].code = code}

\* The members of s that are not dropped, in their order.
Without(s, dropped) ==
  LET kept[k \in 0 .. Len(s)] ==
        IF k = 0 THEN <<>>
        ELSE IF s[k] \in dropped THEN kept[k - 1]
        ELSE Append(kept[k - 1], s[k])
  IN kept[Len(s)]

\* Mutant: the total budget is overrun by one.
RecordSubmissionInteraction_OffByOne(d, current, x) ==
  IF Len(current) > MaxInteractions
  THEN [ok |-> FALSE, interactions |-> current]
  ELSE [ok |-> TRUE, interactions |-> Append(current, x)]

\* A new first click replaces the old one; a prototype adds up to its budget.
RecordSubmissionInteraction(d, current, x) ==
  LET others  == Without(current, {current[k] : k \in Of(current, x.code)})
      refused == [ok |-> FALSE, interactions |-> current]
  IN IF d.questions[x.code].type = "first_click"
     THEN IF x.event # "first_click" \/ Len(others) + 1 > MaxInteractions
          THEN refused
          ELSE [ok |-> TRUE, interactions |-> Append(others, x)]
     ELSE IF \/ d.questions[x.code].type # "prototype_test"
             \/ Cardinality(Of(current, x.code)) >= MaxPrototypeEvents
             \/ Len(current) >= MaxInteractions
          THEN refused
          ELSE [ok |-> TRUE, interactions |-> Append(current, x)]

\* validateAnswerValue; the columns of a matrix are its own business.
ValidAnswerValue(q, v) ==
  LET offered == {q.options[k] : k \in DOMAIN q.options} IN
  CASE q.type \in {"single_choice", "dropdown"} -> Is(v, "word") /\ v.word \in offered
    [] q.type = "scale"    -> Is(v, "num") /\ v.num \in offered
    [] q.type = "number"   -> Is(v, "num")
    [] q.type = "text"     -> Is(v, "word") /\ v.word # Overlong
    [] q.type = "date"     -> Is(v, "word") /\ v.word = Day
    [] q.type = "consent"  -> Is(v, "bool")
    [] q.type = "multiple_choice" ->
         Is(v, "list") /\ IsInjective(v.list) /\ Range(v.list) \subseteq offered
    [] q.type = "ranking"  ->
         Is(v, "list") /\ IsInjective(v.list) /\ Range(v.list) = offered
    [] q.type = "matrix"   ->
         /\ Is(v, "grid") /\ DOMAIN v.grid \subseteq offered
         /\ q.required => DOMAIN v.grid = offered
    [] q.type = "first_click"     -> Is(v, "asset") /\ v.asset \in offered
    [] q.type = "preference_test" -> Is(v, "pick") /\ v.pick \in offered
    [] q.type = "prototype_test"  -> Is(v, "goal")

\* The path rebuilt one question at a time, only from answers already on it.
Lacking(q, v) == q.required /\ ~Answered(v)

Onward(d, path, i, lacking, kept) ==
  [step |-> NextStep(d, i, kept), codes |-> path.codes \cup {i},
   answers |-> kept, ok |-> path.ok /\ ~lacking]

\* Mutant: the next question is chosen by everything that was sent.
Rebuild_FromSent(d, sent, path, i) ==
  IF path.step.kind # "question" THEN path
  ELSE [Onward(d, path, i, Lacking(d.questions[i], sent[i]),
               [path.answers EXCEPT ![i] = sent[i]])
          EXCEPT !.step = NextStep(d, i, sent)]

Rebuild(d, sent, path, i) ==
  IF path.step.kind # "question" THEN path
  ELSE IF Lacking(d.questions[i], sent[i])
  THEN Onward(d, path, i, TRUE, path.answers)
  ELSE Onward(d, path, i, FALSE, [path.answers EXCEPT ![i] = sent[i]])

RebuiltPath(d, sent) ==
  LET none == [i \in Codes(d) |-> Missing]
      walk[k \in 0 .. Len(d.questions)] ==
        IF k = 0
        THEN [step |-> NextStep(d, 0, none), codes |-> {}, answers |-> none, ok |-> TRUE]
        ELSE Rebuild(d, sent, walk[k - 1], walk[k - 1].step.code)
  IN walk[Len(d.questions)]

StatusOf(step) == IF step.kind = "disqualified" THEN "disqualified" ELSE "completed"

InteractionOK(d, path, interactions, k, x) ==
  LET earlier == {j \in Of(interactions, x.code) : j < k}
  IN /\ x.code \in path.codes
     /\ ~x.odd
     /\ CASE d.questions[x.code].type = "prototype_test" ->
               x.event \in FrameEvents /\ Cardinality(earlier) < MaxPrototypeEvents
          [] d.questions[x.code].type = "first_click" ->
               /\ x.event = "first_click" /\ earlier = {}
               /\ x.point = path.answers[x.code]
          [] OTHER -> FALSE

\* A first click needs its interaction, a prototype its frames, a claim of
\* success the frame that was the goal.
Frames(interactions, i) ==
  {interactions[k].frame : k \in {j \in Of(interactions, i) :
                                   interactions[j].event = "prototype_frame"}}

PrototypeEvidence(q, answer, frames) ==
  frames # {} /\ (answer.goal => q.goal # NoFrame /\ q.goal \in frames)

EvidenceFor(q, answer, interactions, i) ==
  answer # Missing =>
    CASE q.type = "first_click"    -> Of(interactions, i) # {}
      [] q.type = "prototype_test" ->
           PrototypeEvidence(q, answer, Frames(interactions, i))
      [] OTHER -> TRUE

AnswersValid(d, answers) ==
  \A i \in Codes(d) : answers[i] # Missing =>
    ValidAnswerValue(d.questions[i], answers[i])

FollowsPath(d, sub, path) ==
  /\ path.ok
  /\ sub.status = StatusOf(path.step)
  /\ Len(sub.interactions) <= MaxInteractions
  /\ \A k \in DOMAIN sub.interactions :
       InteractionOK(d, path, sub.interactions, k, sub.interactions[k])
  /\ \A i \in Codes(d) :
       EvidenceFor(d.questions[i], path.answers[i], sub.interactions, i)

Validated(d, sub, path) ==
  [ok |-> AnswersValid(d, sub.answers) /\ FollowsPath(d, sub, path),
   status |-> sub.status, answers |-> path.answers]

ValidateSubmission(d, sub) == Validated(d, sub, RebuiltPath(d, sub.answers))
=============================================================================
