------------------------- MODULE SurveyRuntime_proofs -------------------------
(***************************************************************************)
(* For every set of instruments: the respondent's way back is in the order *)
(* of the instrument, the thank-you screen is never false, what a          *)
(* completed response stores is a path of its instrument, and what the     *)
(* renderer lets be submitted is refused for the named reasons only.       *)
(***************************************************************************)
EXTENDS SurveyRuntime, TLAPS, WellFoundedInduction, FiniteSetTheorems, SequenceTheorems

LEMMA SeqMembers ==
  ASSUME NEW T, NEW s \in Seq(T)
  PROVE  /\ Len(s) \in Nat /\ DOMAIN s = 1 .. Len(s)
         /\ \A k \in 1 .. Len(s) : s[k] \in T
         /\ Range(s) \subseteq T
<1>1. Len(s) \in Nat /\ DOMAIN s = 1 .. Len(s) /\ \A k \in 1 .. Len(s) : s[k] \in T
  OBVIOUS
<1> QED BY <1>1 DEF Range

LEMMA NumberedDomain ==
  ASSUME NEW s, Numbered(s) PROVE Len(s) \in Nat /\ DOMAIN s = 1 .. Len(s)
BY SeqMembers DEF Numbered

(* What the numbering of the lists says of the codes. *)
LEMMA InNumbers ==
  \A d \in Definitions :
    /\ DOMAIN d.questions \subseteq Nat \ {0} /\ Len(d.questions) \in Nat
    /\ DOMAIN d.blocks \subseteq Nat
    /\ \A i \in DOMAIN d.questions : /\ DOMAIN d.questions[i].branches \subseteq Nat
                                     /\ d.questions[i].block \in DOMAIN d.blocks
    /\ \A i, j \in DOMAIN d.questions : i <= j => d.questions[i].block <= d.questions[j].block
<1> SUFFICES ASSUME NEW d \in Definitions
             PROVE  /\ DOMAIN d.questions \subseteq Nat \ {0} /\ Len(d.questions) \in Nat
                    /\ DOMAIN d.blocks \subseteq Nat
                    /\ \A i \in DOMAIN d.questions : DOMAIN d.questions[i].branches \subseteq Nat
  BY DefinitionsAssumption
<1>1. /\ DOMAIN d.questions = 1 .. Len(d.questions) /\ Len(d.questions) \in Nat
      /\ DOMAIN d.blocks = 1 .. Len(d.blocks) /\ Len(d.blocks) \in Nat
  BY DefinitionsAssumption, NumberedDomain
<1>2. \A i \in DOMAIN d.questions : /\ DOMAIN d.questions[i].branches = 1 .. Len(d.questions[i].branches)
                                    /\ Len(d.questions[i].branches) \in Nat
  BY DefinitionsAssumption, NumberedDomain
<1> QED BY <1>1, <1>2

(***************************************************************************)
(* The flow only goes forward: a step from a question leads to a later one.*)
(***************************************************************************)
LEMMA LeastIsLeast ==
  ASSUME NEW S, S \subseteq Nat, S # {}
  PROVE  Least(S) \in S /\ \A j \in S : Least(S) <= j
<1>1. \E i \in S : \A j \in S : ~ (<<j, i>> \in OpToRel(<, Nat))
  BY NatLessThanWellFounded, WFMin
<1>2. PICK i \in S : \A j \in S : ~ (<<j, i>> \in OpToRel(<, Nat))
  BY <1>1
<1>3. \A j \in S : i <= j
  <2>1. SUFFICES ASSUME NEW j \in S PROVE i <= j
    OBVIOUS
  <2>2. i \in Nat /\ j \in Nat
    OBVIOUS
  <2>3. ~ (j < i)
    BY <1>2, <2>2 DEF OpToRel
  <2> QED BY <2>2, <2>3
<1> QED BY <1>3 DEF Least

LEMMA FirstVisibleIsAhead ==
  ASSUME NEW d, NEW start, NEW a, DOMAIN d.questions \subseteq Nat \ {0},
         FirstVisibleFrom(d, start, a).kind = "question"
  PROVE  /\ FirstVisibleFrom(d, start, a).code \in Codes(d)
         /\ FirstVisibleFrom(d, start, a).code >= start
<1> DEFINE shown == {i \in Codes(d) : i >= start /\ Visible(d, i, a)}
<1>1. FirstVisibleFrom(d, start, a) = FirstOf(shown)
  BY DEF FirstVisibleFrom
<1>2. shown # {}
  BY <1>1 DEF FirstOf, EndStep
<1>3. shown \subseteq Nat
  BY DEF Codes
<1>4. Least(shown) \in shown
  BY <1>2, <1>3, LeastIsLeast
<1>5. FirstVisibleFrom(d, start, a).code = Least(shown)
  BY <1>1, <1>2 DEF FirstOf, QuestionStep
<1> QED BY <1>4, <1>5

LEMMA StepIsAhead ==
  ASSUME NEW d \in Definitions, NEW from \in {0} \cup Codes(d), NEW a,
         NextStep(d, from, a).kind = "question"
  PROVE  /\ NextStep(d, from, a).code \in Codes(d)
         /\ NextStep(d, from, a).code > from
<1>0. /\ DOMAIN d.questions \subseteq Nat \ {0}
      /\ \A i \in Codes(d) : DOMAIN d.questions[i].branches \subseteq Nat
  BY InNumbers DEF Codes
<1>f. from \in Nat
  BY <1>0 DEF Codes
<1> DEFINE next == IF from = 0 THEN 1
                   ELSE Target(d.questions[from].branches, from, Deciding(d, from, a))
<1>1. NextStep(d, from, a) = Follow(d, next, a)
  BY DEF NextStep
<1>2. next \notin {END, DISQUALIFY}
  BY <1>1 DEF Follow, EndStep, DisqualifyStep
<1>3. NextStep(d, from, a) = FirstVisibleFrom(d, next, a)
  BY <1>1, <1>2 DEF Follow
<1>4. next \in Nat /\ next > from
  <2>1. CASE from = 0
    BY <2>1
  <2>2. CASE from # 0 /\ Deciding(d, from, a) = {}
    BY <2>2, <1>f DEF Target
  <2>3. CASE from # 0 /\ Deciding(d, from, a) # {}
    <3> DEFINE rules == d.questions[from].branches
               k == Least(Deciding(d, from, a))
    <3>1. Deciding(d, from, a) \subseteq Nat
      BY <2>3, <1>0 DEF Deciding, Codes
    <3>2. k \in Deciding(d, from, a)
      BY <3>1, <2>3, LeastIsLeast
    <3>3. next = rules[k].goTo
      BY <2>3 DEF Target
    <3>4. rules[k].goTo \in Codes(d) /\ rules[k].goTo > from
      BY <3>2, <3>3, <1>2 DEF Deciding
    <3> QED BY <3>3, <3>4, <1>0 DEF Codes
  <2> QED BY <2>1, <2>2, <2>3
<1>5. /\ FirstVisibleFrom(d, next, a).code \in Codes(d)
      /\ FirstVisibleFrom(d, next, a).code >= next
  BY <1>0, <1>3, FirstVisibleIsAhead
<1>6. FirstVisibleFrom(d, next, a).code \in Nat
  BY <1>5, <1>0 DEF Codes
<1> QED BY <1>3, <1>4, <1>5, <1>6, <1>f

(***************************************************************************)
(* The thank-you screen.  A request keeps its record, its status is final, *)
(* and an accepted one is what the row of the response says.               *)
(***************************************************************************)
InFlight ==
  request.stage # "idle" =>
    {"stage", "mine", "sub"} \subseteq DOMAIN request /\ request.sub.status \in Final

Answer ==
  /\ ThankYouIsStored
  /\ InFlight
  /\ request.stage = "accepted" => response = request.sub.status

LEMMA AnswerUntouched ==
  ASSUME Answer, request' = request, response' = response,
         phase' = phase \/ phase' \notin Final \cup {"done"}
  PROVE  Answer'
BY DEF Answer, ThankYouIsStored, InFlight, Final

LEMMA StatusIsFinal == ASSUME NEW step PROVE StatusOf(step) \in Final
BY DEF StatusOf, Final

LEMMA GoNextAnswer ==
  ASSUME Answer, NEW from, NEW given, NEW past, GoNext(from, given, past)
  PROVE  Answer'
<1> DEFINE step == NextStep(def, from, given)
           r == [stage |-> "starting", mine |-> TRUE, visited |-> Range(past),
                 sub |-> [status |-> StatusOf(step), answers |-> Payload(given),
                          interactions |-> interactions]]
<1>1. response' = response
  BY DEF GoNext
<1>2. CASE step.kind = "question"
  <2>1. request' = request /\ phase' = "question"
    BY <1>2 DEF GoNext, Show
  <2> QED BY <2>1, <1>1, AnswerUntouched DEF Final
<1>3. CASE step.kind # "question"
  <2>1. request' = r /\ phase' = phase
    BY <1>3 DEF GoNext
  <2>2. /\ r.stage = "starting" /\ r.sub.status = StatusOf(step)
        /\ {"stage", "mine", "sub"} \subseteq DOMAIN r
    OBVIOUS
  <2>3. r.sub.status \in Final
    BY <2>2, StatusIsFinal
  <2> HIDE DEF r
  <2> QED BY <2>1, <2>2, <2>3, <1>1 DEF Answer, ThankYouIsStored, InFlight
<1> QED BY <1>2, <1>3

LEMMA RespondentAnswer == ASSUME Answer, Respondent PROVE Answer'
<1>1. CASE Start
  BY <1>1, GoNextAnswer DEF Start
<1>2. CASE Next_
  BY <1>2, GoNextAnswer DEF Next_
<1>3. CASE Back
  BY <1>3, AnswerUntouched DEF Back, Show, Final
<1>4. CASE ChangeAnswer
  BY <1>4, AnswerUntouched DEF ChangeAnswer
<1>5. CASE \E odd \in Measures, k \in {1, 2} : ClickStimulus(k, odd)
  BY <1>5, AnswerUntouched DEF ClickStimulus
<1>6. CASE ConsentToFigma
  BY <1>6, AnswerUntouched DEF ConsentToFigma
<1>7. CASE ViewportDenied
  <2>1. phase' = "away" /\ response' = response
    BY <1>7 DEF ViewportDenied, Fresh
  <2>2. CASE request.stage = "idle"
    BY <1>7, <2>1, <2>2, AnswerUntouched DEF ViewportDenied, Final
  <2>3. CASE request.stage # "idle"
    <3>1. request' = [request EXCEPT !.mine = FALSE]
      BY <1>7, <2>3 DEF ViewportDenied
    <3>2. /\ request'.stage = request.stage /\ request'.sub = request.sub
          /\ DOMAIN request' = DOMAIN request
      BY <3>1, <2>3 DEF Answer, InFlight
    <3> QED BY <3>2, <2>1 DEF Answer, ThankYouIsStored, InFlight
  <2> QED BY <2>2, <2>3
<1>8. CASE ViewportAllowed
  BY <1>8, AnswerUntouched DEF ViewportAllowed, Fresh, Final
<1> QED BY <1>1, <1>2, <1>3, <1>4, <1>5, <1>6, <1>7, <1>8 DEF Respondent

LEMMA FigmaAnswer == ASSUME Answer, Figma PROVE Answer'
<1>1. CASE FigmaLoaded
  BY <1>1, AnswerUntouched DEF FigmaLoaded, FigmaFrame
<1>2. CASE \E f \in Presented : FigmaFrame(f)
  BY <1>2, AnswerUntouched DEF FigmaFrame
<1>3. CASE \E event \in {"prototype_click", "prototype_status"}, odd \in Measures :
             FigmaOther(event, odd)
  BY <1>3, AnswerUntouched DEF FigmaOther
<1> QED BY <1>1, <1>2, <1>3 DEF Figma

\* A row that is final is never written again.
LEMMA NetworkAnswer == ASSUME Answer, Network PROVE Answer'
<1>1. CASE EnsureStarted
  BY <1>1 DEF EnsureStarted, browser, Answer, ThankYouIsStored, InFlight, Final
<1>2. CASE SendCompletion
  <2>1. /\ request'.stage = "sent" /\ request'.sub = request.sub
        /\ DOMAIN request' = DOMAIN request
    BY <1>2 DEF SendCompletion, Answer, InFlight
  <2>2. phase' = phase /\ response' = response
    BY <1>2 DEF SendCompletion, browser
  <2> QED BY <1>2, <2>1, <2>2 DEF SendCompletion, Answer, ThankYouIsStored, InFlight
<1>3. CASE CompleteResponse
  <2> DEFINE v == ValidateSubmission(def, request.sub)
  <2>1. request.stage = "sent" /\ phase' = phase
    BY <1>3 DEF CompleteResponse, browser
  <2>2. v.status = request.sub.status
    BY DEF ValidateSubmission, Validated
  <2>3. \/ /\ request' = [request EXCEPT !.stage = "finalized"]
           /\ response' = response
        \/ /\ request' = [request EXCEPT !.stage = "invalid"]
           /\ response' = response
        \/ /\ request' = [request EXCEPT !.stage = "accepted"]
           /\ response' = v.status /\ response \notin Final
    BY <1>3 DEF CompleteResponse
  <2>4. /\ {"stage", "mine", "sub"} \subseteq DOMAIN request
        /\ request.sub.status \in Final
    BY <2>1 DEF Answer, InFlight
  <2>5. /\ request'.sub = request.sub /\ DOMAIN request' = DOMAIN request
        /\ \/ request'.stage \in {"finalized", "invalid"} /\ response' = response
           \/ /\ request'.stage = "accepted" /\ response \notin Final
              /\ response' = request.sub.status
    BY <2>2, <2>3, <2>4
  <2> HIDE DEF v
  <2> QED BY <2>1, <2>4, <2>5 DEF Answer, ThankYouIsStored, InFlight, Final
<1>4. CASE SubmissionFails
  BY <1>4 DEF SubmissionFails, NoRequest, browser, Answer, ThankYouIsStored, InFlight
<1>5. CASE SubmissionSucceeds
  <2>1. request'.stage = "idle" /\ response' = response
    BY <1>5 DEF SubmissionSucceeds, NoRequest
  <2>2. response = request.sub.status /\ request.sub.status \in Final
    BY <1>5 DEF SubmissionSucceeds, Answer, InFlight
  <2>3. \/ phase' = phase
        \/ phase' = "disqualified" /\ request.sub.status = "disqualified"
        \/ phase' = "done" /\ request.sub.status # "disqualified"
    BY <1>5 DEF SubmissionSucceeds, Show
  <2> QED BY <2>1, <2>2, <2>3 DEF Answer, ThankYouIsStored, InFlight, Final
<1> QED BY <1>1, <1>2, <1>3, <1>4, <1>5 DEF Network

LEMMA AnswerStep == Answer /\ [Next]_vars => Answer'
<1> SUFFICES ASSUME Answer, [Next]_vars PROVE Answer'
  OBVIOUS
<1>1. CASE UNCHANGED vars
  BY <1>1, AnswerUntouched DEF vars, browser
<1> QED BY <1>1, RespondentAnswer, FigmaAnswer, NetworkAnswer DEF Next

(***************************************************************************)
(* The thank-you screen is never false (ThankYouIsStored), however answers *)
(* are lost, sent again or late, whatever the instruments and the bounds.  *)
(***************************************************************************)
THEOREM ThankYouCorrect == Spec => []ThankYouIsStored
<1>1. Init => Answer
  BY DEF Init, Answer, ThankYouIsStored, InFlight, NoRequest
<1>2. Answer => ThankYouIsStored
  BY DEF Answer
<1> QED BY <1>1, AnswerStep, <1>2, PTL DEF Spec

(***************************************************************************)
(* The way back.  The history is a sequence of codes, empty wherever Back  *)
(* and the viewport lead, ordered, and not beyond the question shown.      *)
(***************************************************************************)
Way ==
  /\ def \in Definitions
  /\ current \in {0} \cup Codes(def)
  /\ phase = "question" => current \in Codes(def)
  /\ history \in Seq(Codes(def))
  /\ phase \in {"intro", "away"} => history = <<>>
  /\ HistoryOrdered

LEMMA WayUntouched ==
  ASSUME Way, def' = def, history' = history, current' = current,
         phase' = phase \/ phase' \in {"done", "disqualified"}
  PROVE  Way'
BY DEF Way, HistoryOrdered, Codes

LEMMA CodesAreNat == ASSUME Way PROVE Codes(def) \subseteq Nat \ {0}
BY InNumbers DEF Way, Codes

LEMMA FreshWay == ASSUME Way, def' = def, NEW p, p # "question", Fresh(p) PROVE Way'
BY DEF Way, Fresh, HistoryOrdered, Codes

\* A code put at the end of the way keeps the order when none is beyond it.
LEMMA OrderedAppend ==
  ASSUME NEW C, C \subseteq Nat, NEW s \in Seq(C), NEW c \in C,
         \A j, k \in DOMAIN s : j <= k => s[j] <= s[k],
         \A k \in DOMAIN s : s[k] <= c
  PROVE  /\ Append(s, c) \in Seq(C)
         /\ \A j, k \in DOMAIN Append(s, c) : j <= k => Append(s, c)[j] <= Append(s, c)[k]
         /\ \A k \in DOMAIN Append(s, c) : Append(s, c)[k] <= c
<1>1. /\ Append(s, c) \in Seq(C) /\ DOMAIN Append(s, c) = 1 .. Len(s) + 1
      /\ \A k \in 1 .. Len(s) : Append(s, c)[k] = s[k]
      /\ Append(s, c)[Len(s) + 1] = c
      /\ DOMAIN s = 1 .. Len(s) /\ Len(s) \in Nat
  OBVIOUS
<1>2. \A k \in 1 .. Len(s) + 1 : k \in 1 .. Len(s) \/ k = Len(s) + 1
  BY <1>1
<1>3. \A k \in DOMAIN Append(s, c) : Append(s, c)[k] <= c
  BY <1>1, <1>2
<1>4. ASSUME NEW j \in 1 .. Len(s) + 1, NEW k \in 1 .. Len(s) + 1, j <= k
      PROVE  Append(s, c)[j] <= Append(s, c)[k]
  <2>1. CASE k = Len(s) + 1
    BY <2>1, <1>1, <1>3
  <2>2. CASE k \in 1 .. Len(s)
    <3>1. j \in 1 .. Len(s)
      BY <2>2, <1>1, <1>4
    <3> QED BY <2>2, <3>1, <1>1, <1>4
  <2> QED BY <2>1, <2>2, <1>2
<1> QED BY <1>1, <1>3, <1>4

LEMMA OrderedFront ==
  ASSUME NEW C, C \subseteq Nat, NEW s \in Seq(C), s # <<>>,
         \A j, k \in DOMAIN s : j <= k => s[j] <= s[k]
  PROVE  LET t == SubSeq(s, 1, Len(s) - 1) IN
         /\ t \in Seq(C) /\ s[Len(s)] \in C
         /\ \A j, k \in DOMAIN t : j <= k => t[j] <= t[k]
         /\ \A k \in DOMAIN t : t[k] <= s[Len(s)]
<1> DEFINE t == SubSeq(s, 1, Len(s) - 1)
<1>1. Len(s) \in Nat \ {0} /\ DOMAIN s = 1 .. Len(s)
  OBVIOUS
<1>2. /\ t \in Seq(C) /\ DOMAIN t = 1 .. Len(s) - 1
      /\ \A k \in 1 .. Len(s) - 1 : t[k] = s[k]
  BY <1>1
<1>3. \A k \in 1 .. Len(s) - 1 : k \in DOMAIN s /\ k <= Len(s)
  BY <1>1
<1>4. Len(s) \in DOMAIN s /\ s[Len(s)] \in C
  BY <1>1
<1> QED BY <1>1, <1>2, <1>3, <1>4

LEMMA GoNextWay ==
  ASSUME Way, NEW from \in {0} \cup Codes(def), NEW given, NEW past,
         GoNext(from, given, past),
         past \in Seq(Codes(def)),
         \A j, k \in DOMAIN past : j <= k => past[j] <= past[k],
         \A k \in DOMAIN past : past[k] <= from,
         phase \in {"intro", "away"} => past = <<>>,
         phase = "question" => current = from
  PROVE  Way'
<1> DEFINE step == NextStep(def, from, given)
<1>0. Codes(def) \subseteq Nat
  BY CodesAreNat
<1>1. def' = def /\ history' = past
  BY DEF GoNext
<1>2. CASE step.kind = "question"
  <2>1. step.code \in Codes(def) /\ step.code > from
    BY <1>2, StepIsAhead DEF Way
  <2>2. phase' = "question" /\ current' = step.code
    BY <1>2 DEF GoNext, Show
  <2>3. \A k \in DOMAIN past : past[k] \in Nat
    BY <1>0
  <2>4. \A k \in DOMAIN past : past[k] <= step.code
    BY <2>1, <2>3, <1>0
  <2> HIDE DEF step
  <2> QED BY <1>1, <2>1, <2>2, <2>4 DEF Way, HistoryOrdered, Codes
<1>3. CASE step.kind # "question"
  <2>1. phase' = phase /\ current' = current
    BY <1>3 DEF GoNext
  <2> QED BY <1>1, <2>1 DEF Way, HistoryOrdered, Codes
<1> QED BY <1>2, <1>3

LEMMA RespondentWay == ASSUME Way, Respondent PROVE Way'
<1>0. Codes(def) \subseteq Nat
  BY CodesAreNat
<1>1. CASE Start
  <2>1. phase = "intro" /\ history = <<>> /\ GoNext(0, answers, history)
    BY <1>1 DEF Start, Way
  <2>2. /\ history \in Seq(Codes(def)) /\ DOMAIN history = {}
        /\ phase # "question"
    BY <2>1 DEF Way
  <2> QED BY <2>1, <2>2, GoNextWay
<1>2. CASE Next_
  <2> DEFINE given == WithRanking(answers)
             past  == Append(history, current)
  <2>1. phase = "question" /\ current \in Codes(def) /\ GoNext(current, given, past)
    BY <1>2 DEF Next_, Way
  <2>2. /\ history \in Seq(Codes(def))
        /\ \A j, k \in DOMAIN history : j <= k => history[j] <= history[k]
        /\ \A k \in DOMAIN history : history[k] <= current
    BY <2>1 DEF Way, HistoryOrdered
  <2>3. /\ past \in Seq(Codes(def))
        /\ \A j, k \in DOMAIN past : j <= k => past[j] <= past[k]
        /\ \A k \in DOMAIN past : past[k] <= current
    BY <1>0, <2>1, <2>2, OrderedAppend
  <2> HIDE DEF given, past
  <2> QED BY <2>1, <2>3, GoNextWay
<1>3. CASE Back
  <2>1. CASE history = <<>>
    <3>1. /\ phase' = "intro" /\ current' = 0 /\ history' = <<>> /\ def' = def
      BY <1>3, <2>1 DEF Back, Show
    <3> QED BY <3>1 DEF Way, HistoryOrdered, Codes
  <2>2. CASE history # <<>>
    <3> DEFINE t == SubSeq(history, 1, Len(history) - 1)
               c == history[Len(history)]
    <3>1. /\ phase' = "question" /\ current' = c /\ history' = t /\ def' = def
      BY <1>3, <2>2 DEF Back, Show
    <3>2. /\ history \in Seq(Codes(def))
          /\ \A j, k \in DOMAIN history : j <= k => history[j] <= history[k]
      BY DEF Way, HistoryOrdered
    <3>3. /\ t \in Seq(Codes(def)) /\ c \in Codes(def)
          /\ \A j, k \in DOMAIN t : j <= k => t[j] <= t[k]
          /\ \A k \in DOMAIN t : t[k] <= c
      BY <1>0, <2>2, <3>2, OrderedFront
    <3> HIDE DEF t, c
    <3> QED BY <3>1, <3>3 DEF Way, HistoryOrdered, Codes
  <2> QED BY <2>1, <2>2
<1>4. CASE ChangeAnswer
  BY <1>4, WayUntouched DEF ChangeAnswer
<1>5. CASE \E odd \in Measures, k \in {1, 2} : ClickStimulus(k, odd)
  BY <1>5, WayUntouched DEF ClickStimulus
<1>6. CASE ConsentToFigma
  BY <1>6, WayUntouched DEF ConsentToFigma
<1>7. CASE ViewportDenied
  BY <1>7, FreshWay DEF ViewportDenied
<1>8. CASE ViewportAllowed
  BY <1>8, FreshWay DEF ViewportAllowed
<1> QED BY <1>1, <1>2, <1>3, <1>4, <1>5, <1>6, <1>7, <1>8 DEF Respondent

LEMMA FigmaWay == ASSUME Way, Figma PROVE Way'
<1>1. CASE FigmaLoaded
  BY <1>1, WayUntouched DEF FigmaLoaded, FigmaFrame
<1>2. CASE \E f \in Presented : FigmaFrame(f)
  BY <1>2, WayUntouched DEF FigmaFrame
<1>3. CASE \E event \in {"prototype_click", "prototype_status"}, odd \in Measures :
             FigmaOther(event, odd)
  BY <1>3, WayUntouched DEF FigmaOther
<1> QED BY <1>1, <1>2, <1>3 DEF Figma

LEMMA NetworkWay == ASSUME Way, Network PROVE Way'
<1>1. CASE EnsureStarted \/ SendCompletion \/ CompleteResponse \/ SubmissionFails
  BY <1>1, WayUntouched
     DEF EnsureStarted, SendCompletion, CompleteResponse, SubmissionFails, browser
<1>2. CASE SubmissionSucceeds
  <2>1. /\ def' = def /\ history' = history /\ current' = current
        /\ phase' = phase \/ phase' \in {"done", "disqualified"}
    BY <1>2 DEF SubmissionSucceeds, Show
  <2> QED BY <2>1, WayUntouched
<1> QED BY <1>1, <1>2 DEF Network

(***************************************************************************)
(* Back retraces the order of the instrument (HistoryOrdered), since every *)
(* step of the flow is ahead and Back takes the newest question.           *)
(***************************************************************************)
THEOREM HistoryOrderedCorrect == Spec => []HistoryOrdered
<1>1. Init => Way
  <2> SUFFICES ASSUME Init PROVE Way
    OBVIOUS
  <2>1. /\ def \in Definitions /\ phase = "intro" /\ current = 0 /\ history = <<>>
    BY DEF Init
  <2> QED BY <2>1 DEF Way, HistoryOrdered
<1>2. Way /\ [Next]_vars => Way'
  <2> SUFFICES ASSUME Way, [Next]_vars PROVE Way'
    OBVIOUS
  <2>1. CASE UNCHANGED vars
    BY <2>1, WayUntouched DEF vars, browser
  <2> QED BY <2>1, RespondentWay, FigmaWay, NetworkWay DEF Next
<1>3. Way => HistoryOrdered
  BY DEF Way
<1> QED BY <1>1, <1>2, <1>3, PTL DEF Spec
-----------------------------------------------------------------------------
(***************************************************************************)
(* What the flow looks at.  A published condition names an earlier         *)
(* question, so two lists of answers that agree up to the next question    *)
(* lead to the same one.                                                   *)
(***************************************************************************)
Agree(d, a, b, n) == \A c \in Codes(d) : c < n => a[c] = b[c]

LEMMA SameCondition ==
  ASSUME NEW c, NEW a, NEW b, a[c.q] = b[c.q]
  PROVE  EvaluateCondition(c, a) = EvaluateCondition(c, b)
BY DEF EvaluateCondition

LEMMA SameConditions ==
  ASSUME NEW d, NEW a, NEW b, NEW n, Agree(d, a, b, n), NEW conds,
         \A k \in DOMAIN conds : conds[k].q \in Codes(d) /\ conds[k].q < n
  PROVE  /\ ConditionsHold(conds, a) = ConditionsHold(conds, b)
         /\ \A mode : DisplayConditionsHold(conds, a, mode) = DisplayConditionsHold(conds, b, mode)
<1>1. \A k \in DOMAIN conds : EvaluateCondition(conds[k], a) = EvaluateCondition(conds[k], b)
  BY SameCondition DEF Agree
<1>2. {k \in DOMAIN conds : EvaluateCondition(conds[k], a) # conds[k].hide}
        = {k \in DOMAIN conds : EvaluateCondition(conds[k], b) # conds[k].hide}
  BY Zenon, <1>1
<1>3. ConditionsHold(conds, a) = ConditionsHold(conds, b)
  BY Zenon, <1>1 DEF ConditionsHold
<1>4. ASSUME NEW mode PROVE DisplayConditionsHold(conds, a, mode) = DisplayConditionsHold(conds, b, mode)
  BY Zenon, <1>2 DEF DisplayConditionsHold
<1> QED BY <1>3, <1>4

LEMMA BlockIsBefore ==
  ASSUME NEW d \in Definitions, NEW j \in Codes(d)
  PROVE  BlockStart(d, d.questions[j].block) \in Nat /\ BlockStart(d, d.questions[j].block) <= j
<1> DEFINE S == {i \in Codes(d) : d.questions[i].block < d.questions[j].block}
<1>1. /\ Codes(d) \subseteq Nat \ {0} /\ DOMAIN d.blocks \subseteq Nat
      /\ \A i \in Codes(d) : d.questions[i].block \in DOMAIN d.blocks
      /\ \A i, k \in Codes(d) : i <= k => d.questions[i].block <= d.questions[k].block
  BY InNumbers DEF Codes
<1>2. ASSUME NEW i \in S PROVE i \in 1 .. j - 1
  <2>1. i \in Nat \ {0} /\ j \in Nat \ {0}
    BY <1>1
  <2>2. d.questions[i].block \in Nat /\ d.questions[j].block \in Nat
    BY <1>1
  <2>3. ~(j <= i)
    <3>1. d.questions[i].block < d.questions[j].block
      OBVIOUS
    <3>2. j <= i => d.questions[j].block <= d.questions[i].block
      BY <1>1
    <3> QED BY <2>2, <3>1, <3>2
  <2> QED BY <2>1, <2>3
<1>3. S \in SUBSET (1 .. j - 1)
  BY <1>2
<1>4. j - 1 \in Nat /\ 1 \in Int /\ j - 1 \in Int
  BY <1>1
<1> HIDE DEF S
<1>5. /\ IsFiniteSet(1 .. j - 1)
      /\ Cardinality(1 .. j - 1) = IF 1 > j - 1 THEN 0 ELSE (j - 1) - 1 + 1
  BY Zenon, <1>4, FS_Interval
<1>6. IsFiniteSet(S) /\ Cardinality(S) <= Cardinality(1 .. j - 1)
  BY <1>3, <1>5, FS_Subset
<1>7. Cardinality(S) \in Nat /\ Cardinality(S) <= j - 1
  <2>1. Cardinality(S) \in Nat
    BY <1>6, FS_CardinalityType
  <2> QED BY <1>4, <1>5, <1>6, <2>1
<1>8. BlockStart(d, d.questions[j].block) = 1 + Cardinality(S)
  BY DEF BlockStart, S
<1> QED BY <1>1, <1>7, <1>8

LEMMA SameVisible ==
  ASSUME NEW d \in Definitions, Publishable(d), NEW a, NEW b, NEW n, Agree(d, a, b, n),
         NEW j \in Codes(d), n \in Nat, j <= n
  PROVE  Visible(d, j, a) = Visible(d, j, b)
<1> DEFINE q == d.questions[j]
<1> DEFINE block == d.blocks[q.block]
<1>0. Codes(d) \subseteq Nat \ {0}
  BY InNumbers DEF Codes
<1>1. \A k \in DOMAIN q.visibleIf : q.visibleIf[k].q \in Codes(d) /\ q.visibleIf[k].q < j
  BY DEF Publishable, DisplayConditionOK, EarlierVisible
<1>2. \A k \in DOMAIN block.visibleIf :
         block.visibleIf[k].q \in Codes(d) /\ block.visibleIf[k].q < BlockStart(d, q.block)
  <2>1. q.block \in DOMAIN d.blocks
    BY InNumbers DEF Codes
  <2> QED BY <2>1 DEF Publishable, DisplayConditionOK, EarlierVisible
<1>3. BlockStart(d, q.block) \in Nat /\ BlockStart(d, q.block) <= j
  BY BlockIsBefore
<1>4. \A m \in Nat : \A c \in Codes(d) : m <= j /\ c < m => c < n
  BY <1>0
<1>5. \A k \in DOMAIN q.visibleIf : q.visibleIf[k].q \in Codes(d) /\ q.visibleIf[k].q < n
  BY <1>0, <1>1, <1>4
<1>6. \A k \in DOMAIN block.visibleIf : block.visibleIf[k].q \in Codes(d) /\ block.visibleIf[k].q < n
  BY <1>2, <1>3, <1>4
<1>7. \A mode : DisplayConditionsHold(q.visibleIf, a, mode) = DisplayConditionsHold(q.visibleIf, b, mode)
  BY <1>5, SameConditions
<1>8. \A mode : DisplayConditionsHold(block.visibleIf, a, mode) = DisplayConditionsHold(block.visibleIf, b, mode)
  BY <1>6, SameConditions
<1> QED BY Zenon, <1>7, <1>8 DEF Visible, Displayed

LEMMA SameDeciding ==
  ASSUME NEW d \in Definitions, Publishable(d), NEW a, NEW b, NEW i \in Codes(d), Agree(d, a, b, i + 1)
  PROVE  Deciding(d, i, a) = Deciding(d, i, b)
<1> DEFINE rules == d.questions[i].branches
<1>1. ASSUME NEW k \in DOMAIN rules PROVE ConditionsHold(rules[k].when, a) = ConditionsHold(rules[k].when, b)
  <2>1. \A m \in DOMAIN rules[k].when : rules[k].when[m].q \in Codes(d) /\ rules[k].when[m].q < i + 1
    BY DEF Publishable, BranchOK, EarlierVisible
  <2> QED BY <2>1, SameConditions
<1> QED BY Zenon, <1>1 DEF Deciding

(* The next question by a is the next one by b, when they agree before it. *)
LEMMA SameFirst ==
  ASSUME NEW d \in Definitions, Publishable(d), NEW a, NEW b, NEW start \in Nat,
         FirstVisibleFrom(d, start, a).kind = "question",
         Agree(d, a, b, FirstVisibleFrom(d, start, a).code)
  PROVE  FirstVisibleFrom(d, start, b) = FirstVisibleFrom(d, start, a)
<1> DEFINE S == {i \in Codes(d) : i >= start /\ Visible(d, i, a)}
<1> DEFINE T == {i \in Codes(d) : i >= start /\ Visible(d, i, b)}
<1>0. Codes(d) \subseteq Nat \ {0}
  BY InNumbers DEF Codes
<1>1. FirstVisibleFrom(d, start, a) = FirstOf(S) /\ FirstVisibleFrom(d, start, b) = FirstOf(T)
  BY DEF FirstVisibleFrom
<1>2. S # {} /\ S \subseteq Nat /\ T \subseteq Nat
  BY <1>0, <1>1 DEF FirstOf, EndStep
<1> DEFINE r == Least(S)
<1>3. r \in S /\ \A j \in S : r <= j
  BY <1>2, LeastIsLeast
<1>4. FirstVisibleFrom(d, start, a) = QuestionStep(r) /\ FirstVisibleFrom(d, start, a).code = r
  BY <1>1, <1>2 DEF FirstOf, QuestionStep
<1>5. \A j \in Codes(d) : j <= r => Visible(d, j, a) = Visible(d, j, b)
  BY <1>0, <1>3, <1>4, SameVisible
<1>6. r \in T /\ \A j \in T : r <= j
  <2>1. r \in Codes(d) /\ r \in Nat
    BY <1>0, <1>3
  <2>2. r \in T
    BY <1>3, <1>5, <2>1
  <2>3. ASSUME NEW j \in T, ~(r <= j) PROVE FALSE
    <3>1. j \in Codes(d) /\ j \in Nat /\ j <= r
      BY <1>0, <2>1, <2>3
    <3>2. j \in S
      BY <1>5, <3>1
    <3> QED BY <1>3, <2>3, <3>2
  <2> QED BY <2>2, <2>3
<1> HIDE DEF S, T
<1>7. Least(T) \in T /\ \A j \in T : Least(T) <= j
  BY <1>2, <1>6, LeastIsLeast
<1>8. Least(T) = r
  <2>1. Least(T) \in Nat /\ r \in Nat /\ Least(T) <= r /\ r <= Least(T)
    BY <1>2, <1>3, <1>6, <1>7
  <2> QED BY <2>1
<1>9. T # {}
  BY <1>6
<1> QED BY <1>1, <1>4, <1>8, <1>9 DEF FirstOf

LEMMA SameStep ==
  ASSUME NEW d \in Definitions, Publishable(d), NEW a, NEW b, NEW i \in {0} \cup Codes(d),
         Agree(d, a, b, i + 1),
         IF NextStep(d, i, a).kind = "question" THEN Agree(d, a, b, NextStep(d, i, a).code) ELSE a = b
  PROVE  NextStep(d, i, b) = NextStep(d, i, a)
<1>0. /\ Codes(d) \subseteq Nat \ {0}
      /\ \A j \in Codes(d) : DOMAIN d.questions[j].branches \subseteq Nat
  BY InNumbers DEF Codes
<1> DEFINE next(x) == IF i = 0 THEN 1
                      ELSE Target(d.questions[i].branches, i, Deciding(d, i, x))
<1>1. NextStep(d, i, a) = Follow(d, next(a), a) /\ NextStep(d, i, b) = Follow(d, next(b), b)
  BY DEF NextStep
<1>2. next(b) = next(a)
  <2>1. CASE i = 0
    BY <2>1
  <2>2. CASE i \in Codes(d)
    <3>1. Deciding(d, i, a) = Deciding(d, i, b)
      BY <2>2, SameDeciding
    <3> QED BY <3>1
  <2> QED BY <2>1, <2>2
<1> DEFINE n == next(a)
<1>3. CASE a = b
  BY <1>1, <1>3
<1>4. CASE NextStep(d, i, a).kind = "question"
  <2>1. n \notin {END, DISQUALIFY}
    BY <1>1, <1>4 DEF Follow, EndStep, DisqualifyStep
  <2>2. NextStep(d, i, a) = FirstVisibleFrom(d, n, a) /\ NextStep(d, i, b) = FirstVisibleFrom(d, n, b)
    BY <1>1, <1>2, <2>1 DEF Follow
  <2>3. n \in Nat
    <3>1. CASE i = 0
      BY <3>1
    <3>2. CASE i # 0 /\ Deciding(d, i, a) = {}
      BY <1>0, <3>2 DEF Target
    <3>3. CASE i # 0 /\ Deciding(d, i, a) # {}
      <4>1. Deciding(d, i, a) \subseteq Nat
        BY <1>0, <3>3 DEF Deciding
      <4>2. Least(Deciding(d, i, a)) \in Deciding(d, i, a)
        BY <3>3, <4>1, LeastIsLeast
      <4>3. n = d.questions[i].branches[Least(Deciding(d, i, a))].goTo
        BY <3>3 DEF Target
      <4> QED BY <1>0, <2>1, <4>2, <4>3 DEF Deciding
    <3> QED BY <3>1, <3>2, <3>3
  <2> HIDE DEF n
  <2> QED BY <1>4, <2>2, <2>3, SameFirst
<1> QED BY <1>3, <1>4
-----------------------------------------------------------------------------
(***************************************************************************)
(* The two walks.  The respondent's path and the one the server rebuilds   *)
(* exist as functions of the number of steps.                              *)
(***************************************************************************)
Begins(d, a) == [codes |-> {}, step |-> NextStep(d, 0, a)]
Walks(d, a, n, f) == f = [k \in 0 .. n |-> IF k = 0 THEN Begins(d, a) ELSE Advance(d, a, f[k - 1])]

Nothing(d) == [i \in Codes(d) |-> Missing]
Rebegins(d) == [step |-> NextStep(d, 0, Nothing(d)), codes |-> {}, answers |-> Nothing(d), ok |-> TRUE]
Rebuilds(d, sent, n, f) ==
  f = [k \in 0 .. n |-> IF k = 0 THEN Rebegins(d) ELSE Rebuild(d, sent, f[k - 1], f[k - 1].step.code)]

LEMMA WalksOn ==
  ASSUME NEW d, NEW a, NEW n \in Nat, NEW f, Walks(d, a, n, f) PROVE \E g : Walks(d, a, n + 1, g)
<1> DEFINE g == [k \in 0 .. n + 1 |-> IF k <= n THEN f[k] ELSE Advance(d, a, f[n])]
<1>1. ASSUME NEW k \in 0 .. n PROVE f[k] = IF k = 0 THEN Begins(d, a) ELSE Advance(d, a, f[k - 1])
  BY Zenon DEF Walks
<1>2. ASSUME NEW k \in 0 .. n + 1 PROVE g[k] = IF k = 0 THEN Begins(d, a) ELSE Advance(d, a, g[k - 1])
  <2>1. CASE k <= n
    <3>1. g[k] = f[k] /\ k \in 0 .. n /\ (k # 0 => g[k - 1] = f[k - 1])
      BY <2>1
    <3> HIDE DEF g
    <3> QED BY <1>1, <3>1
  <2>2. CASE ~(k <= n)
    <3>1. k = n + 1 /\ k - 1 = n /\ k # 0
      BY <2>2
    <3>2. g[k] = Advance(d, a, f[n]) /\ g[n] = f[n]
      BY <2>2, <3>1
    <3> HIDE DEF g
    <3> QED BY <3>1, <3>2
  <2> QED BY <2>1, <2>2
<1>3. g = [k \in 0 .. n + 1 |-> g[k]]
  OBVIOUS
<1> HIDE DEF g
<1>4. g = [k \in 0 .. n + 1 |-> IF k = 0 THEN Begins(d, a) ELSE Advance(d, a, g[k - 1])]
  BY Zenon, <1>2, <1>3
<1> QED BY Zenon, <1>4 DEF Walks

LEMMA RebuildsOn ==
  ASSUME NEW d, NEW a, NEW n \in Nat, NEW f, Rebuilds(d, a, n, f) PROVE \E g : Rebuilds(d, a, n + 1, g)
<1> DEFINE g == [k \in 0 .. n + 1 |-> IF k <= n THEN f[k] ELSE Rebuild(d, a, f[n], f[n].step.code)]
<1>1. ASSUME NEW k \in 0 .. n
      PROVE  f[k] = IF k = 0 THEN Rebegins(d) ELSE Rebuild(d, a, f[k - 1], f[k - 1].step.code)
  BY Zenon DEF Rebuilds
<1>2. ASSUME NEW k \in 0 .. n + 1
      PROVE  g[k] = IF k = 0 THEN Rebegins(d) ELSE Rebuild(d, a, g[k - 1], g[k - 1].step.code)
  <2>1. CASE k <= n
    <3>1. g[k] = f[k] /\ k \in 0 .. n /\ (k # 0 => g[k - 1] = f[k - 1])
      BY <2>1
    <3> HIDE DEF g
    <3> QED BY <1>1, <3>1
  <2>2. CASE ~(k <= n)
    <3>1. k = n + 1 /\ k - 1 = n /\ k # 0
      BY <2>2
    <3>2. g[k] = Rebuild(d, a, f[n], f[n].step.code) /\ g[n] = f[n]
      BY <2>2, <3>1
    <3> HIDE DEF g
    <3> QED BY <3>1, <3>2
  <2> QED BY <2>1, <2>2
<1>3. g = [k \in 0 .. n + 1 |-> g[k]]
  OBVIOUS
<1> HIDE DEF g
<1>4. g = [k \in 0 .. n + 1 |-> IF k = 0 THEN Rebegins(d) ELSE Rebuild(d, a, g[k - 1], g[k - 1].step.code)]
  BY Zenon, <1>2, <1>3
<1> QED BY Zenon, <1>4 DEF Rebuilds

LEMMA LeastOfBad ==
  ASSUME NEW S, S \subseteq Nat, S # {}
  PROVE  0 \in S \/ \E k \in Nat : k \notin S /\ k + 1 \in S
<1>1. PICK m \in S : \A j \in S : m <= j
  BY LeastIsLeast
<1>2. CASE m # 0
  <2>1. m \in Nat /\ m - 1 \in Nat /\ (m - 1) + 1 = m /\ ~(m <= m - 1)
    BY <1>1, <1>2
  <2>2. m - 1 \notin S
    BY <1>1, <2>1
  <2> QED BY <1>1, <2>1, <2>2
<1> QED BY <1>1, <1>2

LEMMA WalkExists == ASSUME NEW d, NEW a, NEW n \in Nat PROVE \E f : Walks(d, a, n, f)
<1> DEFINE S == {k \in Nat : ~\E f : Walks(d, a, k, f)}
<1>1. 0 \notin S
  <2> DEFINE f == [k \in 0 .. 0 |-> Begins(d, a)]
  <2>1. f = [k \in 0 .. 0 |-> IF k = 0 THEN Begins(d, a) ELSE Advance(d, a, f[k - 1])]
    OBVIOUS
  <2> HIDE DEF f
  <2>2. Walks(d, a, 0, f)
    BY Zenon, <2>1 DEF Walks
  <2> QED BY <2>2
<1>2. \A k \in Nat : k \notin S => k + 1 \notin S
  BY WalksOn
<1>3. S \subseteq Nat
  OBVIOUS
<1>4. S = {}
  <2> HIDE DEF S
  <2> QED BY <1>1, <1>2, <1>3, LeastOfBad
<1> QED BY <1>4

LEMMA RebuildExists == ASSUME NEW d, NEW a, NEW n \in Nat PROVE \E f : Rebuilds(d, a, n, f)
<1> DEFINE S == {k \in Nat : ~\E f : Rebuilds(d, a, k, f)}
<1>1. 0 \notin S
  <2> DEFINE f == [k \in 0 .. 0 |-> Rebegins(d)]
  <2>1. f = [k \in 0 .. 0 |-> IF k = 0 THEN Rebegins(d) ELSE Rebuild(d, a, f[k - 1], f[k - 1].step.code)]
    OBVIOUS
  <2> HIDE DEF f
  <2>2. Rebuilds(d, a, 0, f)
    BY Zenon, <2>1 DEF Rebuilds
  <2> QED BY <2>2
<1>2. \A k \in Nat : k \notin S => k + 1 \notin S
  BY RebuildsOn
<1>3. S \subseteq Nat
  OBVIOUS
<1>4. S = {}
  <2> HIDE DEF S
  <2> QED BY <1>1, <1>2, <1>3, LeastOfBad
<1> QED BY <1>4

LEMMA VisiblePathWalks ==
  ASSUME NEW d, NEW a, NEW n \in Nat, n = Len(d.questions)
  PROVE  \E f : Walks(d, a, n, f) /\ VisiblePath(d, a) = f[n]
<1>1. \E f : Walks(d, a, n, f)
  BY WalkExists
<1> DEFINE w == CHOOSE f : f = [k \in 0 .. n |-> IF k = 0 THEN Begins(d, a) ELSE Advance(d, a, f[k - 1])]
<1>2. w = [k \in 0 .. n |-> IF k = 0 THEN Begins(d, a) ELSE Advance(d, a, w[k - 1])]
  BY Zenon, <1>1 DEF Walks
<1>3. VisiblePath(d, a) = w[n]
  BY Zenon DEF VisiblePath, Begins
<1> HIDE DEF w
<1>4. Walks(d, a, n, w)
  BY Zenon, <1>2 DEF Walks
<1> QED BY <1>3, <1>4

LEMMA RebuiltPathWalks ==
  ASSUME NEW d, NEW a, NEW n \in Nat, n = Len(d.questions)
  PROVE  \E f : Rebuilds(d, a, n, f) /\ RebuiltPath(d, a) = f[n]
<1>1. \E f : Rebuilds(d, a, n, f)
  BY RebuildExists
<1> DEFINE w == CHOOSE f : f = [k \in 0 .. n |-> IF k = 0 THEN Rebegins(d)
                                               ELSE Rebuild(d, a, f[k - 1], f[k - 1].step.code)]
<1>2. w = [k \in 0 .. n |-> IF k = 0 THEN Rebegins(d) ELSE Rebuild(d, a, w[k - 1], w[k - 1].step.code)]
  BY Zenon, <1>1 DEF Rebuilds
<1>3. RebuiltPath(d, a) = w[n]
  BY Zenon DEF RebuiltPath, Rebegins, Nothing
<1> HIDE DEF w
<1>4. Rebuilds(d, a, n, w)
  BY Zenon, <1>2 DEF Rebuilds
<1> QED BY <1>3, <1>4
-----------------------------------------------------------------------------
(***************************************************************************)
(* What the server has rebuilt after some steps (Sound), and how that is   *)
(* related to what it has after more of them (Later).                      *)
(***************************************************************************)
Sound(d, sent, p) ==
  /\ p.codes \subseteq Codes(d) /\ DOMAIN p.answers = Codes(d)
  /\ \A i \in Codes(d) : /\ p.answers[i] \in {Missing, sent[i]}
                         /\ i \notin p.codes => p.answers[i] = Missing
  /\ p.ok => \A i \in p.codes : ~Lacking(d.questions[i], p.answers[i])
  /\ p.step.kind = "question" => p.step.code \in Codes(d) /\ \A c \in p.codes : c < p.step.code

Later(d, p, w) ==
  IF p.step.kind # "question" THEN w = p
  ELSE /\ p.codes \subseteq w.codes /\ \A c \in p.codes : w.answers[c] = p.answers[c]
       /\ \A c \in w.codes \ p.codes : p.step.code <= c
       /\ w.step.kind = "question" => p.step.code <= w.step.code

LEMMA RebuildStep ==
  ASSUME NEW d \in Definitions, NEW sent, NEW p, Sound(d, sent, p), p.step.kind = "question",
         NEW r, r = Rebuild(d, sent, p, p.step.code)
  PROVE  /\ Sound(d, sent, r) /\ r.codes = p.codes \cup {p.step.code}
         /\ r.step = NextStep(d, p.step.code, r.answers)
         /\ \A c \in p.codes : r.answers[c] = p.answers[c]
         /\ r.step.kind = "question" => p.step.code < r.step.code
<1> DEFINE i == p.step.code
<1>0. Codes(d) \subseteq Nat \ {0} /\ i \in Codes(d)
  BY InNumbers DEF Codes, Sound
<1>1. i \notin p.codes
  BY <1>0 DEF Sound
<1>2. /\ r.codes = p.codes \cup {i} /\ r.step = NextStep(d, i, r.answers)
      /\ \/ Lacking(d.questions[i], sent[i]) /\ r.answers = p.answers /\ ~r.ok
         \/ /\ ~Lacking(d.questions[i], sent[i]) /\ (r.ok => p.ok)
            /\ r.answers = [p.answers EXCEPT ![i] = sent[i]]
  <2>1. CASE Lacking(d.questions[i], sent[i])
    <3>1. r = Onward(d, p, i, TRUE, p.answers)
      BY Zenon, <2>1 DEF Rebuild
    <3>2. /\ r.codes = p.codes \cup {i} /\ r.answers = p.answers /\ r.step = NextStep(d, i, p.answers)
          /\ r.ok = (p.ok /\ ~TRUE)
      BY <3>1 DEF Onward
    <3>3. ~r.ok
      BY Zenon, <3>2
    <3> QED BY Zenon, <2>1, <3>2, <3>3
  <2>2. CASE ~Lacking(d.questions[i], sent[i])
    <3> DEFINE kept == [p.answers EXCEPT ![i] = sent[i]]
    <3>1. r = Onward(d, p, i, FALSE, kept)
      BY Zenon, <2>2 DEF Rebuild
    <3> HIDE DEF kept
    <3>2. /\ r.codes = p.codes \cup {i} /\ r.answers = kept /\ r.step = NextStep(d, i, kept)
          /\ r.ok = (p.ok /\ ~FALSE)
      BY <3>1 DEF Onward
    <3>3. r.ok => p.ok
      BY Zenon, <3>2
    <3> QED BY Zenon, <2>2, <3>2, <3>3 DEF kept
  <2> QED BY <2>1, <2>2
<1>3. /\ DOMAIN r.answers = Codes(d) /\ \A c \in Codes(d) : c # i => r.answers[c] = p.answers[c]
      /\ r.answers[i] \in {Missing, sent[i]} /\ (r.ok => p.ok /\ ~Lacking(d.questions[i], r.answers[i]))
  BY <1>0, <1>1, <1>2 DEF Sound
<1>4. r.step.kind = "question" => r.step.code \in Codes(d) /\ i < r.step.code
  BY <1>0, <1>2, StepIsAhead
<1>5. r.step.kind = "question" => \A c \in r.codes : c < r.step.code
  BY <1>0, <1>2, <1>4 DEF Sound
<1>6. r.codes \subseteq Codes(d)
  BY <1>0, <1>2 DEF Sound
<1>7. \A c \in Codes(d) : /\ r.answers[c] \in {Missing, sent[c]}
                          /\ c \notin r.codes => r.answers[c] = Missing
  BY <1>2, <1>3 DEF Sound
<1>8. r.ok => \A c \in r.codes : ~Lacking(d.questions[c], r.answers[c])
  BY <1>0, <1>1, <1>2, <1>3 DEF Sound
<1>9. Sound(d, sent, r)
  BY <1>3, <1>4, <1>5, <1>6, <1>7, <1>8 DEF Sound
<1>10. \A c \in p.codes : r.answers[c] = p.answers[c]
  BY <1>1, <1>3 DEF Sound
<1> QED BY <1>2, <1>4, <1>9, <1>10

LEMMA StillLater ==
  ASSUME NEW d \in Definitions, NEW sent, NEW p, NEW w, Sound(d, sent, p), Sound(d, sent, w), Later(d, p, w),
         NEW r, r = Rebuild(d, sent, w, w.step.code)
  PROVE  Later(d, p, r)
<1>0. Codes(d) \subseteq Nat \ {0}
  BY InNumbers DEF Codes
<1>1. CASE w.step.kind # "question"
  <2>1. r = w
    BY <1>1 DEF Rebuild
  <2> QED BY <2>1
<1>2. CASE w.step.kind = "question"
  <2>1. /\ r.codes = w.codes \cup {w.step.code} /\ \A c \in w.codes : r.answers[c] = w.answers[c]
        /\ r.step.kind = "question" => w.step.code < r.step.code
        /\ Sound(d, sent, r)
    BY <1>2, RebuildStep
  <2>2. p.step.kind = "question"
    BY <1>2 DEF Later
  <2>3. /\ p.codes \subseteq w.codes /\ \A c \in p.codes : w.answers[c] = p.answers[c]
        /\ \A c \in w.codes \ p.codes : p.step.code <= c
        /\ p.step.code <= w.step.code
    BY <1>2, <2>2 DEF Later
  <2>4. p.step.code \in Nat /\ w.step.code \in Nat /\ (r.step.kind = "question" => r.step.code \in Nat)
    BY <1>0, <1>2, <2>1, <2>2 DEF Sound
  <2>5. p.codes \subseteq r.codes /\ \A c \in p.codes : r.answers[c] = p.answers[c]
    BY <2>1, <2>3
  <2>6. \A c \in r.codes \ p.codes : p.step.code <= c
    BY <2>1, <2>3
  <2>7. r.step.kind = "question" => p.step.code <= r.step.code
    BY <2>1, <2>3, <2>4
  <2> QED BY <2>2, <2>5, <2>6, <2>7 DEF Later
<1> QED BY <1>1, <1>2

LEMMA RebegunSound == ASSUME NEW d \in Definitions, NEW sent PROVE Sound(d, sent, Rebegins(d))
<1> DEFINE p == Rebegins(d)
<1>1. /\ p.codes = {} /\ p.step = NextStep(d, 0, Nothing(d)) /\ p.answers = Nothing(d)
      /\ DOMAIN p.answers = Codes(d) /\ \A i \in Codes(d) : p.answers[i] = Missing
  BY DEF Rebegins, Nothing
<1>2. p.step.kind = "question" => p.step.code \in Codes(d)
  BY <1>1, StepIsAhead
<1> HIDE DEF p
<1> QED BY <1>1, <1>2 DEF Sound, p
-----------------------------------------------------------------------------
LEMMA AgreesOn ==
  ASSUME NEW d \in Definitions, NEW sent, NEW p, NEW w, Sound(d, sent, p), Sound(d, sent, w), Later(d, p, w)
  PROVE  IF p.step.kind = "question" THEN Agree(d, p.answers, w.answers, p.step.code)
         ELSE p.answers = w.answers
<1>0. Codes(d) \subseteq Nat \ {0}
  BY InNumbers DEF Codes
<1>1. CASE p.step.kind # "question"
  BY <1>1 DEF Later
<1>2. CASE p.step.kind = "question"
  <2>1. /\ \A c \in p.codes : w.answers[c] = p.answers[c]
        /\ \A c \in w.codes \ p.codes : p.step.code <= c
    BY <1>2 DEF Later
  <2>2. p.step.code \in Codes(d)
    BY <1>2 DEF Sound
  <2>3. ASSUME NEW c \in Codes(d), c < p.step.code PROVE p.answers[c] = w.answers[c]
    <3>1. CASE c \in p.codes
      BY <2>1, <3>1
    <3>2. CASE c \notin p.codes
      <4>1. c \notin w.codes
        BY <1>0, <2>1, <2>2, <2>3, <3>2
      <4> QED BY <3>2, <4>1 DEF Sound
    <3> QED BY <3>1, <3>2
  <2> QED BY <1>2, <2>3 DEF Agree
<1> QED BY <1>1, <1>2

LEMMA SameNext ==
  ASSUME NEW d \in Definitions, Publishable(d), NEW sent, NEW p, NEW w, Sound(d, sent, p), Sound(d, sent, w),
         Later(d, p, w), NEW i \in {0} \cup Codes(d), p.step = NextStep(d, i, p.answers)
  PROVE  NextStep(d, i, w.answers) = p.step
<1>0. Codes(d) \subseteq Nat \ {0}
  BY InNumbers DEF Codes
<1>1. IF p.step.kind = "question" THEN Agree(d, p.answers, w.answers, p.step.code)
      ELSE p.answers = w.answers
  BY AgreesOn
<1>2. Agree(d, p.answers, w.answers, i + 1)
  <2>1. CASE p.step.kind = "question"
    <3>1. p.step.code \in Codes(d) /\ i < p.step.code
      BY <2>1, StepIsAhead
    <3>2. \A c \in Codes(d) : c < i + 1 => c < p.step.code
      BY <1>0, <3>1
    <3> QED BY <1>1, <2>1, <3>2 DEF Agree
  <2>2. CASE p.step.kind # "question"
    BY <1>1, <2>2 DEF Agree
  <2> QED BY <2>1, <2>2
<1>3. IF NextStep(d, i, p.answers).kind = "question"
      THEN Agree(d, p.answers, w.answers, NextStep(d, i, p.answers).code) ELSE p.answers = w.answers
  BY Zenon, <1>1
<1>4. NextStep(d, i, w.answers) = NextStep(d, i, p.answers)
  BY Zenon, <1>2, <1>3, SameStep
<1> QED BY <1>4

LEMMA AllSound ==
  ASSUME NEW d \in Definitions, NEW sent, NEW n \in Nat, NEW f, Rebuilds(d, sent, n, f)
  PROVE  /\ \A k \in 0 .. n : Sound(d, sent, f[k]) /\ Later(d, f[k], f[n])
         /\ f[0] = Rebegins(d)
         /\ \A k \in 0 .. n - 1 : f[k + 1] = Rebuild(d, sent, f[k], f[k].step.code)
<1>1. \A k \in 0 .. n : f[k] = IF k = 0 THEN Rebegins(d) ELSE Rebuild(d, sent, f[k - 1], f[k - 1].step.code)
  BY Zenon DEF Rebuilds
<1>2. f[0] = Rebegins(d)
  BY <1>1
<1>3. ASSUME NEW k \in Nat, k + 1 <= n PROVE f[k + 1] = Rebuild(d, sent, f[k], f[k].step.code)
  <2>1. k + 1 \in 0 .. n /\ k + 1 # 0 /\ (k + 1) - 1 = k
    BY <1>3
  <2>2. f[k + 1] = Rebuild(d, sent, f[(k + 1) - 1], f[(k + 1) - 1].step.code)
    BY <1>1, <2>1
  <2> QED BY <2>1, <2>2
<1>4. ASSUME NEW k \in Nat, k + 1 <= n, Sound(d, sent, f[k]) PROVE Sound(d, sent, f[k + 1])
  <2>1. f[k + 1] = Rebuild(d, sent, f[k], f[k].step.code)
    BY <1>3, <1>4
  <2>2. CASE f[k].step.kind = "question"
    BY <1>4, <2>1, <2>2, RebuildStep
  <2>3. CASE f[k].step.kind # "question"
    <3>1. f[k + 1] = f[k]
      BY Zenon, <2>1, <2>3 DEF Rebuild
    <3> QED BY Zenon, <1>4, <3>1
  <2> QED BY <2>2, <2>3
<1>5. \A k \in 0 .. n : Sound(d, sent, f[k])
  <2> DEFINE S == {k \in Nat : k <= n /\ ~Sound(d, sent, f[k])}
  <2>1. 0 \notin S
    BY <1>2, RebegunSound
  <2>2. ASSUME NEW k \in Nat, k \notin S PROVE k + 1 \notin S
    BY <1>4, <2>2
  <2>3. S \subseteq Nat
    OBVIOUS
  <2>4. S = {}
    <3> HIDE DEF S
    <3> QED BY <2>1, <2>2, <2>3, LeastOfBad
  <2> QED BY <2>4
<1>6. ASSUME NEW k \in 0 .. n PROVE Later(d, f[k], f[n])
  <2> DEFINE S == {j \in Nat : k + j <= n /\ ~Later(d, f[k], f[k + j])}
  <2>1. Later(d, f[k], f[k])
    <3>1. f[k].step.kind = "question" => f[k].step.code \in Nat
      BY <1>5, InNumbers DEF Sound, Codes
    <3>2. f[k].step.kind = "question" => f[k].step.code <= f[k].step.code
      BY <3>1
    <3> QED BY <3>2 DEF Later
  <2>2. 0 \notin S
    BY <2>1
  <2>3. ASSUME NEW j \in Nat, j \notin S PROVE j + 1 \notin S
    <3> SUFFICES ASSUME k + (j + 1) <= n PROVE Later(d, f[k], f[k + (j + 1)])
      OBVIOUS
    <3>1. k + j \in Nat /\ k + j \in 0 .. n /\ (k + j) + 1 <= n /\ k + (j + 1) = (k + j) + 1
      OBVIOUS
    <3>2. Later(d, f[k], f[k + j])
      BY <2>3, <3>1
    <3>3. f[(k + j) + 1] = Rebuild(d, sent, f[k + j], f[k + j].step.code)
      BY <1>3, <3>1
    <3>4. Sound(d, sent, f[k]) /\ Sound(d, sent, f[k + j])
      BY <1>5, <3>1
    <3>5. Later(d, f[k], f[(k + j) + 1])
      BY <3>2, <3>3, <3>4, StillLater
    <3> QED BY <3>1, <3>5
  <2>4. S \subseteq Nat
    OBVIOUS
  <2>5. S = {}
    <3> HIDE DEF S
    <3> QED BY <2>2, <2>3, <2>4, LeastOfBad
  <2>6. n - k \in Nat /\ k + (n - k) = n
    OBVIOUS
  <2>7. n - k \notin S
    BY <2>5
  <2>8. Later(d, f[k], f[k + (n - k)])
    BY <2>6, <2>7
  <2> QED BY <2>6, <2>8
<1>7. \A k \in 0 .. n - 1 : f[k + 1] = Rebuild(d, sent, f[k], f[k].step.code)
  BY <1>3
<1> QED BY <1>2, <1>5, <1>6, <1>7

(* The two walks pass the same questions. *)
LEMMA SameWalk ==
  ASSUME NEW d \in Definitions, Publishable(d), NEW sent, NEW n \in Nat, NEW f, Rebuilds(d, sent, n, f),
         NEW g, Walks(d, f[n].answers, n, g)
  PROVE  g[n].codes = f[n].codes /\ g[n].step = f[n].step
<1> DEFINE stored == f[n].answers
<1>0. /\ \A k \in 0 .. n : Sound(d, sent, f[k]) /\ Later(d, f[k], f[n])
      /\ f[0] = Rebegins(d)
      /\ \A k \in 0 .. n - 1 : f[k + 1] = Rebuild(d, sent, f[k], f[k].step.code)
  BY AllSound
<1>1. \A k \in 0 .. n : g[k] = IF k = 0 THEN Begins(d, stored) ELSE Advance(d, stored, g[k - 1])
  BY Zenon DEF Walks
<1> DEFINE Same(k) == g[k].codes = f[k].codes /\ g[k].step = f[k].step
<1>2. Same(0)
  <2>1. f[0].codes = {} /\ f[0].step = NextStep(d, 0, f[0].answers)
    BY <1>0 DEF Rebegins
  <2>2. Sound(d, sent, f[0]) /\ Sound(d, sent, f[n]) /\ Later(d, f[0], f[n])
    BY <1>0
  <2>3. NextStep(d, 0, stored) = f[0].step
    BY <2>1, <2>2, SameNext
  <2>4. g[0] = Begins(d, stored)
    BY <1>1
  <2> QED BY <2>1, <2>3, <2>4 DEF Begins
<1>3. ASSUME NEW k \in Nat, k + 1 <= n, Same(k) PROVE Same(k + 1)
  <2>1. k \in 0 .. n - 1 /\ k + 1 \in 0 .. n /\ k + 1 # 0 /\ (k + 1) - 1 = k /\ k \in 0 .. n /\ n \in 0 .. n
    BY <1>3
  <2>2. g[k + 1] = Advance(d, stored, g[k])
    BY <1>1, <2>1
  <2>3. f[k + 1] = Rebuild(d, sent, f[k], f[k].step.code)
    BY <1>0, <2>1
  <2>4. /\ Sound(d, sent, f[k]) /\ Sound(d, sent, f[k + 1]) /\ Sound(d, sent, f[n])
        /\ Later(d, f[k + 1], f[n])
    BY <1>0, <2>1
  <2>5. CASE f[k].step.kind # "question"
    <3>1. f[k + 1] = f[k]
      BY Zenon, <2>3, <2>5 DEF Rebuild
    <3>2. g[k + 1] = g[k]
      BY Zenon, <1>3, <2>2, <2>5 DEF Advance
    <3> QED BY <1>3, <3>1, <3>2
  <2>6. CASE f[k].step.kind = "question"
    <3>1. PICK p : p = f[k]
      OBVIOUS
    <3>2. PICK q : q = f[k + 1]
      OBVIOUS
    <3>3. PICK i : i = p.step.code
      OBVIOUS
    <3>4. /\ Sound(d, sent, p) /\ Sound(d, sent, q) /\ Sound(d, sent, f[n]) /\ Later(d, q, f[n])
          /\ p.step.kind = "question" /\ q = Rebuild(d, sent, p, i)
      BY <2>3, <2>4, <2>6, <3>1, <3>2, <3>3
    <3>5. i \in {0} \cup Codes(d)
      BY <3>3, <3>4 DEF Sound
    <3>6. q.codes = p.codes \cup {i} /\ q.step = NextStep(d, i, q.answers)
      <4>1. q = Rebuild(d, sent, p, p.step.code)
        BY Zenon, <3>3, <3>4
      <4>2. q.codes = p.codes \cup {p.step.code} /\ q.step = NextStep(d, p.step.code, q.answers)
        BY <3>4, <4>1, RebuildStep
      <4> QED BY Zenon, <3>3, <4>2
    <3>7. NextStep(d, i, stored) = q.step
      <4>1. PICK last : last = f[n]
        OBVIOUS
      <4>2. Sound(d, sent, q) /\ Sound(d, sent, last) /\ Later(d, q, last)
        BY <3>4, <4>1
      <4>3. NextStep(d, i, last.answers) = q.step
        BY <3>5, <3>6, <4>2, SameNext
      <4> QED BY Zenon, <4>1, <4>3
    <3>8. g[k].step.kind = "question" /\ g[k].step.code = i /\ g[k].codes = p.codes
      BY <1>3, <2>6, <3>1, <3>3
    <3>9. g[k + 1] = [codes |-> g[k].codes \cup {i}, step |-> NextStep(d, i, stored)]
      BY Zenon, <2>2, <3>8 DEF Advance
    <3>10. g[k + 1].codes = q.codes /\ g[k + 1].step = q.step
      BY <3>6, <3>7, <3>8, <3>9
    <3> QED BY <3>2, <3>10
  <2> QED BY <2>5, <2>6
<1>4. Same(n)
  <2> DEFINE S == {k \in Nat : k <= n /\ ~Same(k)}
  <2>1. 0 \notin S
    BY <1>2
  <2>2. ASSUME NEW k \in Nat, k \notin S PROVE k + 1 \notin S
    BY <1>3, <2>2
  <2>3. S \subseteq Nat
    OBVIOUS
  <2>4. S = {}
    <3> HIDE DEF S
    <3> QED BY <2>1, <2>2, <2>3, LeastOfBad
  <2> QED BY <2>4
<1> QED BY <1>4

(***************************************************************************)
(* What the server stores is a path of the instrument, whatever was sent.  *)
(***************************************************************************)
LEMMA StoredPath ==
  ASSUME NEW d \in Definitions, Publishable(d), NEW sub, ValidateSubmission(d, sub).ok
  PROVE  LET stored == ValidateSubmission(d, sub).answers
             path   == VisiblePath(d, stored)
         IN /\ sub.status = StatusOf(path.step)
            /\ \A i \in Codes(d) :
                 /\ stored[i] # Missing => i \in path.codes
                 /\ i \in path.codes /\ d.questions[i].required => Answered(stored[i])
                 /\ stored[i] # Missing => ValidAnswerValue(d.questions[i], stored[i])
<1> DEFINE n == Len(d.questions)
<1> DEFINE w == RebuiltPath(d, sub.answers)
<1>1. n \in Nat
  BY InNumbers
<1>2. PICK f : Rebuilds(d, sub.answers, n, f) /\ w = f[n]
  <2> HIDE DEF n, w
  <2>1. n = Len(d.questions) /\ w = RebuiltPath(d, sub.answers)
    BY DEF n, w
  <2> QED BY <1>1, <2>1, RebuiltPathWalks
<1>3. PICK g : Walks(d, w.answers, n, g) /\ VisiblePath(d, w.answers) = g[n]
  <2> HIDE DEF w, n
  <2>1. n = Len(d.questions)
    BY DEF n
  <2> QED BY <1>1, <2>1, VisiblePathWalks
<1> HIDE DEF n
<1>4. g[n].codes = w.codes /\ g[n].step = w.step
  <2> HIDE DEF w
  <2> QED BY <1>1, <1>2, <1>3, SameWalk
<1>5. Sound(d, sub.answers, w)
  <2>1. n \in 0 .. n
    BY <1>1
  <2> HIDE DEF w
  <2> QED BY <1>1, <1>2, <2>1, AllSound
<1>6. /\ ValidateSubmission(d, sub).answers = w.answers
      /\ ValidateSubmission(d, sub).ok = (AnswersValid(d, sub.answers) /\ FollowsPath(d, sub, w))
  BY DEF ValidateSubmission, Validated
<1> HIDE DEF w
<1>7. AnswersValid(d, sub.answers) /\ w.ok /\ sub.status = StatusOf(w.step)
  <2>1. AnswersValid(d, sub.answers) /\ FollowsPath(d, sub, w)
    BY Zenon, <1>6
  <2> QED BY <2>1 DEF FollowsPath
<1>8. VisiblePath(d, w.answers).codes = w.codes /\ VisiblePath(d, w.answers).step = w.step
  BY <1>3, <1>4
<1>9. ASSUME NEW i \in Codes(d)
      PROVE  /\ w.answers[i] # Missing => i \in w.codes
             /\ i \in w.codes /\ d.questions[i].required => Answered(w.answers[i])
             /\ w.answers[i] # Missing => ValidAnswerValue(d.questions[i], w.answers[i])
  BY <1>5, <1>7 DEF Sound, Lacking, AnswersValid
<1> QED BY <1>6, <1>7, <1>8, <1>9

(* An accepted submission is one that the server has found valid. *)
Accepted ==
  /\ def \in Definitions /\ Publishable(def)
  /\ request.stage # "idle" => {"stage", "mine", "sub"} \subseteq DOMAIN request
  /\ request.stage = "accepted" => /\ ValidateSubmission(def, request.sub).ok
                                   /\ response = request.sub.status

LEMMA AcceptedStep == Answer /\ Accepted /\ [Next]_vars => Accepted'
<1> SUFFICES ASSUME Answer, Accepted, [Next]_vars PROVE Accepted'
  OBVIOUS
<1>1. ASSUME def' = def, request' = request, response' = response PROVE Accepted'
  BY <1>1 DEF Accepted
<1>2. ASSUME NEW from, NEW given, NEW past, GoNext(from, given, past) PROVE Accepted'
  <2>1. def' = def /\ response' = response
    BY <1>2 DEF GoNext
  <2>2. \/ request' = request
        \/ request' = [stage |-> "starting", mine |-> TRUE, visited |-> Range(past),
                       sub |-> [status |-> StatusOf(NextStep(def, from, given)), answers |-> Payload(given),
                                interactions |-> interactions]]
    BY Zenon, <1>2 DEF GoNext
  <2>3. request' = request \/ (request'.stage = "starting" /\ {"stage", "mine", "sub"} \subseteq DOMAIN request')
    BY <2>2
  <2> QED BY <2>1, <2>3 DEF Accepted
<1>3. CASE Respondent
  <2>1. CASE Start \/ Next_
    BY <1>2, <2>1 DEF Start, Next_
  <2>2. CASE Back \/ ChangeAnswer \/ ConsentToFigma \/ ViewportAllowed
             \/ \E odd \in Measures, k \in {1, 2} : ClickStimulus(k, odd)
    BY <1>1, <2>2 DEF Back, ChangeAnswer, ConsentToFigma, ViewportAllowed, ClickStimulus
  <2>3. CASE ViewportDenied
    <3>1. /\ def' = def /\ response' = response
          /\ request' = request \/ (request.stage # "idle" /\ request' = [request EXCEPT !.mine = FALSE])
      BY <2>3 DEF ViewportDenied
    <3>2. request' = request \/ (request'.stage = request.stage /\ request'.sub = request.sub
                                  /\ DOMAIN request' = DOMAIN request)
      BY <3>1 DEF Accepted
    <3> QED BY <3>1, <3>2 DEF Accepted
  <2> QED BY <1>3, <2>1, <2>2, <2>3 DEF Respondent
<1>4. CASE Figma
  BY <1>1, <1>4 DEF Figma, FigmaLoaded, FigmaFrame, FigmaOther
<1>5. CASE Network
  <2>1. CASE EnsureStarted
    <3>1. def' = def /\ request' = request /\ response = "none"
      BY <2>1 DEF EnsureStarted
    <3>2. request.stage # "accepted"
      BY <3>1 DEF Answer, InFlight, Final
    <3> QED BY <3>1, <3>2 DEF Accepted
  <2>2. CASE SendCompletion
    <3>1. def' = def /\ request' = [request EXCEPT !.stage = "sent"] /\ request.stage = "starting"
      BY <2>2 DEF SendCompletion
    <3>2. request'.stage = "sent" /\ DOMAIN request' = DOMAIN request
      BY <3>1 DEF Accepted
    <3> QED BY <3>1, <3>2 DEF Accepted
  <2>3. CASE CompleteResponse
    <3> DEFINE v == ValidateSubmission(def, request.sub)
    <3>1. /\ def' = def /\ request.stage = "sent"
          /\ \/ \E stage \in {"finalized", "invalid"} : request' = [request EXCEPT !.stage = stage]
             \/ v.ok /\ request' = [request EXCEPT !.stage = "accepted"] /\ response' = v.status
      BY Zenon, <2>3 DEF CompleteResponse
    <3>2. v.status = request.sub.status
      BY DEF ValidateSubmission, Validated
    <3> HIDE DEF v
    <3>3. request'.sub = request.sub /\ DOMAIN request' = DOMAIN request
          /\ (request'.stage \in {"finalized", "invalid"}
              \/ (request'.stage = "accepted" /\ v.ok /\ response' = request.sub.status))
      BY <3>1, <3>2 DEF Accepted
    <3> QED BY <3>1, <3>3 DEF Accepted, v
  <2>4. CASE SubmissionFails \/ SubmissionSucceeds
    <3>1. def' = def /\ request' = NoRequest
      BY <2>4 DEF SubmissionFails, SubmissionSucceeds
    <3> QED BY <3>1 DEF Accepted, NoRequest
  <2> QED BY <1>5, <2>1, <2>2, <2>3, <2>4 DEF Network
<1>6. CASE UNCHANGED vars
  BY <1>1, <1>6 DEF vars
<1> QED BY <1>3, <1>4, <1>5, <1>6 DEF Next

LEMMA AcceptedTells == ASSUME Accepted PROVE StoredIsAPath
<1> SUFFICES ASSUME request.stage = "accepted" PROVE StoredIsAPath
  BY DEF StoredIsAPath
<1>1. /\ def \in Definitions /\ Publishable(def) /\ ValidateSubmission(def, request.sub).ok
      /\ response = request.sub.status
  BY DEF Accepted
<1>2. LET stored == ValidateSubmission(def, request.sub).answers
          path   == VisiblePath(def, stored)
      IN /\ request.sub.status = StatusOf(path.step)
         /\ \A i \in Codes(def) :
              /\ stored[i] # Missing => i \in path.codes
              /\ i \in path.codes /\ def.questions[i].required => Answered(stored[i])
              /\ stored[i] # Missing => ValidAnswerValue(def.questions[i], stored[i])
  BY <1>1, StoredPath
<1> QED BY Zenon, <1>1, <1>2 DEF StoredIsAPath, Bad

(***************************************************************************)
(* What a completed response stores is a path of its instrument            *)
(* (StoredIsAPath), whatever the instruments, the answers and the bounds.  *)
(***************************************************************************)
THEOREM StoredCorrect == Spec => []StoredIsAPath
<1>1. Init => Answer /\ Accepted
  <2>1. Init => Answer
    BY DEF Init, Answer, ThankYouIsStored, InFlight, NoRequest
  <2>2. Init => Accepted
    BY DEF Init, Accepted, NoRequest
  <2> QED BY <2>1, <2>2
<1>2. Answer /\ Accepted /\ [Next]_vars => (Answer /\ Accepted)'
  BY AnswerStep, AcceptedStep
<1>3. Accepted => StoredIsAPath
  BY AcceptedTells
<1> QED BY <1>1, <1>2, <1>3, PTL DEF Spec
-----------------------------------------------------------------------------
(***************************************************************************)
(* What the renderer keeps while a respondent goes on and back.  Behind is *)
(* the way that led to the question shown: each step of it is the one the  *)
(* answers given now still lead to (Linked), each required question on it  *)
(* is answered (Passed), each answer and interaction is one its question   *)
(* takes (EnteredIn, RecordedIn), and none is of a hidden question.        *)
(***************************************************************************)
Behind == {v \in Range(history) : v < current}

\* From v, the answers a lead to the next question of the way, or to the one shown.
Leads(d, a, V, c, v) ==
  \E w \in V \cup {c} : /\ v < w /\ NextStep(d, v, a) = QuestionStep(w)
                        /\ \A u \in V : u <= v \/ w <= u

Linked == phase = "question" => \A v \in Behind \cup {0} : Leads(def, answers, Behind, current, v)

Passed == \A v \in Behind : def.questions[v].required => IsAnswered(def.questions[v], answers[v])

Unhidden == \A v \in Range(history) \cup ({current} \ {0}) : ~def.questions[v].hidden

Offered(q) == {q.options[k] : k \in DOMAIN q.options}
Orders(q) == {s \in Seq(Offered(q)) : IsInjective(s)}

\* What an input of the question can hold.
Fits(q, v) ==
  \/ q.type \in {"single_choice", "dropdown"} /\ v \in Choose(q)
  \/ q.type = "scale" /\ v \in Rate(q)
  \/ q.type = "number" /\ v = Num(1)
  \/ q.type = "text" /\ \E w : v = Word(w)
  \/ q.type = "date" /\ v \in {Word(Day), Word("")}
  \/ q.type = "consent" /\ v \in {Bool(TRUE), Bool(FALSE)}
  \/ q.type = "multiple_choice" /\ \E s \in Orders(q) : v = List(s)
  \/ q.type = "ranking" /\ \E s \in Orders(q) : v = List(s) /\ Range(s) = Offered(q)
  \/ q.type = "matrix" /\ \E S \in SUBSET Offered(q) : \E f : v = Grid(f) /\ DOMAIN f = S
  \/ q.type = "first_click" /\ \E o \in Offered(q) : v = Point(o)
  \/ q.type = "preference_test" /\ v \in Prefer(q)
  \/ q.type = "prototype_test" /\ \E g, f : v = Goal(g, f)

EnteredIn(d, a) ==
  /\ DOMAIN a = Codes(d) /\ a = [i \in Codes(d) |-> a[i]]
  /\ \A i \in Codes(d) : a[i] # Missing => ~d.questions[i].hidden /\ Fits(d.questions[i], a[i])

\* An interaction with a question that takes it.
Recordable(q, x) ==
  \/ q.type = "prototype_test" /\ x.event \in FrameEvents
       /\ (x.event = "prototype_frame" => x.frame # NoFrame)
  \/ q.type = "first_click" /\ x.event = "first_click"

RecordedIn(d, a, ints) ==
  /\ ints \in Seq(Range(ints)) /\ Len(ints) <= MaxInteractions
  /\ \A k \in DOMAIN ints : ints[k].code \in Codes(d) /\ Recordable(d.questions[ints[k].code], ints[k])
  /\ \A i \in Codes(d) : d.questions[i].type = "prototype_test" =>
       /\ Cardinality(Of(ints, i)) <= MaxPrototypeEvents
       /\ a[i] # Missing => Frames(ints, i) # {}
  /\ \A i \in Codes(d) : d.questions[i].type = "first_click" =>
       /\ \A j, k \in Of(ints, i) : j = k
       /\ \A k \in Of(ints, i) : ints[k].point = a[i]
       /\ a[i] # Missing => Of(ints, i) # {}

Mounted ==
  \/ figma = Unmounted
  \/ /\ \E c, r \in BOOLEAN : \E l : figma = Instance(c, l, r)
     /\ phase = "question" /\ def.questions[current].type = "prototype_test"

\* The three reasons of RefusedOnlyFor, of a submission.
Explained(d, sub, visited) ==
  \/ \E i \in Codes(d) : i \notin visited /\ (sub.answers[i] # Missing \/ Of(sub.interactions, i) # {})
  \/ \E i \in Codes(d) : /\ sub.answers[i] # Missing /\ ~ValidAnswerValue(d.questions[i], sub.answers[i])
                         /\ sub.answers[i] \in {Word(""), Word(Overlong)}
  \/ \E k \in DOMAIN sub.interactions : sub.interactions[k].odd
  \/ \E i \in Codes(d) :
       /\ Is(sub.answers[i], "goal") /\ sub.answers[i].goal
       /\ ~\E k \in Of(sub.interactions, i) : /\ sub.interactions[k].event = "prototype_frame"
                                              /\ sub.interactions[k].frame = d.questions[i].goal

Refusable ==
  request.stage # "idle" =>
    /\ {"stage", "mine", "sub", "visited"} \subseteq DOMAIN request
    /\ ValidateSubmission(def, request.sub).ok \/ Explained(def, request.sub, request.visited)
    /\ request.stage = "invalid" => ~ValidateSubmission(def, request.sub).ok

BrowserInv ==
  /\ Linked /\ Passed /\ Unhidden
  /\ EnteredIn(def, answers) /\ RecordedIn(def, answers, interactions)
  /\ Mounted

RuntimeInv == Way /\ Publishable(def) /\ BrowserInv /\ Refusable
-----------------------------------------------------------------------------
(***************************************************************************)
(* What is left of a list: the places its members had are those of the     *)
(* members that are not dropped, each once.                                *)
(***************************************************************************)
Sifts(s, dropped, n, f) ==
  f = [k \in 0 .. n |-> IF k = 0 THEN <<>>
                        ELSE IF s[k] \in dropped THEN f[k - 1] ELSE Append(f[k - 1], s[k])]

Places(s, dropped, n, t, g) ==
  /\ t \in Seq(Range(s)) /\ Len(t) <= n
  /\ DOMAIN g = 1 .. Len(t)
  /\ \A k \in 1 .. Len(t) : g[k] \in 1 .. n /\ t[k] = s[g[k]] /\ s[g[k]] \notin dropped
  /\ \A j, k \in 1 .. Len(t) : g[j] = g[k] => j = k
  /\ \A m \in 1 .. n : s[m] \notin dropped => \E k \in 1 .. Len(t) : g[k] = m

LEMMA SiftsOn ==
  ASSUME NEW s, NEW dropped, NEW n \in Nat, NEW f, Sifts(s, dropped, n, f)
  PROVE  \E g : Sifts(s, dropped, n + 1, g)
<1> DEFINE next(k, t) == IF s[k] \in dropped THEN t ELSE Append(t, s[k])
<1> DEFINE g == [k \in 0 .. n + 1 |-> IF k <= n THEN f[k] ELSE next(n + 1, f[n])]
<1>1. ASSUME NEW k \in 0 .. n PROVE f[k] = IF k = 0 THEN <<>> ELSE next(k, f[k - 1])
  BY Zenon DEF Sifts
<1> HIDE DEF next
<1>2. ASSUME NEW k \in 0 .. n + 1 PROVE g[k] = IF k = 0 THEN <<>> ELSE next(k, g[k - 1])
  <2>1. CASE k <= n
    <3>1. g[k] = f[k] /\ k \in 0 .. n /\ (k # 0 => g[k - 1] = f[k - 1])
      BY <2>1
    <3> HIDE DEF g
    <3> QED BY <1>1, <3>1
  <2>2. CASE ~(k <= n)
    <3>1. k = n + 1 /\ k - 1 = n /\ k # 0
      BY <2>2
    <3>2. g[k] = next(n + 1, f[n]) /\ g[n] = f[n]
      BY <2>2, <3>1
    <3> HIDE DEF g
    <3> QED BY <3>1, <3>2
  <2> QED BY <2>1, <2>2
<1>3. g = [k \in 0 .. n + 1 |-> g[k]]
  OBVIOUS
<1> HIDE DEF g
<1>4. g = [k \in 0 .. n + 1 |-> IF k = 0 THEN <<>> ELSE next(k, g[k - 1])]
  BY Zenon, <1>2, <1>3
<1> QED BY Zenon, <1>4 DEF Sifts, next

LEMMA SiftExists == ASSUME NEW s, NEW dropped, NEW n \in Nat PROVE \E f : Sifts(s, dropped, n, f)
<1> DEFINE S == {k \in Nat : ~\E f : Sifts(s, dropped, k, f)}
<1>1. 0 \notin S
  <2> DEFINE f == [k \in 0 .. 0 |-> <<>>]
  <2>1. f = [k \in 0 .. 0 |-> IF k = 0 THEN <<>>
                              ELSE IF s[k] \in dropped THEN f[k - 1] ELSE Append(f[k - 1], s[k])]
    OBVIOUS
  <2> HIDE DEF f
  <2>2. Sifts(s, dropped, 0, f)
    BY Zenon, <2>1 DEF Sifts
  <2> QED BY <2>2
<1>2. \A k \in Nat : k \notin S => k + 1 \notin S
  BY SiftsOn
<1>3. S \subseteq Nat
  OBVIOUS
<1>4. S = {}
  <2> HIDE DEF S
  <2> QED BY <1>1, <1>2, <1>3, LeastOfBad
<1> QED BY <1>4

LEMMA WithoutSifts ==
  ASSUME NEW s, NEW dropped, NEW n \in Nat, n = Len(s)
  PROVE  \E f : Sifts(s, dropped, n, f) /\ Without(s, dropped) = f[n]
<1>1. \E f : Sifts(s, dropped, n, f)
  BY SiftExists
<1> DEFINE w == CHOOSE f : f = [k \in 0 .. n |-> IF k = 0 THEN <<>>
                                ELSE IF s[k] \in dropped THEN f[k - 1] ELSE Append(f[k - 1], s[k])]
<1>2. w = [k \in 0 .. n |-> IF k = 0 THEN <<>>
                            ELSE IF s[k] \in dropped THEN w[k - 1] ELSE Append(w[k - 1], s[k])]
  BY Zenon, <1>1 DEF Sifts
<1>3. Without(s, dropped) = w[n]
  BY Zenon DEF Without
<1> HIDE DEF w
<1>4. Sifts(s, dropped, n, w)
  BY Zenon, <1>2 DEF Sifts
<1> QED BY <1>3, <1>4

LEMMA PlacesOn ==
  ASSUME NEW s, NEW dropped, NEW n \in Nat, DOMAIN s = 1 .. Len(s), n + 1 <= Len(s), Len(s) \in Nat,
         NEW t, NEW g, Places(s, dropped, n, t, g)
  PROVE  \E h : Places(s, dropped, n + 1, IF s[n + 1] \in dropped THEN t ELSE Append(t, s[n + 1]), h)
<1>0. t \in Seq(Range(s)) /\ Len(t) \in Nat /\ s[n + 1] \in Range(s)
  BY DEF Places, Range
<1>1. CASE s[n + 1] \in dropped
  <2>1. Places(s, dropped, n + 1, t, g)
    <3>1. Len(t) <= n + 1 /\ \A k \in 1 .. Len(t) : g[k] \in 1 .. n + 1
      BY <1>0 DEF Places
    <3>2. \A m \in 1 .. n + 1 : m \in 1 .. n \/ m = n + 1
      OBVIOUS
    <3>3. \A m \in 1 .. n + 1 : s[m] \notin dropped => \E k \in 1 .. Len(t) : g[k] = m
      BY <1>1, <3>2 DEF Places
    <3> QED BY <3>1, <3>3 DEF Places
  <2> QED BY <1>1, <2>1
<1>2. CASE s[n + 1] \notin dropped
  <2> DEFINE u == Append(t, s[n + 1])
             h == [k \in 1 .. Len(t) + 1 |-> IF k = Len(t) + 1 THEN n + 1 ELSE g[k]]
  <2>1. /\ u \in Seq(Range(s)) /\ Len(u) = Len(t) + 1
        /\ \A k \in 1 .. Len(t) : u[k] = t[k]
        /\ u[Len(t) + 1] = s[n + 1]
    BY <1>0
  <2>2. /\ DOMAIN h = 1 .. Len(t) + 1 /\ h[Len(t) + 1] = n + 1
        /\ \A k \in 1 .. Len(t) : h[k] = g[k]
    BY <1>0
  <2> HIDE DEF u, h
  <2>3. \A k \in 1 .. Len(t) + 1 : k \in 1 .. Len(t) \/ k = Len(t) + 1
    BY <1>0
  <2>4. \A k \in 1 .. Len(t) : g[k] \in 1 .. n /\ t[k] = s[g[k]] /\ s[g[k]] \notin dropped
    BY DEF Places
  <2>5. \A k \in 1 .. Len(t) + 1 : h[k] \in 1 .. n + 1 /\ u[k] = s[h[k]] /\ s[h[k]] \notin dropped
    <3> SUFFICES ASSUME NEW k \in 1 .. Len(t) + 1
                 PROVE  h[k] \in 1 .. n + 1 /\ u[k] = s[h[k]] /\ s[h[k]] \notin dropped
      OBVIOUS
    <3>1. CASE k \in 1 .. Len(t)
      BY <3>1, <2>1, <2>2, <2>4
    <3>2. CASE k = Len(t) + 1
      BY <3>2, <2>1, <2>2, <1>2
    <3> QED BY <3>1, <3>2, <2>3
  <2>6. ASSUME NEW j \in 1 .. Len(t) + 1, NEW k \in 1 .. Len(t) + 1, h[j] = h[k] PROVE j = k
    <3>1. CASE j \in 1 .. Len(t) /\ k \in 1 .. Len(t)
      BY <3>1, <2>2, <2>6 DEF Places
    <3>2. CASE j = Len(t) + 1 /\ k \in 1 .. Len(t)
      BY <3>2, <2>2, <2>4, <2>6
    <3>3. CASE k = Len(t) + 1 /\ j \in 1 .. Len(t)
      BY <3>3, <2>2, <2>4, <2>6
    <3> QED BY <3>1, <3>2, <3>3, <2>3
  <2>7. ASSUME NEW m \in 1 .. n + 1, s[m] \notin dropped PROVE \E k \in 1 .. Len(t) + 1 : h[k] = m
    <3>1. CASE m \in 1 .. n
      <4>1. PICK k \in 1 .. Len(t) : g[k] = m
        BY <3>1, <2>7 DEF Places
      <4> QED BY <4>1, <2>2, <1>0
    <3>2. CASE m = n + 1
      BY <3>2, <2>2, <1>0
    <3> QED BY <3>1, <3>2
  <2>8. Len(u) <= n + 1
    BY <2>1, <1>0 DEF Places
  <2>9. Places(s, dropped, n + 1, u, h)
    BY <2>1, <2>2, <2>5, <2>6, <2>7, <2>8 DEF Places
  <2> QED BY <1>2, <2>9 DEF u
<1> QED BY <1>1, <1>2

LEMMA WithoutKeeps ==
  ASSUME NEW s, DOMAIN s = 1 .. Len(s), Len(s) \in Nat, NEW dropped
  PROVE  \E g : Places(s, dropped, Len(s), Without(s, dropped), g)
<1> DEFINE n == Len(s)
<1>1. PICK f : Sifts(s, dropped, n, f) /\ Without(s, dropped) = f[n]
  BY WithoutSifts
<1>2. \A k \in 0 .. n : f[k] = IF k = 0 THEN <<>>
                               ELSE IF s[k] \in dropped THEN f[k - 1] ELSE Append(f[k - 1], s[k])
  BY Zenon, <1>1 DEF Sifts
<1>3. \E g : Places(s, dropped, 0, f[0], g)
  <2>1. f[0] = <<>>
    BY <1>2
  <2>2. Places(s, dropped, 0, <<>>, <<>>)
    BY DEF Places
  <2> QED BY <2>1, <2>2
<1>4. ASSUME NEW k \in Nat, k + 1 <= n, \E g : Places(s, dropped, k, f[k], g)
      PROVE  \E g : Places(s, dropped, k + 1, f[k + 1], g)
  <2>1. k + 1 \in 0 .. n /\ k + 1 # 0 /\ (k + 1) - 1 = k
    BY <1>4
  <2>2. f[k + 1] = IF s[k + 1] \in dropped THEN f[k] ELSE Append(f[k], s[k + 1])
    BY <1>2, <2>1
  <2>3. PICK t : t = f[k]
    OBVIOUS
  <2>4. PICK g : Places(s, dropped, k, t, g)
    BY <1>4, <2>3
  <2>5. \E h : Places(s, dropped, k + 1, IF s[k + 1] \in dropped THEN t ELSE Append(t, s[k + 1]), h)
    BY <1>4, <2>4, PlacesOn
  <2> QED BY Zenon, <2>2, <2>3, <2>5
<1> DEFINE S == {k \in Nat : k <= n /\ ~\E g : Places(s, dropped, k, f[k], g)}
<1>5. S = {}
  <2>1. 0 \notin S
    BY <1>3
  <2>2. ASSUME NEW k \in Nat, k \notin S PROVE k + 1 \notin S
    <3> SUFFICES ASSUME k + 1 <= n PROVE \E g : Places(s, dropped, k + 1, f[k + 1], g)
      OBVIOUS
    <3>1. k <= n
      OBVIOUS
    <3>2. \E g : Places(s, dropped, k, f[k], g)
      BY <2>2, <3>1
    <3> QED BY <1>4, <3>2
  <2>3. S \subseteq Nat
    OBVIOUS
  <2> HIDE DEF S
  <2> QED BY <2>1, <2>2, <2>3, LeastOfBad
<1>6. \E g : Places(s, dropped, n, f[n], g)
  BY <1>5
<1> QED BY <1>1, <1>6
-----------------------------------------------------------------------------
(***************************************************************************)
(* The server on the respondent's way.  V are the questions visited, fin   *)
(* the step that ended the way; nothing was sent for other questions.      *)
(***************************************************************************)
Kept(d, sent, S) == [i \in Codes(d) |-> IF i \in S THEN sent[i] ELSE Missing]

Chained(d, sent, V, fin, v) ==
  \/ NextStep(d, v, sent) = fin /\ \A u \in V : u <= v
  \/ \E w \in V : /\ v < w /\ NextStep(d, v, sent) = QuestionStep(w)
                  /\ \A u \in V : u <= v \/ w <= u

Trip(d, sent, V, fin) ==
  /\ d \in Definitions /\ Publishable(d)
  /\ V \subseteq Codes(d) /\ fin.kind # "question"
  /\ sent = Kept(d, sent, V)
  /\ \A v \in V : ~Lacking(d.questions[v], sent[v])
  /\ \A v \in V \cup {0} : Chained(d, sent, V, fin, v)

OnWay(d, sent, V, fin, p) ==
  /\ p.ok
  /\ p.answers = Kept(d, sent, p.codes)
  /\ \/ p.step = fin /\ p.codes = V
     \/ \E c \in V : p.step = QuestionStep(c) /\ p.codes = {v \in V : v < c}

LEMMA OnWayCode ==
  ASSUME NEW d, NEW sent, NEW V, NEW fin, fin.kind # "question", NEW p, OnWay(d, sent, V, fin, p)
  PROVE  /\ p.step.kind = "question" => p.step.code \in V
         /\ p.step.kind # "question" => p.step = fin /\ p.codes = V
<1>1. CASE p.step = fin /\ p.codes = V
  BY Zenon, <1>1
<1>2. ASSUME NEW c \in V, p.step = QuestionStep(c) PROVE p.step.kind = "question" /\ p.step.code = c
  <2>1. QuestionStep(c).kind = "question" /\ QuestionStep(c).code = c
    BY DEF QuestionStep
  <2> QED BY Zenon, <1>2, <2>1
<1> QED BY Zenon, <1>1, <1>2 DEF OnWay

\* What was kept up to a question leads on from it as all that was sent.
LEMMA NextOnWay ==
  ASSUME NEW d, NEW sent, NEW V, NEW fin, Trip(d, sent, V, fin), NEW v \in V \cup {0},
         NEW p, p.ok, p.codes = {u \in V : u <= v}, p.answers = Kept(d, sent, p.codes),
         p.step = NextStep(d, v, p.answers)
  PROVE  OnWay(d, sent, V, fin, p)
<1>0. /\ Codes(d) \subseteq Nat \ {0} /\ V \subseteq Codes(d) /\ d \in Definitions /\ Publishable(d)
      /\ fin.kind # "question" /\ v \in {0} \cup Codes(d) /\ v \in Nat
  BY InNumbers DEF Trip, Codes
<1>1. /\ \A i \in Codes(d) : p.answers[i] = IF i \in p.codes THEN sent[i] ELSE Missing
      /\ \A i \in Codes(d) : sent[i] = IF i \in V THEN sent[i] ELSE Missing
  <2>1. \A i \in Codes(d) : Kept(d, sent, p.codes)[i] = IF i \in p.codes THEN sent[i] ELSE Missing
    BY DEF Kept
  <2>2. \A i \in Codes(d) : Kept(d, sent, V)[i] = IF i \in V THEN sent[i] ELSE Missing
    BY DEF Kept
  <2>3. sent = Kept(d, sent, V)
    BY DEF Trip
  <2> QED BY Zenon, <2>1, <2>2, <2>3
<1>2. \A i \in Codes(d) : i \in p.codes \/ i \notin V => sent[i] = p.answers[i]
  BY Zenon, <1>1
<1>3. ASSUME NEW w \in Nat, \A u \in V : u <= v \/ w <= u PROVE Agree(d, sent, p.answers, w)
  <2> SUFFICES ASSUME NEW c \in Codes(d), c < w PROVE sent[c] = p.answers[c]
    BY DEF Agree
  <2>1. c \in V => c <= v
    BY <1>0, <1>3
  <2> QED BY <1>2, <2>1
<1>4. Agree(d, sent, p.answers, v + 1)
  BY <1>0, <1>3
<1>5. CASE NextStep(d, v, sent) = fin /\ \A u \in V : u <= v
  <2>1. p.codes = V
    BY <1>5
  <2>2. p.answers = sent
    BY Zenon, <2>1 DEF Trip
  <2> QED BY <2>1, <2>2, <1>5 DEF OnWay
<1>6. ASSUME NEW w \in V, v < w, NextStep(d, v, sent) = QuestionStep(w), \A u \in V : u <= v \/ w <= u
      PROVE  OnWay(d, sent, V, fin, p)
  <2>1. Agree(d, sent, p.answers, w)
    BY <1>0, <1>3, <1>6
  <2>2. NextStep(d, v, sent).kind = "question" /\ NextStep(d, v, sent).code = w
    BY <1>6 DEF QuestionStep
  <2>3. NextStep(d, v, p.answers) = NextStep(d, v, sent)
    BY <1>0, <1>4, <2>1, <2>2, SameStep
  <2>4. p.codes = {u \in V : u < w}
    BY <1>0, <1>6
  <2> QED BY <1>6, <2>3, <2>4 DEF OnWay
<1>7. Chained(d, sent, V, fin, v)
  BY DEF Trip
<1> QED BY <1>5, <1>6, <1>7 DEF Chained

LEMMA RebuildOnWay ==
  ASSUME NEW d, NEW sent, NEW V, NEW fin, Trip(d, sent, V, fin),
         NEW p, OnWay(d, sent, V, fin, p), NEW r, r = Rebuild(d, sent, p, p.step.code)
  PROVE  /\ OnWay(d, sent, V, fin, r)
         /\ p.step.kind # "question" => r = p
         /\ r.step.kind = "question" => p.step.kind = "question" /\ p.step.code < r.step.code
<1>0. /\ Codes(d) \subseteq Nat \ {0} /\ V \subseteq Codes(d) /\ d \in Definitions
      /\ fin.kind # "question"
  BY InNumbers DEF Trip, Codes
<1>1. CASE p.step.kind # "question"
  <2>1. r = p
    BY Zenon, <1>1 DEF Rebuild
  <2> QED BY Zenon, <1>1, <2>1
<1>2. CASE p.step.kind = "question"
  <2>1. PICK c \in V : p.step = QuestionStep(c) /\ p.codes = {v \in V : v < c}
    BY Zenon, <1>0, <1>2 DEF OnWay
  <2>2. p.step.code = c /\ c \in Codes(d) /\ c \in Nat
    BY <1>0, <2>1 DEF QuestionStep
  <2>3. ~Lacking(d.questions[c], sent[c])
    BY DEF Trip
  <2>4. PICK kept : kept = [p.answers EXCEPT ![c] = sent[c]]
    OBVIOUS
  <2>5. r = Onward(d, p, c, FALSE, kept)
    BY Zenon, <1>2, <2>2, <2>3, <2>4 DEF Rebuild
  <2>6. r.codes = p.codes \cup {c} /\ r.answers = kept /\ r.step = NextStep(d, c, kept) /\ r.ok = (p.ok /\ ~FALSE)
    BY <2>5 DEF Onward
  <2>7. r.ok
    BY Zenon, <2>6 DEF OnWay
  <2>8. r.codes = {u \in V : u <= c}
    <3>1. \A u \in V : u \in Nat /\ (u <= c <=> u < c \/ u = c)
      BY <1>0, <2>2
    <3> QED BY Zenon, <2>1, <2>6, <3>1
  <2>9. r.answers = Kept(d, sent, r.codes)
    <3>1. p.answers = Kept(d, sent, p.codes)
      BY DEF OnWay
    <3>2. kept = [i \in Codes(d) |-> IF i = c THEN sent[c] ELSE Kept(d, sent, p.codes)[i]]
      BY <2>2, <2>4, <3>1 DEF Kept
    <3>3. \A i \in Codes(d) : (IF i = c THEN sent[c] ELSE Kept(d, sent, p.codes)[i])
                                = IF i \in r.codes THEN sent[i] ELSE Missing
      BY <2>6 DEF Kept
    <3> QED BY Zenon, <2>6, <3>2, <3>3 DEF Kept
  <2>10. OnWay(d, sent, V, fin, r)
    BY <2>1, <2>6, <2>7, <2>8, <2>9, NextOnWay
  <2>11. r.step.kind = "question" => r.step.code > c
    BY <1>0, <2>2, <2>6, StepIsAhead
  <2>12. r.step.kind = "question" => r.step.code \in Nat
    BY <1>0, <2>2, <2>6, StepIsAhead
  <2> QED BY <1>2, <2>2, <2>10, <2>11, <2>12
<1> QED BY <1>1, <1>2

LEMMA BegunOnWay ==
  ASSUME NEW d, NEW sent, NEW V, NEW fin, Trip(d, sent, V, fin)
  PROVE  OnWay(d, sent, V, fin, Rebegins(d))
<1> DEFINE p == Rebegins(d)
<1>0. Codes(d) \subseteq Nat \ {0} /\ V \subseteq Codes(d)
  BY InNumbers DEF Trip, Codes
<1>1. p.ok /\ p.codes = {} /\ p.answers = Nothing(d) /\ p.step = NextStep(d, 0, Nothing(d))
  BY DEF Rebegins
<1>2. p.codes = {u \in V : u <= 0}
  BY <1>0, <1>1
<1>3. p.answers = Kept(d, sent, p.codes)
  <2>1. \A i \in Codes(d) : (IF i \in {} THEN sent[i] ELSE Missing) = Missing
    OBVIOUS
  <2> QED BY Zenon, <1>1, <2>1 DEF Kept, Nothing
<1> HIDE DEF p
<1>4. OnWay(d, sent, V, fin, p)
  BY <1>1, <1>2, <1>3, NextOnWay
<1> QED BY <1>4 DEF p

\* The server's way is the respondent's.
LEMMA RebuiltAsVisited ==
  ASSUME NEW d, NEW sent, NEW V, NEW fin, Trip(d, sent, V, fin)
  PROVE  LET w == RebuiltPath(d, sent) IN
         w.ok /\ w.codes = V /\ w.step = fin /\ w.answers = sent
<1> DEFINE n == Len(d.questions)
<1>0. n \in Nat /\ Codes(d) = 1 .. n /\ d \in Definitions /\ V \subseteq Codes(d)
      /\ fin.kind # "question" /\ sent = Kept(d, sent, V)
  BY DefinitionsAssumption, NumberedDomain DEF Trip, Codes
<1>1. PICK f : Rebuilds(d, sent, n, f) /\ RebuiltPath(d, sent) = f[n]
  <2> HIDE DEF n
  <2>1. n = Len(d.questions)
    BY DEF n
  <2> QED BY <1>0, <2>1, RebuiltPathWalks
<1> HIDE DEF n
<1>2. \A k \in 0 .. n : f[k] = IF k = 0 THEN Rebegins(d) ELSE Rebuild(d, sent, f[k - 1], f[k - 1].step.code)
  BY Zenon, <1>1 DEF Rebuilds
<1> DEFINE Far(k) == OnWay(d, sent, V, fin, f[k]) /\ (f[k].step.kind = "question" => f[k].step.code > k)
<1>3. Far(0)
  <2>1. f[0] = Rebegins(d)
    BY <1>0, <1>2
  <2>2. OnWay(d, sent, V, fin, f[0])
    BY <2>1, BegunOnWay
  <2>3. f[0].step.kind = "question" => f[0].step.code \in V
    BY <1>0, <2>2, OnWayCode
  <2> QED BY <1>0, <2>2, <2>3
<1>4. ASSUME NEW k \in Nat, k + 1 <= n, Far(k) PROVE Far(k + 1)
  <2>1. k + 1 \in 0 .. n /\ k + 1 # 0 /\ (k + 1) - 1 = k
    BY <1>0, <1>4
  <2>2. f[k + 1] = Rebuild(d, sent, f[k], f[k].step.code)
    BY <1>2, <2>1
  <2>3. PICK p : p = f[k]
    OBVIOUS
  <2>4. PICK r : r = f[k + 1]
    OBVIOUS
  <2>5. OnWay(d, sent, V, fin, p) /\ r = Rebuild(d, sent, p, p.step.code)
    BY <1>4, <2>2, <2>3, <2>4
  <2>6. /\ OnWay(d, sent, V, fin, r)
        /\ r.step.kind = "question" => p.step.kind = "question" /\ p.step.code < r.step.code
    BY <2>5, RebuildOnWay
  <2>7. /\ r.step.kind = "question" => r.step.code \in V
        /\ p.step.kind = "question" => p.step.code \in V
    BY <1>0, <2>5, <2>6, OnWayCode
  <2>8. r.step.kind = "question" => r.step.code > k + 1
    BY <1>0, <1>4, <2>3, <2>6, <2>7
  <2> QED BY <2>4, <2>6, <2>8
<1>5. Far(n)
  <2> DEFINE S == {k \in Nat : k <= n /\ ~Far(k)}
  <2> HIDE DEF Far
  <2>1. 0 \notin S
    BY <1>3
  <2>2. ASSUME NEW k \in Nat, k \notin S PROVE k + 1 \notin S
    <3> SUFFICES ASSUME k + 1 <= n PROVE Far(k + 1)
      OBVIOUS
    <3>1. k <= n
      BY <1>0
    <3> QED BY <1>4, <2>2, <3>1
  <2>3. S \subseteq Nat
    OBVIOUS
  <2>4. S = {}
    <3> HIDE DEF S
    <3> QED BY <2>1, <2>2, <2>3, LeastOfBad
  <2> QED BY <1>0, <2>4
<1>6. PICK w : w = f[n]
  OBVIOUS
<1>7. OnWay(d, sent, V, fin, w) /\ (w.step.kind = "question" => w.step.code > n)
  BY <1>5, <1>6
<1>8. w.step.kind # "question"
  <2>1. w.step.kind = "question" => w.step.code \in V
    BY <1>0, <1>7, OnWayCode
  <2> QED BY <1>0, <1>7, <2>1
<1>9. w.step = fin /\ w.codes = V
  BY <1>0, <1>7, <1>8, OnWayCode
<1>10. w.ok /\ w.answers = sent
  BY Zenon, <1>0, <1>7, <1>9 DEF OnWay
<1> QED BY <1>1, <1>6, <1>9, <1>10
-----------------------------------------------------------------------------
(***************************************************************************)
(* What the server finds in a submission made at the end of the way.       *)
(***************************************************************************)
LEMMA FitsValid ==
  ASSUME NEW q, NEW v, Fits(q, v), v \notin {Word(""), Word(Overlong)},
         q.required => IsAnswered(q, v)
  PROVE  ValidAnswerValue(q, v)
<1>1. CASE q.type \in {"single_choice", "dropdown"} /\ v \in Choose(q)
  <2>1. PICK k \in DOMAIN q.options : v = Word(q.options[k])
    BY <1>1 DEF Choose
  <2>2. Is(v, "word") /\ v.word \in Offered(q)
    BY <2>1 DEF Is, Word, Offered
  <2> QED BY <1>1, <2>2 DEF ValidAnswerValue, Offered
<1>2. CASE q.type = "scale" /\ v \in Rate(q)
  <2>1. PICK k \in DOMAIN q.options : v = Num(q.options[k])
    BY <1>2 DEF Rate
  <2>2. Is(v, "num") /\ v.num \in Offered(q)
    BY <2>1 DEF Is, Num, Offered
  <2> QED BY <1>2, <2>2 DEF ValidAnswerValue, Offered
<1>3. CASE q.type = "number" /\ v = Num(1)
  BY <1>3 DEF ValidAnswerValue, Is, Num
<1>4. CASE q.type = "text" /\ \E w : v = Word(w)
  <2>1. PICK w : v = Word(w)
    BY <1>4
  <2>2. Is(v, "word") /\ v.word = w
    BY <2>1 DEF Is, Word
  <2>3. w # Overlong
    BY <2>1
  <2> QED BY <1>4, <2>2, <2>3 DEF ValidAnswerValue
<1>5. CASE q.type = "date" /\ v \in {Word(Day), Word("")}
  <2>1. v = Word(Day)
    BY <1>5
  <2> QED BY <1>5, <2>1 DEF ValidAnswerValue, Is, Word
<1>6. CASE q.type = "consent" /\ v \in {Bool(TRUE), Bool(FALSE)}
  <2>1. Is(v, "bool")
    <3>1. PICK b : v = Bool(b)
      BY Zenon, <1>6
    <3>2. DOMAIN Bool(b) = {"bool"}
      BY DEF Bool
    <3> QED BY <3>1, <3>2 DEF Is
  <2> QED BY <1>6, <2>1 DEF ValidAnswerValue
<1>7. CASE q.type = "multiple_choice" /\ \E s \in Orders(q) : v = List(s)
  <2>1. PICK s \in Orders(q) : v = List(s)
    BY <1>7
  <2>2. Is(v, "list") /\ v.list = s
    BY <2>1 DEF Is, List
  <2>3. IsInjective(s) /\ Range(s) \subseteq Offered(q)
    <3>1. s \in Seq(Offered(q)) /\ IsInjective(s)
      BY DEF Orders
    <3> QED BY <3>1, SeqMembers
  <2> QED BY <1>7, <2>2, <2>3 DEF ValidAnswerValue, Offered
<1>8. CASE q.type = "ranking" /\ \E s \in Orders(q) : v = List(s) /\ Range(s) = Offered(q)
  <2>1. PICK s \in Orders(q) : v = List(s) /\ Range(s) = Offered(q)
    BY <1>8
  <2>2. Is(v, "list") /\ v.list = s
    BY <2>1 DEF Is, List
  <2>3. IsInjective(s)
    BY DEF Orders
  <2> QED BY <1>8, <2>1, <2>2, <2>3 DEF ValidAnswerValue, Offered
<1>9. CASE q.type = "matrix" /\ \E S \in SUBSET Offered(q) : \E f : v = Grid(f) /\ DOMAIN f = S
  <2>1. PICK f : v = Grid(f) /\ DOMAIN f \subseteq Offered(q)
    BY <1>9
  <2>2. Is(v, "grid") /\ v.grid = f
    BY <2>1 DEF Is, Grid
  <2>3. q.required => Offered(q) \subseteq DOMAIN f
    BY <1>9, <2>2 DEF IsAnswered, Offered
  <2> QED BY <1>9, <2>1, <2>2, <2>3 DEF ValidAnswerValue, Offered
<1>10. CASE q.type = "first_click" /\ \E o \in Offered(q) : v = Point(o)
  <2>1. PICK o \in Offered(q) : v = Point(o)
    BY <1>10
  <2>2. Is(v, "asset") /\ v.asset = o
    BY <2>1 DEF Is, Point
  <2> QED BY <1>10, <2>1, <2>2 DEF ValidAnswerValue, Offered
<1>11. CASE q.type = "preference_test" /\ v \in Prefer(q)
  <2>1. PICK k \in DOMAIN q.options : v = Pick(q.options[k])
    BY <1>11 DEF Prefer
  <2>2. Is(v, "pick") /\ v.pick \in Offered(q)
    BY <2>1 DEF Is, Pick, Offered
  <2> QED BY <1>11, <2>2 DEF ValidAnswerValue, Offered
<1>12. CASE q.type = "prototype_test" /\ \E g, f : v = Goal(g, f)
  <2>1. Is(v, "goal")
    <3>1. PICK g, f : v = Goal(g, f)
      BY <1>12
    <3>2. DOMAIN Goal(g, f) = {"goal", "frame"}
      BY DEF Goal
    <3> QED BY <3>1, <3>2 DEF Is
  <2> QED BY <1>12, <2>1 DEF ValidAnswerValue
<1> QED BY <1>1, <1>2, <1>3, <1>4, <1>5, <1>6, <1>7, <1>8, <1>9, <1>10, <1>11, <1>12 DEF Fits

LEMMA OfFinite ==
  ASSUME NEW ints, ints \in Seq(Range(ints)), NEW i
  PROVE  /\ IsFiniteSet(Of(ints, i)) /\ Of(ints, i) \subseteq DOMAIN ints /\ Cardinality(Of(ints, i)) \in Nat
         /\ DOMAIN ints = 1 .. Len(ints) /\ Len(ints) \in Nat
<1>1. Len(ints) \in Nat /\ DOMAIN ints = 1 .. Len(ints)
  OBVIOUS
<1>2. IsFiniteSet(1 .. Len(ints))
  BY <1>1, FS_Interval
<1>3. Of(ints, i) \subseteq DOMAIN ints
  BY DEF Of
<1>4. IsFiniteSet(Of(ints, i))
  BY <1>1, <1>2, <1>3, FS_Subset
<1> QED BY <1>1, <1>3, <1>4, FS_CardinalityType

LEMMA InteractionsOK ==
  ASSUME NEW d, NEW a, NEW ints, RecordedIn(d, a, ints), NEW V, NEW path,
         path.codes = V, path.answers = a,
         \A i \in Codes(d) : i \notin V => Of(ints, i) = {},
         NEW k \in DOMAIN ints, ~ints[k].odd
  PROVE  InteractionOK(d, path, ints, k, ints[k])
<1> DEFINE x == ints[k]
<1> DEFINE i == x.code
<1> DEFINE earlier == {j \in Of(ints, i) : j < k}
<1>1. i \in Codes(d) /\ Recordable(d.questions[i], x) /\ k \in Of(ints, i)
  BY DEF RecordedIn, Of
<1>2. i \in path.codes
  BY <1>1
<1>3. /\ IsFiniteSet(Of(ints, i)) /\ Cardinality(Of(ints, i)) \in Nat /\ k \in Nat
      /\ Of(ints, i) \subseteq Nat
  BY OfFinite DEF RecordedIn
<1>4. CASE d.questions[i].type = "prototype_test"
  <2>1. x.event \in FrameEvents
    BY <1>1, <1>4 DEF Recordable
  <2>2. Cardinality(Of(ints, i)) <= MaxPrototypeEvents
    BY <1>1, <1>4 DEF RecordedIn
  <2>3. PICK S : S = Of(ints, i)
    OBVIOUS
  <2>4. IsFiniteSet(S \ {k}) /\ Cardinality(S \ {k}) = Cardinality(S) - 1
    BY <1>1, <1>3, <2>3, FS_RemoveElement
  <2>5. earlier \subseteq S \ {k}
    BY <1>3, <2>3
  <2> HIDE DEF earlier, x, i
  <2>6. Cardinality(earlier) <= Cardinality(S \ {k}) /\ IsFiniteSet(earlier)
    BY <2>4, <2>5, FS_Subset
  <2>7. Cardinality(earlier) \in Nat
    BY <2>6, FS_CardinalityType
  <2>8. Cardinality(earlier) < MaxPrototypeEvents
    BY <1>3, <2>2, <2>3, <2>4, <2>6, <2>7, BudgetAssumption
  <2> QED BY <1>2, <1>4, <2>1, <2>8 DEF InteractionOK, earlier, x, i
<1>5. CASE d.questions[i].type = "first_click"
  <2>1. x.event = "first_click"
    BY <1>1, <1>5 DEF Recordable
  <2>2. /\ \A j, m \in Of(ints, i) : j = m
        /\ x.point = a[i]
    BY <1>1, <1>5 DEF RecordedIn
  <2>3. earlier = {}
    BY <1>1, <1>3, <2>2
  <2> QED BY <1>2, <1>5, <2>1, <2>2, <2>3 DEF InteractionOK
<1>6. d.questions[i].type \in {"prototype_test", "first_click"}
  BY <1>1 DEF Recordable
<1> QED BY <1>4, <1>5, <1>6

LEMMA EvidenceOK ==
  ASSUME NEW d, NEW a, NEW ints, EnteredIn(d, a), RecordedIn(d, a, ints), NEW i \in Codes(d),
         Is(a[i], "goal") /\ a[i].goal =>
           \E k \in Of(ints, i) : ints[k].event = "prototype_frame" /\ ints[k].frame = d.questions[i].goal
  PROVE  EvidenceFor(d.questions[i], a[i], ints, i)
<1> SUFFICES ASSUME a[i] # Missing PROVE EvidenceFor(d.questions[i], a[i], ints, i)
  BY DEF EvidenceFor
<1>1. CASE d.questions[i].type = "first_click"
  <2>1. Of(ints, i) # {}
    BY <1>1 DEF RecordedIn
  <2> QED BY <1>1, <2>1 DEF EvidenceFor
<1>2. CASE d.questions[i].type = "prototype_test"
  <2>1. Frames(ints, i) # {}
    BY <1>2 DEF RecordedIn
  <2>2. Fits(d.questions[i], a[i])
    BY DEF EnteredIn
  <2>3. PICK g, f : a[i] = Goal(g, f)
    BY <1>2, <2>2 DEF Fits
  <2>4. Is(a[i], "goal")
    BY <2>3 DEF Is, Goal
  <2>5. ASSUME a[i].goal PROVE d.questions[i].goal # NoFrame /\ d.questions[i].goal \in Frames(ints, i)
    <3>1. PICK k \in Of(ints, i) : ints[k].event = "prototype_frame" /\ ints[k].frame = d.questions[i].goal
      BY <2>4, <2>5
    <3>2. k \in DOMAIN ints /\ ints[k].code = i
      BY DEF Of
    <3>3. ints[k].frame # NoFrame
      BY <1>2, <3>1, <3>2 DEF RecordedIn, Recordable
    <3> QED BY <3>1, <3>3 DEF Frames
  <2>6. PrototypeEvidence(d.questions[i], a[i], Frames(ints, i))
    BY <2>1, <2>5 DEF PrototypeEvidence
  <2> QED BY <1>2, <2>6 DEF EvidenceFor
<1>3. CASE d.questions[i].type \notin {"first_click", "prototype_test"}
  BY <1>3 DEF EvidenceFor
<1> QED BY <1>1, <1>2, <1>3

Submitted(d, given, ints, fin, sub) ==
  /\ sub.status = StatusOf(fin) /\ sub.interactions = ints
  /\ sub.answers = [i \in Codes(d) |-> IF d.questions[i].hidden THEN Missing ELSE given[i]]

LEMMA SubmittedAccountedFor ==
  ASSUME NEW d \in Definitions, Publishable(d), NEW given, NEW ints,
         EnteredIn(d, given), RecordedIn(d, given, ints),
         NEW V, V \subseteq Codes(d), NEW fin, fin.kind # "question",
         \A v \in V \cup {0} : Chained(d, given, V, fin, v),
         \A v \in V : d.questions[v].required => IsAnswered(d.questions[v], given[v]),
         NEW sub, Submitted(d, given, ints, fin, sub)
  PROVE  ValidateSubmission(d, sub).ok \/ Explained(d, sub, V)
<1> SUFFICES ASSUME ~Explained(d, sub, V) PROVE ValidateSubmission(d, sub).ok
  OBVIOUS
<1>1. sub.answers = given
  <2>1. \A i \in Codes(d) : (IF d.questions[i].hidden THEN Missing ELSE given[i]) = given[i]
    BY DEF EnteredIn
  <2>2. given = [i \in Codes(d) |-> given[i]]
    BY DEF EnteredIn
  <2> QED BY Zenon, <2>1, <2>2 DEF Submitted
<1>2. /\ \A i \in Codes(d) : i \notin V => given[i] = Missing /\ Of(ints, i) = {}
      /\ \A i \in Codes(d) : given[i] # Missing /\ ~ValidAnswerValue(d.questions[i], given[i])
                               => given[i] \notin {Word(""), Word(Overlong)}
      /\ \A k \in DOMAIN ints : ~ints[k].odd
      /\ \A i \in Codes(d) : Is(given[i], "goal") /\ given[i].goal =>
           \E k \in Of(ints, i) : ints[k].event = "prototype_frame" /\ ints[k].frame = d.questions[i].goal
  BY Zenon, <1>1 DEF Explained, Submitted
<1>3. Trip(d, given, V, fin)
  <2>1. given = Kept(d, given, V)
    <3>1. given = [i \in Codes(d) |-> given[i]]
      BY DEF EnteredIn
    <3>2. \A i \in Codes(d) : (IF i \in V THEN given[i] ELSE Missing) = given[i]
      BY <1>2
    <3> QED BY Zenon, <3>1, <3>2 DEF Kept
  <2>2. \A v \in V : ~Lacking(d.questions[v], given[v])
    BY DEF Lacking, IsAnswered
  <2> QED BY <2>1, <2>2 DEF Trip
<1>4. PICK w : w = RebuiltPath(d, given)
  OBVIOUS
<1>5. w.ok /\ w.codes = V /\ w.step = fin /\ w.answers = given
  BY <1>3, <1>4, RebuiltAsVisited
<1>6. AnswersValid(d, given)
  <2> SUFFICES ASSUME NEW i \in Codes(d), given[i] # Missing, ~ValidAnswerValue(d.questions[i], given[i])
               PROVE  FALSE
    BY DEF AnswersValid
  <2>1. i \in V /\ given[i] \notin {Word(""), Word(Overlong)}
    BY <1>2
  <2>2. Fits(d.questions[i], given[i])
    BY DEF EnteredIn
  <2> QED BY <2>1, <2>2, FitsValid
<1>7. ASSUME NEW k \in DOMAIN ints PROVE InteractionOK(d, w, ints, k, ints[k])
  BY <1>2, <1>5, InteractionsOK
<1>8. ASSUME NEW i \in Codes(d) PROVE EvidenceFor(d.questions[i], w.answers[i], ints, i)
  <2>1. EvidenceFor(d.questions[i], given[i], ints, i)
    BY <1>2, EvidenceOK
  <2> QED BY Zenon, <1>5, <2>1
<1>9. FollowsPath(d, sub, w)
  <2>1. Len(ints) <= MaxInteractions
    BY DEF RecordedIn
  <2>2. sub.status = StatusOf(w.step) /\ sub.interactions = ints
    BY Zenon, <1>5 DEF Submitted
  <2> QED BY Zenon, <1>5, <1>7, <1>8, <2>1, <2>2 DEF FollowsPath
<1>10. ValidateSubmission(d, sub).ok = (AnswersValid(d, sub.answers) /\ FollowsPath(d, sub, w))
  <2>1. ValidateSubmission(d, sub) = Validated(d, sub, w)
    BY Zenon, <1>1, <1>4 DEF ValidateSubmission
  <2> QED BY <2>1 DEF Validated
<1> QED BY Zenon, <1>1, <1>6, <1>9, <1>10
-----------------------------------------------------------------------------
(***************************************************************************)
(* What the inputs make of an answer fits its question.                    *)
(***************************************************************************)
LEMMA AppendOrder ==
  ASSUME NEW q, NEW s \in Orders(q), NEW o \in Offered(q), o \notin Range(s)
  PROVE  Append(s, o) \in Orders(q)
<1> DEFINE t == Append(s, o)
<1>1. s \in Seq(Offered(q)) /\ IsInjective(s)
  BY DEF Orders
<1>2. /\ t \in Seq(Offered(q)) /\ DOMAIN t = 1 .. Len(s) + 1 /\ t[Len(s) + 1] = o
      /\ \A k \in 1 .. Len(s) : t[k] = s[k]
      /\ Len(s) \in Nat /\ DOMAIN s = 1 .. Len(s)
  BY <1>1
<1> HIDE DEF t
<1>3. \A k \in 1 .. Len(s) : t[k] # o
  BY <1>2 DEF Range
<1>4. ASSUME NEW j \in 1 .. Len(s) + 1, NEW k \in 1 .. Len(s) + 1, t[j] = t[k] PROVE j = k
  <2>1. \A m \in 1 .. Len(s) + 1 : m \in 1 .. Len(s) \/ m = Len(s) + 1
    BY <1>2
  <2>2. CASE j \in 1 .. Len(s) /\ k \in 1 .. Len(s)
    BY <2>2, <1>1, <1>2, <1>4 DEF IsInjective
  <2> QED BY <2>1, <2>2, <1>2, <1>3, <1>4
<1>5. IsInjective(t)
  BY <1>2, <1>4 DEF IsInjective
<1> QED BY <1>2, <1>5 DEF Orders, t

LEMMA WithoutOrder ==
  ASSUME NEW q, NEW s \in Orders(q), NEW dropped
  PROVE  Without(s, dropped) \in Orders(q)
<1>1. s \in Seq(Offered(q)) /\ IsInjective(s)
  BY DEF Orders
<1>2. Len(s) \in Nat /\ DOMAIN s = 1 .. Len(s) /\ Range(s) \subseteq Offered(q)
  BY <1>1, SeqMembers
<1>3. PICK t : t = Without(s, dropped)
  OBVIOUS
<1>4. PICK g : Places(s, dropped, Len(s), t, g)
  BY <1>2, <1>3, WithoutKeeps
<1>5. t \in Seq(Range(s))
  BY <1>4 DEF Places
<1>6. t \in Seq(Offered(q)) /\ DOMAIN t = 1 .. Len(t)
  BY <1>2, <1>5
<1>7. ASSUME NEW j \in 1 .. Len(t), NEW k \in 1 .. Len(t), t[j] = t[k] PROVE j = k
  <2>1. /\ g[j] \in 1 .. Len(s) /\ g[k] \in 1 .. Len(s) /\ t[j] = s[g[j]] /\ t[k] = s[g[k]]
        /\ g[j] = g[k] => j = k
    BY <1>4 DEF Places
  <2> QED BY <2>1, <1>1, <1>2, <1>7 DEF IsInjective
<1>8. IsInjective(t)
  BY <1>6, <1>7 DEF IsInjective
<1> QED BY <1>3, <1>6, <1>8 DEF Orders

LEMMA SwapOrder ==
  ASSUME NEW q, NEW s \in Orders(q), Range(s) = Offered(q), NEW j \in 1 .. Len(s) - 1
  PROVE  Swap(s, j) \in Orders(q) /\ Range(Swap(s, j)) = Offered(q)
<1> DEFINE t == Swap(s, j)
<1> DEFINE p(k) == IF k = j THEN j + 1 ELSE IF k = j + 1 THEN j ELSE k
<1>1. s \in Seq(Offered(q)) /\ IsInjective(s)
  BY DEF Orders
<1>2. Len(s) \in Nat /\ DOMAIN s = 1 .. Len(s)
  BY <1>1
<1>3. j \in DOMAIN s /\ j + 1 \in DOMAIN s /\ j \in Nat
  BY <1>2
<1>4. PICK u : u = [s EXCEPT ![j] = s[j + 1]]
  OBVIOUS
<1>5. u \in Seq(Offered(q)) /\ DOMAIN u = DOMAIN s /\ Len(u) = Len(s)
      /\ \A k \in DOMAIN s : u[k] = IF k = j THEN s[j + 1] ELSE s[k]
  BY <1>1, <1>2, <1>3, <1>4
<1>6. t = [u EXCEPT ![j + 1] = s[j]]
  BY <1>4 DEF Swap
<1>7. t \in Seq(Offered(q)) /\ DOMAIN t = DOMAIN s
      /\ \A k \in DOMAIN s : t[k] = IF k = j + 1 THEN s[j] ELSE u[k]
  BY <1>1, <1>2, <1>3, <1>5, <1>6
<1> HIDE DEF t
<1>8. \A k \in DOMAIN s : p(k) \in DOMAIN s /\ t[k] = s[p(k)] /\ p(p(k)) = k
  BY <1>2, <1>3, <1>5, <1>7
<1>9. \A k, m \in DOMAIN s : p(k) = p(m) => k = m
  BY <1>8
<1> HIDE DEF p
<1>10. IsInjective(t)
  BY <1>1, <1>7, <1>8, <1>9 DEF IsInjective
<1>11. Range(t) = Range(s)
  <2>1. \A x : x \in Range(t) <=> \E k \in DOMAIN s : x = t[k]
    BY <1>7 DEF Range
  <2>2. \A x : x \in Range(s) <=> \E k \in DOMAIN s : x = s[k]
    BY DEF Range
  <2>3. \A k \in DOMAIN s : \E m \in DOMAIN s : t[k] = s[m]
    BY <1>8
  <2>4. \A k \in DOMAIN s : \E m \in DOMAIN s : s[k] = t[m]
    BY <1>8
  <2> QED BY <2>1, <2>2, <2>3, <2>4
<1> QED BY <1>7, <1>10, <1>11 DEF Orders, t

LEMMA OptionsOrder ==
  ASSUME NEW q, QuestionOK(q), Numbered(q.options)
  PROVE  q.options \in Orders(q) /\ Range(q.options) = Offered(q)
<1>1. Range(q.options) = Offered(q)
  BY Zenon DEF Range, Offered
<1>2. IsInjective(q.options)
  BY DEF QuestionOK
<1> QED BY <1>1, <1>2 DEF Numbered, Orders

LEMMA NoList ==
  /\ ~Is(Missing, "list") /\ ~Is(Missing, "grid")
  /\ \A s : Is(List(s), "list") /\ List(s).list = s /\ List(s) # Missing
  /\ \A f : Is(Grid(f), "grid") /\ Grid(f).grid = f /\ Grid(f) # Missing
<1>1. DOMAIN Missing = {"none"}
  BY DEF Missing
<1>2. ASSUME NEW s PROVE DOMAIN List(s) = {"list"} /\ List(s).list = s
  BY DEF List
<1>3. ASSUME NEW f PROVE DOMAIN Grid(f) = {"grid"} /\ Grid(f).grid = f
  BY DEF Grid
<1> QED BY <1>1, <1>2, <1>3 DEF Is

LEMMA EnterableFits ==
  ASSUME NEW q, QuestionOK(q), Numbered(q.options), NEW old, old = Missing \/ Fits(q, old),
         NEW v \in Enterable(q, old), v # Missing
  PROVE  Fits(q, v)
<1> DEFINE list == IF Is(old, "list") THEN old.list ELSE IF q.type = "ranking" THEN q.options ELSE <<>>
           grid == IF Is(old, "grid") THEN old.grid ELSE <<>>
<1>1. CASE q.type = "single_choice"
  BY <1>1 DEF Enterable, Fits
<1>2. CASE q.type = "dropdown"
  BY <1>2 DEF Enterable, Fits
<1>3. CASE q.type = "scale"
  BY <1>3 DEF Enterable, Fits
<1>4. CASE q.type = "number"
  BY <1>4 DEF Enterable, Fits
<1>5. CASE q.type = "text"
  BY <1>5 DEF Enterable, Fits
<1>6. CASE q.type = "date"
  BY <1>6 DEF Enterable, Fits
<1>7. CASE q.type = "consent"
  BY <1>7 DEF Enterable, Fits
<1>8. CASE q.type = "multiple_choice"
  <2>1. v \in {List(Toggle(list, o)) : o \in Range(q.options)}
    BY Zenon, <1>8 DEF Enterable
  <2>2. PICK o \in Range(q.options) : v = List(Toggle(list, o))
    BY <2>1
  <2>3. o \in Offered(q)
    BY DEF Range, Offered
  <2>4. list \in Orders(q)
    <3>1. CASE old = Missing
      <4>1. list = <<>>
        BY Zenon, <3>1, <1>8, NoList
      <4>2. <<>> \in Orders(q)
        BY DEF Orders, IsInjective
      <4> QED BY <4>1, <4>2
    <3>2. CASE Fits(q, old)
      <4>1. PICK s \in Orders(q) : old = List(s)
        BY <3>2, <1>8 DEF Fits
      <4> QED BY Zenon, <4>1, NoList
    <3> QED BY <3>1, <3>2
  <2> HIDE DEF list
  <2>5. Toggle(list, o) \in Orders(q)
    BY Zenon, <2>3, <2>4, AppendOrder, WithoutOrder DEF Toggle
  <2> QED BY <1>8, <2>2, <2>5 DEF Fits
<1>9. CASE q.type = "ranking"
  <2>1. v \in {List(Swap(list, j)) : j \in 1 .. Len(list) - 1}
    BY Zenon, <1>9 DEF Enterable
  <2>2. PICK j \in 1 .. Len(list) - 1 : v = List(Swap(list, j))
    BY <2>1
  <2>3. list \in Orders(q) /\ Range(list) = Offered(q)
    <3>1. CASE old = Missing
      <4>1. list = q.options
        BY Zenon, <3>1, <1>9, NoList
      <4> QED BY <4>1, OptionsOrder
    <3>2. CASE Fits(q, old)
      <4>1. PICK s \in Orders(q) : old = List(s) /\ Range(s) = Offered(q)
        BY <3>2, <1>9 DEF Fits
      <4> QED BY Zenon, <4>1, NoList
    <3> QED BY <3>1, <3>2
  <2> HIDE DEF list
  <2>4. Swap(list, j) \in Orders(q) /\ Range(Swap(list, j)) = Offered(q)
    BY <2>3, SwapOrder
  <2> QED BY <1>9, <2>2, <2>4 DEF Fits
<1>10. CASE q.type = "matrix"
  <2>1. v \in {Grid(Fill(grid, o)) : o \in Range(q.options)}
    BY Zenon, <1>10 DEF Enterable
  <2>2. PICK o \in Range(q.options) : v = Grid(Fill(grid, o))
    BY <2>1
  <2>3. o \in Offered(q)
    BY DEF Range, Offered
  <2>4. DOMAIN grid \subseteq Offered(q)
    <3>1. CASE old = Missing
      <4>1. grid = <<>>
        BY Zenon, <3>1, NoList
      <4> QED BY <4>1
    <3>2. CASE Fits(q, old)
      <4>1. PICK f : old = Grid(f) /\ DOMAIN f \subseteq Offered(q)
        BY <3>2, <1>10 DEF Fits
      <4>2. grid = f
        BY Zenon, <4>1, NoList
      <4> QED BY <4>1, <4>2
    <3> QED BY <3>1, <3>2
  <2> HIDE DEF grid
  <2>5. PICK h : h = Fill(grid, o)
    OBVIOUS
  <2>6. DOMAIN h = DOMAIN grid \cup {o}
    BY <2>5 DEF Fill
  <2>7. DOMAIN h \subseteq Offered(q)
    BY <2>3, <2>4, <2>6
  <2> QED BY <1>10, <2>2, <2>5, <2>7 DEF Fits
<1>11. CASE q.type = "preference_test"
  BY <1>11 DEF Enterable, Fits
<1>12. CASE q.type \notin {"single_choice", "dropdown", "scale", "number", "text", "date", "consent",
                          "multiple_choice", "ranking", "matrix", "preference_test"}
  <2>1. Enterable(q, old) = {}
    BY Zenon, <1>12 DEF Enterable
  <2> QED BY <2>1
<1> QED BY <1>1, <1>2, <1>3, <1>4, <1>5, <1>6, <1>7, <1>8, <1>9, <1>10, <1>11, <1>12
-----------------------------------------------------------------------------
(***************************************************************************)
(* Answers and interactions are put in without harm to the others.         *)
(***************************************************************************)
Put(a, i, v, b) == b = [a EXCEPT ![i] = v]
Takes(q, v) == v = Missing \/ Fits(q, v)

LEMMA AnswerSet ==
  ASSUME NEW d, NEW a, EnteredIn(d, a), NEW i \in Codes(d), ~d.questions[i].hidden,
         NEW v, Takes(d.questions[i], v), NEW b, Put(a, i, v, b)
  PROVE  EnteredIn(d, b) /\ b[i] = v /\ \A c \in Codes(d) : c # i => b[c] = a[c]
<1>1. a = [c \in Codes(d) |-> a[c]] /\ DOMAIN a = Codes(d)
  BY DEF EnteredIn
<1>2. DOMAIN b = Codes(d) /\ \A c \in Codes(d) : b[c] = IF c = i THEN v ELSE a[c]
  BY <1>1 DEF Put
<1>3. b = [c \in Codes(d) |-> b[c]]
  BY <1>1 DEF Put
<1> QED BY <1>2, <1>3 DEF EnteredIn, Takes

\* The answer to a question that records nothing.
LEMMA RecordedStays ==
  ASSUME NEW d, NEW a, NEW ints, RecordedIn(d, a, ints), NEW b,
         \A c \in Codes(d) : d.questions[c].type \in {"first_click", "prototype_test"} => b[c] = a[c]
  PROVE  RecordedIn(d, b, ints)
BY DEF RecordedIn

LEMMA SeqRange == ASSUME NEW T, NEW s \in Seq(T) PROVE s \in Seq(Range(s))
<1>1. Len(s) \in Nat /\ s \in [1 .. Len(s) -> T]
  BY LenProperties
<1>2. \A k \in 1 .. Len(s) : s[k] \in Range(s)
  BY <1>1 DEF Range
<1>3. s \in [1 .. Len(s) -> Range(s)]
  BY <1>1, <1>2
<1> QED BY <1>1, <1>3, SeqDef

Longer(new, t, x) ==
  /\ new \in Seq(Range(new)) /\ Len(new) = Len(t) + 1 /\ DOMAIN new = 1 .. Len(t) + 1
  /\ Len(t) \in Nat /\ DOMAIN t = 1 .. Len(t)
  /\ new[Len(t) + 1] = x /\ \A k \in 1 .. Len(t) : new[k] = t[k]
  /\ Of(new, x.code) = Of(t, x.code) \cup {Len(t) + 1}
  /\ \A c : x.code # c => Of(new, c) = Of(t, c)

LEMMA OfAppend ==
  ASSUME NEW t, t \in Seq(Range(t)), NEW x
  PROVE  Longer(Append(t, x), t, x)
<1> DEFINE new == Append(t, x)
<1>1. Len(t) \in Nat /\ DOMAIN t = 1 .. Len(t)
  BY SeqMembers
<1>2. t \in Seq(Range(t) \cup {x}) /\ new \in Seq(Range(t) \cup {x}) /\ Len(new) = Len(t) + 1
      /\ new[Len(t) + 1] = x /\ \A k \in 1 .. Len(t) : new[k] = t[k]
  BY <1>1
<1>3. DOMAIN new = 1 .. Len(t) + 1
  BY <1>2
<1>4. new \in Seq(Range(new))
  BY <1>2, SeqRange
<1> HIDE DEF new
<1>5. \A k \in DOMAIN new : k \in DOMAIN t \/ k = Len(t) + 1
  BY <1>1, <1>3
<1>6. DOMAIN t \subseteq DOMAIN new /\ Len(t) + 1 \in DOMAIN new /\ Len(t) + 1 \notin DOMAIN t
  BY <1>1, <1>3
<1>7. Of(new, x.code) = Of(t, x.code) \cup {Len(t) + 1}
  BY <1>1, <1>2, <1>5, <1>6 DEF Of
<1>8. ASSUME NEW c, x.code # c PROVE Of(new, c) = Of(t, c)
  BY <1>1, <1>2, <1>5, <1>6, <1>8 DEF Of
<1> QED BY <1>1, <1>2, <1>3, <1>4, <1>7, <1>8 DEF Longer, new

LEMMA FramesAre ==
  ASSUME NEW ints, NEW i, NEW f
  PROVE  f \in Frames(ints, i) <=> \E k \in Of(ints, i) : ints[k].event = "prototype_frame" /\ ints[k].frame = f
BY DEF Frames

\* One more event of a prototype.
LEMMA PrototypeRecorded ==
  ASSUME NEW d, NEW a, NEW ints, RecordedIn(d, a, ints), NEW x, x.code \in Codes(d),
         d.questions[x.code].type = "prototype_test", Recordable(d.questions[x.code], x),
         Cardinality(Of(ints, x.code)) < MaxPrototypeEvents, Len(ints) < MaxInteractions,
         NEW b, \A c \in Codes(d) : c # x.code => b[c] = a[c],
         b[x.code] = a[x.code] \/ x.event = "prototype_frame"
  PROVE  RecordedIn(d, b, Append(ints, x))
<1>1. ints \in Seq(Range(ints)) /\ Len(ints) <= MaxInteractions
  BY DEF RecordedIn
<1>2. PICK new : new = Append(ints, x)
  OBVIOUS
<1>3. /\ new \in Seq(Range(new)) /\ Len(new) = Len(ints) + 1 /\ DOMAIN new = 1 .. Len(ints) + 1
      /\ Len(ints) \in Nat /\ DOMAIN ints = 1 .. Len(ints)
      /\ new[Len(ints) + 1] = x /\ \A k \in 1 .. Len(ints) : new[k] = ints[k]
      /\ Of(new, x.code) = Of(ints, x.code) \cup {Len(ints) + 1}
      /\ \A c : x.code # c => Of(new, c) = Of(ints, c)
  <2>1. Longer(new, ints, x)
    BY <1>1, <1>2, OfAppend
  <2> QED BY <2>1 DEF Longer
<1>4. Len(new) <= MaxInteractions
  BY <1>3, BudgetAssumption
<1>5. ASSUME NEW k \in DOMAIN new
      PROVE  new[k].code \in Codes(d) /\ Recordable(d.questions[new[k].code], new[k])
  <2>1. CASE k \in DOMAIN ints
    BY <2>1, <1>3 DEF RecordedIn
  <2>2. CASE k = Len(ints) + 1
    BY <2>2, <1>3
  <2> QED BY <2>1, <2>2, <1>3
<1>6. ASSUME NEW i \in Codes(d), d.questions[i].type = "prototype_test"
      PROVE  /\ Cardinality(Of(new, i)) <= MaxPrototypeEvents
             /\ b[i] # Missing => Frames(new, i) # {}
  <2>1. /\ Cardinality(Of(ints, i)) <= MaxPrototypeEvents
        /\ a[i] # Missing => Frames(ints, i) # {}
    BY <1>6 DEF RecordedIn
  <2>2. Of(ints, i) \subseteq Of(new, i) /\ \A k \in Of(ints, i) : new[k] = ints[k]
    BY <1>3 DEF Of
  <2>3. Frames(ints, i) \subseteq Frames(new, i)
    BY <2>2, FramesAre
  <2>4. CASE i # x.code
    <3>1. Of(new, i) = Of(ints, i) /\ b[i] = a[i]
      BY <1>3, <2>4
    <3> QED BY <2>1, <2>3, <3>1
  <2>5. CASE i = x.code
    <3>1. IsFiniteSet(Of(ints, i)) /\ Cardinality(Of(ints, i)) \in Nat
      BY <1>1, OfFinite
    <3>2. PICK S : S = Of(ints, i)
      OBVIOUS
    <3>3. Cardinality(S \cup {Len(ints) + 1}) = IF Len(ints) + 1 \in S THEN Cardinality(S) ELSE Cardinality(S) + 1
      BY <3>1, <3>2, FS_AddElement
    <3>4. Of(new, i) = S \cup {Len(ints) + 1}
      BY <1>3, <2>5, <3>2
    <3>5. Cardinality(S) < MaxPrototypeEvents /\ Cardinality(S) \in Nat
      BY <2>5, <3>1, <3>2
    <3>6. Cardinality(Of(new, i)) <= MaxPrototypeEvents
      BY <3>3, <3>4, <3>5, BudgetAssumption
    <3>7. x.event = "prototype_frame" => Frames(new, i) # {}
      <4>1. Len(ints) + 1 \in Of(new, i) /\ new[Len(ints) + 1] = x
        BY <1>3, <3>4
      <4> QED BY <4>1, FramesAre
    <3> QED BY <2>1, <2>3, <2>5, <3>6, <3>7
  <2> QED BY <2>4, <2>5
<1>7. ASSUME NEW i \in Codes(d), d.questions[i].type = "first_click"
      PROVE  /\ \A j, k \in Of(new, i) : j = k
             /\ \A k \in Of(new, i) : new[k].point = b[i]
             /\ b[i] # Missing => Of(new, i) # {}
  <2>1. i # x.code
    BY <1>7
  <2>2. Of(new, i) = Of(ints, i) /\ b[i] = a[i]
    BY <1>3, <2>1
  <2>3. \A k \in Of(ints, i) : new[k] = ints[k]
    BY <1>3 DEF Of
  <2> QED BY <1>7, <2>2, <2>3 DEF RecordedIn
<1>8. RecordedIn(d, b, new)
  BY <1>3, <1>4, <1>5, <1>6, <1>7 DEF RecordedIn
<1> QED BY <1>2, <1>8

\* A click in the place of the one before.
LEMMA ClickRecorded ==
  ASSUME NEW d, NEW a, NEW ints, RecordedIn(d, a, ints), NEW x, x.code \in Codes(d),
         d.questions[x.code].type = "first_click", x.event = "first_click",
         NEW others, others = Without(ints, {ints[k] : k \in Of(ints, x.code)}),
         Len(others) + 1 <= MaxInteractions,
         NEW b, \A c \in Codes(d) : c # x.code => b[c] = a[c], b[x.code] = x.point
  PROVE  RecordedIn(d, b, Append(others, x))
<1> DEFINE dropped == {ints[k] : k \in Of(ints, x.code)}
<1>1. ints \in Seq(Range(ints)) /\ Len(ints) \in Nat /\ DOMAIN ints = 1 .. Len(ints)
  BY SeqMembers DEF RecordedIn
<1>2. PICK g : Places(ints, dropped, Len(ints), others, g)
  BY <1>1, WithoutKeeps
<1>3. /\ others \in Seq(Range(ints)) /\ DOMAIN g = 1 .. Len(others)
      /\ \A k \in 1 .. Len(others) : g[k] \in 1 .. Len(ints) /\ others[k] = ints[g[k]] /\ ints[g[k]] \notin dropped
      /\ \A j, k \in 1 .. Len(others) : g[j] = g[k] => j = k
      /\ \A m \in 1 .. Len(ints) : ints[m] \notin dropped => \E k \in 1 .. Len(others) : g[k] = m
  BY <1>2 DEF Places
<1>4. Len(others) \in Nat /\ DOMAIN others = 1 .. Len(others)
  BY <1>3, SeqMembers
<1>5. \A m \in 1 .. Len(ints) : ints[m] \in dropped <=> ints[m].code = x.code
  BY <1>1 DEF Of
<1> HIDE DEF dropped
<1>6. others \in Seq(Range(others))
  BY <1>3, SeqRange
<1>7. PICK new : new = Append(others, x)
  OBVIOUS
<1>8. /\ new \in Seq(Range(new)) /\ Len(new) = Len(others) + 1 /\ DOMAIN new = 1 .. Len(others) + 1
      /\ new[Len(others) + 1] = x /\ \A k \in 1 .. Len(others) : new[k] = others[k]
      /\ Of(new, x.code) = Of(others, x.code) \cup {Len(others) + 1}
      /\ \A c : x.code # c => Of(new, c) = Of(others, c)
  <2>1. Longer(new, others, x)
    BY <1>6, <1>7, OfAppend
  <2> QED BY <2>1 DEF Longer
<1>9. \A k \in 1 .. Len(others) : others[k].code # x.code
  BY <1>3, <1>5
<1>10. ASSUME NEW k \in DOMAIN new
       PROVE  new[k].code \in Codes(d) /\ Recordable(d.questions[new[k].code], new[k])
  <2>1. CASE k \in 1 .. Len(others)
    <3>1. new[k] = ints[g[k]] /\ g[k] \in DOMAIN ints
      BY <2>1, <1>1, <1>3, <1>8
    <3> QED BY <3>1 DEF RecordedIn
  <2>2. CASE k = Len(others) + 1
    BY <2>2, <1>8 DEF Recordable
  <2> QED BY <2>1, <2>2, <1>4, <1>8
<1>11. ASSUME NEW i \in Codes(d), i # x.code
       PROVE  /\ Of(new, i) = Of(others, i)
              /\ \A k \in Of(new, i) : k \in 1 .. Len(others) /\ g[k] \in Of(ints, i) /\ new[k] = ints[g[k]]
              /\ \A m \in Of(ints, i) : \E k \in Of(new, i) : g[k] = m /\ new[k] = ints[m]
  <2>1. Of(new, i) = Of(others, i)
    BY <1>8, <1>11
  <2>2. \A k \in Of(others, i) : k \in 1 .. Len(others) /\ others[k].code = i
    BY <1>4 DEF Of
  <2>3. \A k \in Of(others, i) : g[k] \in Of(ints, i) /\ new[k] = ints[g[k]]
    BY <1>1, <1>3, <1>8, <2>2 DEF Of
  <2>4. ASSUME NEW m \in Of(ints, i) PROVE \E k \in Of(others, i) : g[k] = m /\ new[k] = ints[m]
    <3>1. m \in 1 .. Len(ints) /\ ints[m].code = i
      BY <1>1 DEF Of
    <3>2. PICK k \in 1 .. Len(others) : g[k] = m
      BY <1>3, <1>5, <1>11, <3>1
    <3>3. others[k] = ints[m] /\ new[k] = ints[m]
      BY <1>3, <1>8, <3>2
    <3> QED BY <1>4, <3>1, <3>2, <3>3 DEF Of
  <2> QED BY <2>1, <2>2, <2>3, <2>4
<1>12. ASSUME NEW i \in Codes(d), d.questions[i].type = "prototype_test"
       PROVE  /\ Cardinality(Of(new, i)) <= MaxPrototypeEvents
              /\ b[i] # Missing => Frames(new, i) # {}
  <2>1. i # x.code
    BY <1>12
  <2>2. /\ Cardinality(Of(ints, i)) <= MaxPrototypeEvents
        /\ a[i] # Missing => Frames(ints, i) # {}
        /\ b[i] = a[i]
    BY <1>12, <2>1 DEF RecordedIn
  <2>3. PICK S, T : S = Of(new, i) /\ T = Of(ints, i)
    OBVIOUS
  <2>4. /\ \A k \in S : k \in 1 .. Len(others) /\ g[k] \in T /\ new[k] = ints[g[k]]
        /\ \A m \in T : \E k \in S : g[k] = m /\ new[k] = ints[m]
    BY <1>11, <2>1, <2>3
  <2>5. PICK h : h = [k \in S |-> g[k]]
    OBVIOUS
  <2>6. h \in Injection(S, T)
    <3>1. h \in [S -> T]
      BY <2>4, <2>5
    <3>2. \A j, k \in S : h[j] = h[k] => j = k
      BY <1>3, <2>4, <2>5
    <3> QED BY <3>1, <3>2, <2>5 DEF Injection, IsInjective
  <2>7. IsFiniteSet(T) /\ Cardinality(T) \in Nat
    BY <1>1, <2>3, OfFinite
  <2>8. IsFiniteSet(S) /\ Cardinality(S) <= Cardinality(T)
    BY <2>6, <2>7, FS_Injection
  <2>9. Cardinality(S) \in Nat
    BY <2>8, FS_CardinalityType
  <2>10. Cardinality(S) <= MaxPrototypeEvents
    BY <2>2, <2>3, <2>7, <2>8, <2>9, BudgetAssumption
  <2>11. b[i] # Missing => Frames(new, i) # {}
    <3> SUFFICES ASSUME b[i] # Missing PROVE Frames(new, i) # {}
      OBVIOUS
    <3>1. PICK f : f \in Frames(ints, i)
      BY <2>2
    <3>2. PICK m \in T : ints[m].event = "prototype_frame" /\ ints[m].frame = f
      BY <2>3, <3>1, FramesAre
    <3>3. PICK k \in S : new[k] = ints[m]
      BY <2>4
    <3>4. f \in Frames(new, i)
      BY <2>3, <3>2, <3>3, FramesAre
    <3> QED BY <3>4
  <2> QED BY <2>3, <2>10, <2>11
<1>13. ASSUME NEW i \in Codes(d), d.questions[i].type = "first_click"
       PROVE  /\ \A j, k \in Of(new, i) : j = k
              /\ \A k \in Of(new, i) : new[k].point = b[i]
              /\ b[i] # Missing => Of(new, i) # {}
  <2>1. CASE i = x.code
    <3>1. Of(others, i) = {}
      BY <1>4, <1>9, <2>1 DEF Of
    <3>2. Of(new, i) = {Len(others) + 1}
      BY <1>8, <2>1, <3>1
    <3> QED BY <1>8, <2>1, <3>2
  <2>2. CASE i # x.code
    <3>1. /\ \A j, k \in Of(ints, i) : j = k
          /\ \A k \in Of(ints, i) : ints[k].point = a[i]
          /\ a[i] # Missing => Of(ints, i) # {}
          /\ b[i] = a[i]
      BY <1>13, <2>2 DEF RecordedIn
    <3>2. /\ \A k \in Of(new, i) : k \in 1 .. Len(others) /\ g[k] \in Of(ints, i) /\ new[k] = ints[g[k]]
          /\ \A m \in Of(ints, i) : \E k \in Of(new, i) : g[k] = m /\ new[k] = ints[m]
      BY <1>11, <2>2
    <3>3. ASSUME NEW j \in Of(new, i), NEW k \in Of(new, i) PROVE j = k
      <4>1. g[j] \in Of(ints, i) /\ g[k] \in Of(ints, i) /\ j \in 1 .. Len(others) /\ k \in 1 .. Len(others)
        BY <3>2
      <4>2. g[j] = g[k]
        BY Zenon, <3>1, <4>1
      <4> QED BY <1>3, <4>1, <4>2
    <3>4. ASSUME NEW k \in Of(new, i) PROVE new[k].point = b[i]
      <4>1. PICK m \in Of(ints, i) : new[k] = ints[m]
        BY Zenon, <3>2
      <4> QED BY Zenon, <3>1, <4>1
    <3>5. b[i] # Missing => Of(new, i) # {}
      BY <3>1, <3>2
    <3> QED BY Zenon, <3>3, <3>4, <3>5
  <2> QED BY <2>1, <2>2
<1>14. Len(new) <= MaxInteractions
  BY <1>8
<1>15. RecordedIn(d, b, new)
  BY <1>8, <1>10, <1>12, <1>13, <1>14 DEF RecordedIn
<1> QED BY <1>7, <1>15
-----------------------------------------------------------------------------
(***************************************************************************)
(* On the way.                                                             *)
(***************************************************************************)
LEMMA LeadsKept ==
  ASSUME NEW d \in Definitions, Publishable(d), NEW a, NEW b, NEW c \in Codes(d),
         NEW V, V \subseteq Codes(d), \A u \in V : u < c, NEW v \in V \cup {0}, Leads(d, a, V, c, v),
         \A i \in Codes(d) : i < c => b[i] = a[i]
  PROVE  Leads(d, b, V, c, v)
<1>0. Codes(d) \subseteq Nat \ {0}
  BY InNumbers DEF Codes
<1>1. PICK w \in V \cup {c} : /\ v < w /\ NextStep(d, v, a) = QuestionStep(w)
                              /\ \A u \in V : u <= v \/ w <= u
  BY Zenon DEF Leads
<1>2. w \in Codes(d) /\ w \in Nat /\ w <= c /\ c \in Nat /\ v \in Nat /\ v \in {0} \cup Codes(d)
  BY <1>0
<1>3. Agree(d, a, b, w) /\ Agree(d, a, b, v + 1)
  <2>1. ASSUME NEW i \in Codes(d), i < w \/ i < v + 1 PROVE a[i] = b[i]
    <3>1. i < c
      BY <1>0, <1>1, <1>2, <2>1
    <3> QED BY <3>1
  <2> QED BY <2>1 DEF Agree
<1>4. NextStep(d, v, a).kind = "question" /\ NextStep(d, v, a).code = w
  BY <1>1 DEF QuestionStep
<1>5. NextStep(d, v, b) = NextStep(d, v, a)
  BY <1>2, <1>3, <1>4, SameStep
<1> QED BY <1>1, <1>5 DEF Leads

LEMMA StepIsShown ==
  ASSUME NEW d \in Definitions, NEW from \in {0} \cup Codes(d), NEW a,
         NextStep(d, from, a).kind = "question"
  PROVE  \E w \in Codes(d) : NextStep(d, from, a) = QuestionStep(w) /\ w > from /\ ~d.questions[w].hidden
<1>0. Codes(d) \subseteq Nat
  BY InNumbers DEF Codes
<1>1. PICK next : NextStep(d, from, a) = Follow(d, next, a)
  BY DEF NextStep
<1>2. NextStep(d, from, a) = FirstVisibleFrom(d, next, a)
  BY <1>1 DEF Follow, EndStep, DisqualifyStep
<1>3. PICK S : S = {i \in Codes(d) : i >= next /\ Visible(d, i, a)} /\ NextStep(d, from, a) = FirstOf(S)
  BY <1>2 DEF FirstVisibleFrom
<1>4. S # {} /\ S \subseteq Nat /\ NextStep(d, from, a) = QuestionStep(Least(S))
  BY <1>0, <1>3 DEF FirstOf, EndStep
<1>5. Least(S) \in S
  BY <1>4, LeastIsLeast
<1>6. Least(S) \in Codes(d) /\ ~d.questions[Least(S)].hidden
  BY <1>3, <1>5 DEF Visible, Displayed
<1>7. NextStep(d, from, a).code = Least(S)
  BY <1>4 DEF QuestionStep
<1>8. Least(S) > from
  BY <1>7, StepIsAhead
<1> QED BY <1>4, <1>6, <1>8

LEMMA RangeAppend ==
  ASSUME NEW T, NEW s \in Seq(T), NEW x \in T PROVE Range(Append(s, x)) = Range(s) \cup {x}
<1>1. /\ DOMAIN Append(s, x) = 1 .. Len(s) + 1 /\ Append(s, x)[Len(s) + 1] = x
      /\ \A k \in 1 .. Len(s) : Append(s, x)[k] = s[k]
      /\ DOMAIN s = 1 .. Len(s) /\ Len(s) \in Nat
  OBVIOUS
<1>2. PICK t : t = Append(s, x)
  OBVIOUS
<1>3. \A k \in DOMAIN t : k \in DOMAIN s \/ k = Len(s) + 1
  BY <1>1, <1>2
<1>4. \A k \in DOMAIN s : k \in DOMAIN t /\ t[k] = s[k]
  BY <1>1, <1>2
<1>5. Len(s) + 1 \in DOMAIN t /\ t[Len(s) + 1] = x
  BY <1>1, <1>2
<1>6. Range(t) \subseteq Range(s) \cup {x}
  BY <1>3, <1>4, <1>5 DEF Range
<1>7. Range(s) \cup {x} \subseteq Range(t)
  BY <1>4, <1>5 DEF Range
<1> QED BY <1>2, <1>6, <1>7

LEMMA RangeFront ==
  ASSUME NEW T, NEW s \in Seq(T), s # <<>>
  PROVE  /\ s[Len(s)] \in Range(s)
         /\ Range(SubSeq(s, 1, Len(s) - 1)) \subseteq Range(s)
         /\ \A x \in Range(s) : x = s[Len(s)] \/ x \in Range(SubSeq(s, 1, Len(s) - 1))
<1>1. Len(s) \in Nat \ {0} /\ DOMAIN s = 1 .. Len(s)
  OBVIOUS
<1>2. PICK t : t = SubSeq(s, 1, Len(s) - 1)
  OBVIOUS
<1>3. DOMAIN t = 1 .. Len(s) - 1 /\ \A k \in 1 .. Len(s) - 1 : t[k] = s[k]
  BY <1>1, <1>2
<1>4. \A k \in DOMAIN t : k \in DOMAIN s /\ t[k] = s[k]
  BY <1>1, <1>3
<1>5. \A k \in DOMAIN s : k = Len(s) \/ k \in DOMAIN t
  BY <1>1, <1>3
<1>6. Len(s) \in DOMAIN s
  BY <1>1
<1>7. s[Len(s)] \in Range(s)
  BY <1>6 DEF Range
<1>8. Range(t) \subseteq Range(s)
  BY <1>4 DEF Range
<1>9. \A x \in Range(s) : x = s[Len(s)] \/ x \in Range(t)
  BY <1>4, <1>5 DEF Range
<1> QED BY <1>2, <1>7, <1>8, <1>9

LEMMA WayBehind ==
  ASSUME Way
  PROVE  /\ Codes(def) \subseteq Nat \ {0} /\ current \in Nat
         /\ Range(history) \subseteq Codes(def) /\ Behind \subseteq Codes(def)
         /\ \A v \in Behind : v < current
         /\ phase = "question" => \A v \in Range(history) : v <= current
<1>1. Codes(def) \subseteq Nat \ {0} /\ current \in Nat
  BY CodesAreNat DEF Way
<1>2. Range(history) \subseteq Codes(def)
  BY SeqMembers DEF Way
<1>3. phase = "question" => \A v \in Range(history) : v <= current
  BY DEF Way, HistoryOrdered, Range
<1> QED BY <1>1, <1>2, <1>3 DEF Behind

(***************************************************************************)
(* Changes of the answer to the question shown.                            *)
(***************************************************************************)
LEMMA OnTheWay ==
  ASSUME Way, Publishable(def), BrowserInv, phase = "question",
         NEW b, EnteredIn(def, b), \A c \in Codes(def) : c # current => b[c] = answers[c]
  PROVE  /\ \A v \in Behind \cup {0} : Leads(def, b, Behind, current, v)
         /\ \A v \in Behind : def.questions[v].required => IsAnswered(def.questions[v], b[v])
<1>1. /\ Codes(def) \subseteq Nat \ {0} /\ current \in Codes(def) /\ Behind \subseteq Codes(def)
      /\ \A v \in Behind : v < current
      /\ def \in Definitions
  BY WayBehind DEF Way
<1>2. \A i \in Codes(def) : i < current => b[i] = answers[i]
  BY <1>1
<1>3. ASSUME NEW v \in Behind \cup {0} PROVE Leads(def, b, Behind, current, v)
  <2>1. Leads(def, answers, Behind, current, v)
    BY DEF BrowserInv, Linked
  <2> QED BY <1>1, <1>2, <2>1, LeadsKept
<1>4. ASSUME NEW v \in Behind, def.questions[v].required PROVE IsAnswered(def.questions[v], b[v])
  <2>1. b[v] = answers[v]
    BY <1>1, <1>2
  <2>2. IsAnswered(def.questions[v], answers[v])
    BY <1>4 DEF BrowserInv, Passed
  <2> QED BY <2>1, <2>2
<1> QED BY <1>3, <1>4

LEMMA AnswerChanged ==
  ASSUME Way, Publishable(def), BrowserInv, phase = "question",
         def' = def, phase' = phase, current' = current, history' = history,
         EnteredIn(def, answers'), \A c \in Codes(def) : c # current => answers'[c] = answers[c],
         RecordedIn(def, answers', interactions'), Mounted'
  PROVE  BrowserInv'
<1>1. Behind' = Behind
  BY DEF Behind
<1>2. /\ \A v \in Behind \cup {0} : Leads(def, answers', Behind, current, v)
      /\ \A v \in Behind : def.questions[v].required => IsAnswered(def.questions[v], answers'[v])
  BY OnTheWay
<1>3. Linked' /\ Passed'
  BY <1>1, <1>2 DEF Linked, Passed
<1>4. Unhidden'
  BY DEF BrowserInv, Unhidden
<1> QED BY <1>3, <1>4 DEF BrowserInv

LEMMA BrowserUntouched ==
  ASSUME BrowserInv, def' = def, history' = history, current' = current, answers' = answers,
         interactions' = interactions, phase' = phase \/ phase' # "question",
         figma' = Unmounted \/ (figma' = figma /\ phase' = phase)
  PROVE  BrowserInv'
<1>1. Behind' = Behind
  BY DEF Behind
<1>2. Linked' /\ Passed' /\ Unhidden'
  BY <1>1 DEF BrowserInv, Linked, Passed, Unhidden
<1>3. EnteredIn(def, answers)' /\ RecordedIn(def, answers, interactions)'
  BY DEF BrowserInv
<1>4. Mounted'
  BY DEF BrowserInv, Mounted
<1> QED BY <1>2, <1>3, <1>4 DEF BrowserInv

LEMMA NothingYet ==
  ASSUME NEW d PROVE EnteredIn(d, Unanswered(d)) /\ RecordedIn(d, Unanswered(d), <<>>)
<1>1. \A i \in Codes(d) : Unanswered(d)[i] = Missing
  BY DEF Unanswered
<1>2. EnteredIn(d, Unanswered(d))
  <2>1. DOMAIN Unanswered(d) = Codes(d) /\ Unanswered(d) = [i \in Codes(d) |-> Unanswered(d)[i]]
    BY DEF Unanswered
  <2> QED BY <1>1, <2>1 DEF EnteredIn
<1>3. ASSUME NEW e, e = <<>> PROVE RecordedIn(d, Unanswered(d), e)
  <2>1. e \in Seq(Range(e)) /\ Len(e) = 0 /\ DOMAIN e = {}
    BY <1>3
  <2>2. \A i : Of(e, i) = {}
    BY <2>1 DEF Of
  <2>3. Cardinality({}) = 0
    BY FS_EmptySet
  <2>4. Len(e) <= MaxInteractions /\ \A i : Cardinality(Of(e, i)) <= MaxPrototypeEvents
    BY <2>1, <2>2, <2>3, BudgetAssumption
  <2>5. \A i \in Codes(d) : Unanswered(d)[i] # Missing => Frames(e, i) # {} /\ Of(e, i) # {}
    BY <1>1
  <2> QED BY <2>1, <2>2, <2>4, <2>5 DEF RecordedIn
<1> QED BY <1>2, <1>3

LEMMA FreshBrowser ==
  ASSUME NEW p, p # "question", Fresh(p), def' = def PROVE BrowserInv'
<1>1. /\ phase' = p /\ current' = 0 /\ answers' = Unanswered(def) /\ history' = <<>> /\ interactions' = <<>>
      /\ figma' = Unmounted
  BY DEF Fresh
<1>2. Range(<<>>) = {}
  BY DEF Range
<1>3. Behind' = {}
  BY <1>1, <1>2 DEF Behind
<1>4. Linked' /\ Passed' /\ Unhidden' /\ Mounted'
  BY <1>1, <1>2, <1>3 DEF Linked, Passed, Unhidden, Mounted
<1> QED BY <1>1, <1>4, NothingYet DEF BrowserInv
-----------------------------------------------------------------------------
(***************************************************************************)
(* Going on.  V are the questions Next was pressed on, from the one it is  *)
(* pressed on now, 0 at the start.                                         *)
(***************************************************************************)
Reached(d, given, V, from) ==
  /\ V \subseteq Codes(d) /\ from \in V \cup {0} /\ (from = 0 => V = {})
  /\ \A v \in V : /\ v <= from /\ ~d.questions[v].hidden
                  /\ d.questions[v].required => IsAnswered(d.questions[v], given[v])
  /\ \A v \in V \cup {0} : v < from => Leads(d, given, {u \in V : u < from}, from, v)

LEMMA ReachedOn ==
  ASSUME NEW d \in Definitions, NEW given, NEW V, NEW from, Reached(d, given, V, from),
         NEW w \in Codes(d), w > from, NextStep(d, from, given) = QuestionStep(w), NEW v \in V \cup {0}
  PROVE  Leads(d, given, V, w, v)
<1>0. Codes(d) \subseteq Nat \ {0} /\ V \subseteq Codes(d) /\ from \in V \cup {0} /\ \A u \in V : u <= from
  BY InNumbers DEF Codes, Reached
<1>1. CASE v = from
  BY <1>0, <1>1 DEF Leads
<1>2. CASE v # from
  <2>1. v < from /\ from \in V
    BY <1>0, <1>2 DEF Reached
  <2>2. Leads(d, given, {u \in V : u < from}, from, v)
    BY <2>1 DEF Reached
  <2>3. PICK x \in {u \in V : u < from} \cup {from} :
           /\ v < x /\ NextStep(d, v, given) = QuestionStep(x)
           /\ \A u \in {y \in V : y < from} : u <= v \/ x <= u
    BY <2>2 DEF Leads
  <2>4. x \in V
    BY <2>1, <2>3
  <2>5. ASSUME NEW u \in V PROVE u <= v \/ x <= u
    <3>1. CASE u < from
      BY <2>3, <3>1
    <3>2. CASE u = from
      BY <1>0, <2>3, <3>2
    <3> QED BY <1>0, <3>1, <3>2
  <2> QED BY <2>3, <2>4, <2>5 DEF Leads
<1> QED BY <1>1, <1>2

LEMMA ReachedEnd ==
  ASSUME NEW d \in Definitions, NEW given, NEW V, NEW from, Reached(d, given, V, from),
         NEW fin, NextStep(d, from, given) = fin, NEW v \in V \cup {0}
  PROVE  Chained(d, given, V, fin, v)
<1>0. Codes(d) \subseteq Nat \ {0} /\ V \subseteq Codes(d) /\ from \in V \cup {0} /\ \A u \in V : u <= from
  BY InNumbers DEF Codes, Reached
<1>1. CASE v = from
  BY <1>0, <1>1 DEF Chained
<1>2. CASE v # from
  <2>1. v < from /\ from \in V
    BY <1>0, <1>2 DEF Reached
  <2>2. Leads(d, given, {u \in V : u < from}, from, v)
    BY <2>1 DEF Reached
  <2>3. PICK x \in {u \in V : u < from} \cup {from} :
           /\ v < x /\ NextStep(d, v, given) = QuestionStep(x)
           /\ \A u \in {y \in V : y < from} : u <= v \/ x <= u
    BY <2>2 DEF Leads
  <2>4. x \in V
    BY <2>1, <2>3
  <2>5. ASSUME NEW u \in V PROVE u <= v \/ x <= u
    <3>1. CASE u < from
      BY <2>3, <3>1
    <3>2. CASE u = from
      BY <1>0, <2>3, <3>2
    <3> QED BY <1>0, <3>1, <3>2
  <2> QED BY <2>3, <2>4, <2>5 DEF Chained
<1> QED BY <1>1, <1>2

LEMMA FigmaMounted ==
  ASSUME Mounted, NEW i, NEW given, NEW p
  PROVE  \/ FigmaFor(p, i, given) = Unmounted
         \/ /\ \E c, r \in BOOLEAN : \E l : FigmaFor(p, i, given) = Instance(c, l, r)
            /\ p = "question" /\ def.questions[i].type = "prototype_test"
<1>1. CASE p = "question" /\ def.questions[i].type = "prototype_test"
  <2>1. CASE figma.mounted
    <3>1. figma # Unmounted
      BY <2>1 DEF Unmounted
    <3> QED BY <1>1, <2>1, <3>1 DEF Mounted, FigmaFor
  <2>2. CASE ~figma.mounted
    <3>1. (~def.questions[i].consent) \in BOOLEAN /\ (Is(given[i], "goal") /\ given[i].goal) \in BOOLEAN
      OBVIOUS
    <3>2. FigmaFor(p, i, given) = Instance(~def.questions[i].consent, NoFrame,
                                           Is(given[i], "goal") /\ given[i].goal)
      BY <1>1, <2>2 DEF FigmaFor
    <3> QED BY <1>1, <3>1, <3>2, Zenon
  <2> QED BY <2>1, <2>2
<1>2. CASE ~(p = "question" /\ def.questions[i].type = "prototype_test")
  BY <1>2 DEF FigmaFor
<1> QED BY <1>1, <1>2

LEMMA ShowMounted ==
  ASSUME Mounted, NEW p, NEW i, NEW given, Show(p, i, given), def' = def
  PROVE  Mounted'
<1>1. phase' = p /\ current' = i /\ figma' = FigmaFor(p, i, given)
  BY DEF Show
<1> QED BY <1>1, FigmaMounted DEF Mounted

LEMMA RefusableKept ==
  ASSUME Refusable, def' = def, request' = request \/ request'.stage = "idle"
  PROVE  Refusable'
BY DEF Refusable

LEMMA GoNextRuns ==
  ASSUME Way, Publishable(def), BrowserInv, Refusable,
         NEW from \in {0} \cup Codes(def), NEW given, NEW past \in Seq(Codes(def)), GoNext(from, given, past),
         Reached(def, given, Range(past), from), EnteredIn(def, given),
         RecordedIn(def, given, interactions), phase = "question" => current = from,
         phase # "question" => Range(past) = {}
  PROVE  BrowserInv' /\ Refusable'
<1>0. Codes(def) \subseteq Nat \ {0} /\ def \in Definitions /\ current \in Nat
  BY WayBehind DEF Way
<1>1. PICK V : V = Range(past)
  OBVIOUS
<1>2. /\ V \subseteq Codes(def) /\ Reached(def, given, V, from)
      /\ \A v \in V : /\ v <= from /\ ~def.questions[v].hidden
                      /\ def.questions[v].required => IsAnswered(def.questions[v], given[v])
  BY <1>1 DEF Reached
<1>3. PICK step : step = NextStep(def, from, given)
  OBVIOUS
<1>4. def' = def /\ history' = past /\ answers' = given /\ interactions' = interactions
  BY DEF GoNext
<1>5. EnteredIn(def, answers)' /\ RecordedIn(def, answers, interactions)'
  BY <1>4
<1>6. Behind' = {v \in V : v < current'}
  BY <1>1, <1>4 DEF Behind
<1>7. CASE step.kind = "question"
  <2>1. PICK w \in Codes(def) : step = QuestionStep(w) /\ w > from /\ ~def.questions[w].hidden
    BY <1>0, <1>3, <1>7, StepIsShown
  <2>2. step.code = w
    BY <2>1 DEF QuestionStep
  <2>3. Show("question", w, given) /\ request' = request
    BY <1>3, <1>7, <2>2 DEF GoNext
  <2>4. phase' = "question" /\ current' = w
    BY <2>3 DEF Show
  <2>5. Behind' = V
    BY <1>0, <1>2, <1>6, <2>1, <2>4
  <2>6. Linked'
    <3>1. \A v \in V \cup {0} : Leads(def, given, V, w, v)
      BY <1>0, <1>2, <1>3, <2>1, ReachedOn
    <3> QED BY <1>4, <2>4, <2>5, <3>1 DEF Linked
  <2>7. Passed'
    BY <1>2, <1>4, <2>5 DEF Passed
  <2>8. Unhidden'
    BY <1>1, <1>2, <1>4, <2>1, <2>4 DEF Unhidden
  <2>9. Mounted'
    BY <1>4, <2>3, ShowMounted DEF BrowserInv
  <2>10. Refusable'
    BY <1>4, <2>3, RefusableKept
  <2> QED BY <1>5, <2>6, <2>7, <2>8, <2>9, <2>10 DEF BrowserInv
<1>8. CASE step.kind # "question"
  <2> DEFINE sub == [status |-> StatusOf(step), answers |-> Payload(given), interactions |-> interactions]
             r == [stage |-> "starting", mine |-> TRUE, visited |-> Range(past), sub |-> sub]
  <2>1. request' = r /\ phase' = phase /\ current' = current /\ figma' = figma
    BY <1>3, <1>8 DEF GoNext
  <2>2. Linked'
    <3>1. SUFFICES ASSUME phase = "question", NEW v \in Behind' \cup {0}
                   PROVE  Leads(def, given, Behind', current, v)
      BY <1>4, <2>1 DEF Linked
    <3>2. current = from /\ Behind' = {u \in V : u < from} /\ from > 0
      BY <1>0, <1>6, <2>1, <3>1 DEF Way
    <3>3. v \in V \cup {0} /\ v < from
      BY <3>1, <3>2
    <3> QED BY <1>2, <3>2, <3>3 DEF Reached
  <2>3. Passed'
    BY <1>2, <1>4, <1>6 DEF Passed
  <2>4. Unhidden'
    BY <1>1, <1>2, <1>4, <2>1 DEF Unhidden, BrowserInv
  <2>5. Mounted'
    BY <1>4, <2>1 DEF Mounted, BrowserInv
  <2>6. r.sub = sub /\ r.visited = V /\ r.stage = "starting" /\ {"stage", "mine", "sub", "visited"} \subseteq DOMAIN r
    BY <1>1
  <2>7. Submitted(def, given, interactions, step, sub)
    BY DEF Submitted, Payload
  <2>8. \A v \in V \cup {0} : Chained(def, given, V, step, v)
    BY <1>0, <1>2, <1>3, ReachedEnd
  <2> HIDE DEF sub, r
  <2>9. ValidateSubmission(def, sub).ok \/ Explained(def, sub, V)
    BY <1>0, <1>2, <1>8, <2>7, <2>8, SubmittedAccountedFor
  <2>10. Refusable'
    BY <1>4, <2>1, <2>6, <2>9 DEF Refusable
  <2> QED BY <1>5, <2>2, <2>3, <2>4, <2>5, <2>10 DEF BrowserInv
<1> QED BY <1>7, <1>8
-----------------------------------------------------------------------------
LEMMA QuestionShown ==
  ASSUME Way, Publishable(def), BrowserInv, phase = "question"
  PROVE  /\ current \in Codes(def) /\ ~def.questions[current].hidden /\ QuestionOK(def.questions[current])
         /\ Numbered(def.questions[current].options) /\ def \in Definitions
<1>1. current \in Codes(def) /\ def \in Definitions /\ current # 0
  BY CodesAreNat DEF Way
<1>2. ~def.questions[current].hidden
  BY <1>1 DEF BrowserInv, Unhidden
<1>3. QuestionOK(def.questions[current])
  BY <1>1 DEF Publishable
<1>4. Numbered(def.questions[current].options)
  BY <1>1, DefinitionsAssumption DEF Codes
<1> QED BY <1>1, <1>2, <1>3, <1>4

LEMMA StartRuns == ASSUME RuntimeInv, Start PROVE BrowserInv' /\ Refusable'
<1>1. Way /\ Publishable(def) /\ BrowserInv /\ Refusable
  BY DEF RuntimeInv
<1>2. phase = "intro" /\ history = <<>> /\ GoNext(0, answers, history)
  BY <1>1 DEF Start, Way
<1>3. Range(history) = {} /\ history \in Seq(Codes(def))
  BY <1>1, <1>2 DEF Range, Way
<1>4. Reached(def, answers, {}, 0)
  BY DEF Reached
<1>5. EnteredIn(def, answers) /\ RecordedIn(def, answers, interactions)
  BY <1>1 DEF BrowserInv
<1> QED BY <1>1, <1>2, <1>3, <1>4, <1>5, GoNextRuns

LEMMA RankedFits ==
  ASSUME Way, Publishable(def), BrowserInv, phase = "question",
         NEW given, given = WithRanking(answers)
  PROVE  /\ EnteredIn(def, given) /\ RecordedIn(def, given, interactions)
         /\ \A c \in Codes(def) : c # current => given[c] = answers[c]
<1> DEFINE q == def.questions[current]
<1>1. /\ current \in Codes(def) /\ ~q.hidden /\ QuestionOK(q) /\ Numbered(q.options)
  BY QuestionShown
<1>2. EnteredIn(def, answers) /\ RecordedIn(def, answers, interactions)
  BY DEF BrowserInv
<1>3. CASE q.type = "ranking" /\ answers[current] = Missing
  <2>1. given = [answers EXCEPT ![current] = List(q.options)]
    BY <1>3 DEF WithRanking, Question
  <2>2. Fits(q, List(q.options))
    <3>1. q.options \in Orders(q) /\ Range(q.options) = Offered(q)
      BY <1>1, OptionsOrder
    <3> HIDE DEF q
    <3> QED BY <1>3, <3>1 DEF Fits
  <2>3. Put(answers, current, List(q.options), given)
    BY <2>1 DEF Put
  <2>4. EnteredIn(def, given) /\ \A c \in Codes(def) : c # current => given[c] = answers[c]
    <3>1. Takes(def.questions[current], List(q.options)) /\ ~def.questions[current].hidden
      BY <1>1, <2>2 DEF Takes
    <3>2. PICK v : v = List(def.questions[current].options)
      OBVIOUS
    <3>3. Takes(def.questions[current], v) /\ Put(answers, current, v, given) /\ current \in Codes(def)
      BY <1>1, <2>3, <3>1, <3>2
    <3> HIDE DEF q
    <3> QED BY <1>2, <3>1, <3>3, AnswerSet
  <2>5. \A c \in Codes(def) : def.questions[c].type \in {"first_click", "prototype_test"} => given[c] = answers[c]
    BY <1>3, <2>4
  <2>6. RecordedIn(def, given, interactions)
    BY <1>2, <2>5, RecordedStays
  <2> QED BY <2>4, <2>6
<1>4. CASE ~(q.type = "ranking" /\ answers[current] = Missing)
  <2>1. given = answers
    BY <1>4 DEF WithRanking, Question
  <2> QED BY <1>2, <2>1
<1> QED BY <1>3, <1>4

LEMMA NextRuns == ASSUME RuntimeInv, Next_ PROVE BrowserInv' /\ Refusable'
<1> DEFINE given == WithRanking(answers)
           past  == Append(history, current)
<1>1. Way /\ Publishable(def) /\ BrowserInv /\ Refusable
  BY DEF RuntimeInv
<1>2. /\ phase = "question" /\ GoNext(current, given, past)
      /\ def.questions[current].required => IsAnswered(def.questions[current], given[current])
  BY DEF Next_, Question
<1>3. /\ EnteredIn(def, given) /\ RecordedIn(def, given, interactions)
      /\ \A c \in Codes(def) : c # current => given[c] = answers[c]
  BY <1>1, <1>2, RankedFits
<1> HIDE DEF given
<1>4. /\ Codes(def) \subseteq Nat \ {0} /\ current \in Codes(def)
      /\ Range(history) \subseteq Codes(def) /\ history \in Seq(Codes(def))
      /\ \A v \in Range(history) : v <= current
  BY <1>1, <1>2, WayBehind DEF Way
<1>5. past \in Seq(Codes(def)) /\ Range(past) = Range(history) \cup {current}
  BY <1>4, RangeAppend
<1>6. /\ \A v \in Behind \cup {0} : Leads(def, given, Behind, current, v)
      /\ \A v \in Behind : def.questions[v].required => IsAnswered(def.questions[v], given[v])
  BY <1>1, <1>2, <1>3, OnTheWay
<1> HIDE DEF past
<1>7. PICK V : V = Range(past)
  OBVIOUS
<1>8. {u \in V : u < current} = Behind
  BY <1>4, <1>5, <1>7 DEF Behind
<1>9. \A v \in V : v = current \/ v \in Behind
  BY <1>4, <1>5, <1>7 DEF Behind
<1>10. ASSUME NEW v \in V
       PROVE  /\ v <= current /\ ~def.questions[v].hidden
              /\ def.questions[v].required => IsAnswered(def.questions[v], given[v])
  <2>1. v <= current
    BY <1>4, <1>5, <1>7, <1>10
  <2>2. ~def.questions[v].hidden
    BY <1>1, <1>4, <1>5, <1>7, <1>10 DEF BrowserInv, Unhidden
  <2>3. CASE v = current
    BY <1>2, <2>1, <2>2, <2>3
  <2>4. CASE v \in Behind
    BY <1>6, <2>1, <2>2, <2>4
  <2> QED BY <1>9, <1>10, <2>3, <2>4
<1>11. ASSUME NEW v \in V \cup {0}, v < current PROVE Leads(def, given, {u \in V : u < current}, current, v)
  <2>1. v \in Behind \cup {0}
    BY <1>8, <1>11
  <2> QED BY <1>6, <1>8, <2>1
<1>12. Reached(def, given, V, current)
  BY <1>4, <1>5, <1>7, <1>10, <1>11 DEF Reached
<1> QED BY <1>1, <1>2, <1>3, <1>4, <1>5, <1>7, <1>12, GoNextRuns
-----------------------------------------------------------------------------
(***************************************************************************)
(* Going back.                                                             *)
(***************************************************************************)
LEMMA LeadsBack ==
  ASSUME NEW d \in Definitions, NEW a, NEW V, V \subseteq Codes(d), NEW cur, NEW c \in V, c < cur,
         \A u \in V : u <= c, NEW v \in V \cup {0}, v < c, Leads(d, a, V, cur, v)
  PROVE  Leads(d, a, {u \in V : u < c}, c, v)
<1>0. Codes(d) \subseteq Nat \ {0}
  BY InNumbers DEF Codes
<1>1. PICK w \in V \cup {cur} : /\ v < w /\ NextStep(d, v, a) = QuestionStep(w)
                                /\ \A u \in V : u <= v \/ w <= u
  BY Zenon DEF Leads
<1>2. c \in Nat /\ v \in Nat
  BY <1>0
<1>3. ~(c <= v)
  BY <1>2
<1>4. w <= c
  BY <1>1, <1>3
<1>5. w \in V
  <2>1. CASE w = cur
    <3>1. NextStep(d, v, a).kind = "question" /\ NextStep(d, v, a).code = cur
      BY <1>1, <2>1 DEF QuestionStep
    <3>2. cur \in Codes(d)
      BY <3>1, <1>0, StepIsAhead
    <3> QED BY <1>0, <1>2, <1>4, <2>1, <3>2
  <2> QED BY <1>1, <2>1
<1>6. w \in {u \in V : u < c} \cup {c}
  BY <1>0, <1>2, <1>4, <1>5
<1>7. \A u \in {y \in V : y < c} : u <= v \/ w <= u
  BY <1>1
<1> QED BY <1>1, <1>6, <1>7 DEF Leads

LEMMA BackRuns == ASSUME RuntimeInv, Back PROVE BrowserInv' /\ Refusable'
<1>1. Way /\ Publishable(def) /\ BrowserInv /\ Refusable /\ Mounted
  BY DEF RuntimeInv, BrowserInv
<1>2. /\ phase = "question" /\ def' = def /\ answers' = answers /\ interactions' = interactions
      /\ request' = request
  BY DEF Back
<1>3. Refusable'
  BY <1>1, <1>2, RefusableKept
<1>4. EnteredIn(def, answers)' /\ RecordedIn(def, answers, interactions)'
  BY <1>1, <1>2 DEF BrowserInv
<1>5. CASE history = <<>>
  <2>1. Show("intro", 0, answers) /\ history' = history
    BY <1>5 DEF Back
  <2>2. phase' = "intro" /\ current' = 0 /\ Range(history') = {}
    BY <1>5, <2>1 DEF Show, Range
  <2>3. Linked' /\ Passed' /\ Unhidden'
    BY <2>2 DEF Linked, Passed, Unhidden, Behind
  <2>4. Mounted'
    BY <1>1, <1>2, <2>1, ShowMounted
  <2> QED BY <1>3, <1>4, <2>3, <2>4 DEF BrowserInv
<1>6. CASE history # <<>>
  <2>1. PICK t, c : t = SubSeq(history, 1, Len(history) - 1) /\ c = history[Len(history)]
    OBVIOUS
  <2>2. Show("question", c, answers) /\ history' = t
    BY <1>6, <2>1 DEF Back
  <2>3. phase' = "question" /\ current' = c
    BY <2>2 DEF Show
  <2>4. Mounted'
    BY <1>1, <1>2, <2>2, ShowMounted
  <2>5. /\ history \in Seq(Codes(def)) /\ Codes(def) \subseteq Nat \ {0} /\ current \in Nat
        /\ Range(history) \subseteq Codes(def) /\ def \in Definitions
        /\ \A v \in Range(history) : v <= current
    BY <1>1, <1>2, WayBehind DEF Way
  <2>6. /\ c \in Range(history) /\ Range(t) \subseteq Range(history)
        /\ \A x \in Range(history) : x = c \/ x \in Range(t)
    BY <1>6, <2>1, <2>5, RangeFront
  <2>7. \A v \in Range(history) : v <= c
    <3>1. Len(history) \in Nat /\ DOMAIN history = 1 .. Len(history) /\ Len(history) \in DOMAIN history
      BY <1>6, <2>5
    <3>2. \A j \in DOMAIN history : history[j] <= c
      BY <1>1, <2>1, <3>1 DEF Way, HistoryOrdered
    <3> QED BY <3>2 DEF Range
  <2>8. PICK U : U = Behind'
    OBVIOUS
  <2>9. U = {v \in Range(history) : v < c} /\ c <= current /\ U \subseteq Behind /\ c \in Nat
    BY <2>2, <2>3, <2>5, <2>6, <2>8 DEF Behind
  <2>10. \A v \in Behind \cup {0} : Leads(def, answers, Behind, current, v)
    BY <1>1, <1>2 DEF BrowserInv, Linked
  <2>11. ASSUME NEW v \in U \cup {0} PROVE Leads(def, answers, U, c, v)
    <3>1. CASE c = current
      <4>1. U = Behind
        BY <2>9, <3>1 DEF Behind
      <4> QED BY <2>10, <3>1, <4>1
    <3>2. CASE c < current
      <4>1. Behind = Range(history)
        BY <2>5, <2>7, <2>9, <3>2 DEF Behind
      <4>2. /\ U = {u \in Behind : u < c} /\ c \in Behind /\ v \in Behind \cup {0} /\ v < c
            /\ Behind \subseteq Codes(def) /\ \A u \in Behind : u <= c
        BY <2>5, <2>6, <2>7, <2>9, <4>1
      <4>3. Leads(def, answers, Behind, current, v)
        BY <2>10, <4>2
      <4> QED BY <2>5, <3>2, <4>2, <4>3, LeadsBack
    <3> QED BY <2>5, <2>9, <3>1, <3>2
  <2>12. Linked'
    BY <1>2, <2>3, <2>8, <2>11 DEF Linked
  <2>13. Passed'
    BY <1>1, <1>2, <2>8, <2>9 DEF BrowserInv, Passed
  <2>14. Unhidden'
    BY <1>1, <1>2, <2>2, <2>3, <2>6 DEF BrowserInv, Unhidden
  <2> QED BY <1>3, <1>4, <2>4, <2>12, <2>13, <2>14 DEF BrowserInv
<1> QED BY <1>5, <1>6

(***************************************************************************)
(* Inputs.                                                                 *)
(***************************************************************************)
LEMMA ChangeRuns == ASSUME RuntimeInv, ChangeAnswer PROVE BrowserInv' /\ Refusable'
<1> DEFINE q == def.questions[current]
<1>1. Way /\ Publishable(def) /\ BrowserInv /\ Refusable
  BY DEF RuntimeInv
<1>2. /\ phase = "question" /\ def' = def /\ phase' = phase /\ current' = current /\ history' = history
      /\ interactions' = interactions /\ figma' = figma /\ request' = request
  BY DEF ChangeAnswer
<1>3. PICK v \in Enterable(q, answers[current]) : answers' = [answers EXCEPT ![current] = v]
  BY DEF ChangeAnswer, SetAnswer, Question
<1>4. /\ current \in Codes(def) /\ ~q.hidden /\ QuestionOK(q) /\ Numbered(q.options)
  BY <1>1, <1>2, QuestionShown
<1>5. EnteredIn(def, answers) /\ RecordedIn(def, answers, interactions) /\ Mounted
  BY <1>1 DEF BrowserInv
<1>6. answers[current] = Missing \/ Fits(q, answers[current])
  BY <1>4, <1>5 DEF EnteredIn
<1>7. q.type \notin {"first_click", "prototype_test"}
  <2>1. \A r, x : r.type \in {"first_click", "prototype_test"} => Enterable(r, x) = {}
    BY DEF Enterable
  <2> QED BY <1>3, <2>1
<1> HIDE DEF q
<1>8. v # Missing => Fits(q, v)
  BY <1>3, <1>4, <1>6, EnterableFits
<1>9. Put(answers, current, v, answers')
  BY <1>3 DEF Put
<1>10. EnteredIn(def, answers') /\ \A c \in Codes(def) : c # current => answers'[c] = answers[c]
  <2>1. Takes(def.questions[current], v) /\ ~def.questions[current].hidden
    BY <1>4, <1>8 DEF q, Takes
  <2> QED BY <1>4, <1>5, <1>9, <2>1, AnswerSet
<1>11. \A c \in Codes(def) : def.questions[c].type \in {"first_click", "prototype_test"} => answers'[c] = answers[c]
  BY <1>7, <1>10 DEF q
<1>12. RecordedIn(def, answers', interactions')
  BY <1>2, <1>5, <1>11, RecordedStays
<1>13. Mounted'
  BY <1>2, <1>5 DEF Mounted
<1>14. BrowserInv'
  BY <1>1, <1>2, <1>10, <1>12, <1>13, AnswerChanged
<1> QED BY <1>1, <1>2, <1>14, RefusableKept

LEMMA ClickTaken ==
  ASSUME NEW d, NEW ints, NEW x, d.questions[x.code].type = "first_click",
         NEW others, others = Without(ints, {ints[j] : j \in Of(ints, x.code)}),
         NEW r, r = RecordSubmissionInteraction(d, ints, x), r.ok
  PROVE  Len(others) + 1 <= MaxInteractions /\ r.interactions = Append(others, x)
<1>1. PICK no, yes : no = [ok |-> FALSE, interactions |-> ints]
                     /\ yes = [ok |-> TRUE, interactions |-> Append(others, x)]
  OBVIOUS
<1>2. r = IF x.event # "first_click" \/ Len(others) + 1 > MaxInteractions THEN no ELSE yes
  BY <1>1, Zenon DEF RecordSubmissionInteraction
<1>3. ~no.ok /\ yes.interactions = Append(others, x)
  BY <1>1
<1>4. ~(Len(others) + 1 > MaxInteractions)
  BY <1>2, <1>3, Zenon
<1>5. r = yes
  BY <1>2, <1>3, Zenon
<1>6. Len(others) + 1 <= MaxInteractions
  BY <1>4, BudgetAssumption
<1> QED BY <1>3, <1>5, <1>6

LEMMA ClickRuns ==
  ASSUME RuntimeInv, NEW k, NEW odd, ClickStimulus(k, odd) PROVE BrowserInv' /\ Refusable'
<1> DEFINE q == def.questions[current]
<1>1. Way /\ Publishable(def) /\ BrowserInv /\ Refusable
  BY DEF RuntimeInv
<1>2. /\ phase = "question" /\ def' = def /\ phase' = phase /\ current' = current /\ history' = history
      /\ figma' = figma /\ request' = request /\ q.type = "first_click" /\ k \in DOMAIN q.options
  BY DEF ClickStimulus, Question
<1>3. PICK p, x, others :
        /\ p = Point(q.options[k]) /\ x = FirstClick(current, p, odd)
        /\ others = Without(interactions, {interactions[j] : j \in Of(interactions, x.code)})
  OBVIOUS
<1>4. x.code = current /\ x.event = "first_click" /\ x.point = p
  BY <1>3 DEF FirstClick
<1>5. PICK r : r = RecordSubmissionInteraction(def, interactions, x)
  OBVIOUS
<1>6. r.ok /\ interactions' = r.interactions /\ answers' = [answers EXCEPT ![current] = p]
  BY <1>3, <1>5 DEF ClickStimulus, SetAnswer, Question
<1>7. Len(others) + 1 <= MaxInteractions /\ interactions' = Append(others, x)
  BY <1>2, <1>3, <1>4, <1>5, <1>6, ClickTaken
<1>8. current \in Codes(def) /\ ~q.hidden
  BY <1>1, <1>2, QuestionShown
<1>9. EnteredIn(def, answers) /\ RecordedIn(def, answers, interactions) /\ Mounted
  BY <1>1 DEF BrowserInv
<1>10. Fits(q, p)
  BY <1>2, <1>3 DEF Fits, Offered
<1>11. Put(answers, current, p, answers')
  BY <1>6 DEF Put
<1>12. /\ EnteredIn(def, answers') /\ answers'[current] = p
       /\ \A c \in Codes(def) : c # current => answers'[c] = answers[c]
  <2>1. Takes(def.questions[current], p) /\ ~def.questions[current].hidden
    BY <1>8, <1>10 DEF Takes
  <2> QED BY <1>8, <1>9, <1>11, <2>1, AnswerSet
<1>13. RecordedIn(def, answers', Append(others, x))
  BY <1>2, <1>3, <1>4, <1>7, <1>8, <1>9, <1>12, ClickRecorded
<1>14. Mounted'
  BY <1>2, <1>9 DEF Mounted
<1>15. BrowserInv'
  BY <1>1, <1>2, <1>7, <1>12, <1>13, <1>14, AnswerChanged
<1> QED BY <1>1, <1>2, <1>15, RefusableKept
-----------------------------------------------------------------------------
(***************************************************************************)
(* The prototype.                                                          *)
(***************************************************************************)
LEMMA FigmaShown ==
  ASSUME RuntimeInv, figma.mounted
  PROVE  /\ Way /\ Publishable(def) /\ BrowserInv /\ Refusable
         /\ EnteredIn(def, answers) /\ RecordedIn(def, answers, interactions)
         /\ \E c, r \in BOOLEAN : \E l : figma = Instance(c, l, r)
         /\ phase = "question" /\ current \in Codes(def) /\ ~def.questions[current].hidden
         /\ def.questions[current].type = "prototype_test"
<1>1. Way /\ Publishable(def) /\ BrowserInv /\ Refusable /\ Mounted
      /\ EnteredIn(def, answers) /\ RecordedIn(def, answers, interactions)
  BY DEF RuntimeInv, BrowserInv
<1>2. figma # Unmounted
  BY DEF Unmounted
<1>3. /\ phase = "question" /\ def.questions[current].type = "prototype_test"
      /\ \E c, r \in BOOLEAN : \E l : figma = Instance(c, l, r)
  BY <1>1, <1>2 DEF Mounted
<1> QED BY <1>1, <1>3, QuestionShown

LEMMA PrototypeTaken ==
  ASSUME NEW d, NEW ints, NEW x, d.questions[x.code].type = "prototype_test",
         NEW r, r = RecordSubmissionInteraction(d, ints, x), r.ok,
         Len(ints) \in Nat, Cardinality(Of(ints, x.code)) \in Nat
  PROVE  /\ Cardinality(Of(ints, x.code)) < MaxPrototypeEvents /\ Len(ints) < MaxInteractions
         /\ r.interactions = Append(ints, x)
<1>1. PICK no, yes : no = [ok |-> FALSE, interactions |-> ints]
                     /\ yes = [ok |-> TRUE, interactions |-> Append(ints, x)]
  OBVIOUS
<1>2. d.questions[x.code].type # "first_click"
  OBVIOUS
<1>3. r = IF \/ Cardinality(Of(ints, x.code)) >= MaxPrototypeEvents
             \/ Len(ints) >= MaxInteractions
          THEN no ELSE yes
  BY <1>1, <1>2, Zenon DEF RecordSubmissionInteraction
<1>4. ~no.ok /\ yes.interactions = Append(ints, x)
  BY <1>1
<1>5. ~(Cardinality(Of(ints, x.code)) >= MaxPrototypeEvents) /\ ~(Len(ints) >= MaxInteractions) /\ r = yes
  BY <1>3, <1>4, Zenon
<1> QED BY <1>4, <1>5, BudgetAssumption

Scored(d, a, i, g, f, b) ==
  /\ EnteredIn(d, a) /\ i \in Codes(d) /\ ~d.questions[i].hidden
  /\ d.questions[i].type = "prototype_test" /\ b = [a EXCEPT ![i] = Goal(g, f)]

Spares(d, a, i, b) == \A c \in Codes(d) : c # i => b[c] = a[c]

LEMMA GoalSet ==
  ASSUME NEW d, NEW a, NEW i, NEW g, NEW f, NEW b, Scored(d, a, i, g, f, b)
  PROVE  EnteredIn(d, b) /\ Spares(d, a, i, b)
<1>1. PICK v : v = Goal(g, f)
  OBVIOUS
<1>2. /\ EnteredIn(d, a) /\ i \in Codes(d) /\ ~d.questions[i].hidden /\ Put(a, i, v, b)
      /\ d.questions[i].type = "prototype_test"
  BY <1>1 DEF Scored, Put
<1>3. Takes(d.questions[i], v)
  BY <1>1, <1>2 DEF Takes, Fits
<1>4. EnteredIn(d, b) /\ b[i] = v /\ \A c \in Codes(d) : c # i => b[c] = a[c]
  BY <1>2, <1>3, AnswerSet
<1> QED BY <1>4 DEF Spares

\* An event that is taken leaves all else right.
LEMMA EventTaken ==
  ASSUME RuntimeInv, figma.mounted, NEW x, x.code = current, Recordable(def.questions[current], x),
         NEW r, r = RecordSubmissionInteraction(def, interactions, x), r.ok,
         def' = def, phase' = phase, current' = current, history' = history, request' = request,
         interactions' = r.interactions, Mounted',
         \/ answers' = answers
         \/ x.event = "prototype_frame" /\ \E g, f : answers' = [answers EXCEPT ![current] = Goal(g, f)]
  PROVE  BrowserInv' /\ Refusable'
<1> DEFINE q == def.questions[current]
<1>1. /\ Way /\ Publishable(def) /\ BrowserInv /\ Refusable
      /\ EnteredIn(def, answers) /\ RecordedIn(def, answers, interactions)
      /\ phase = "question" /\ current \in Codes(def) /\ ~q.hidden /\ q.type = "prototype_test"
  BY FigmaShown
<1>2. Len(interactions) \in Nat /\ Cardinality(Of(interactions, x.code)) \in Nat
  BY <1>1, OfFinite DEF RecordedIn
<1>3. /\ Cardinality(Of(interactions, x.code)) < MaxPrototypeEvents /\ Len(interactions) < MaxInteractions
      /\ r.interactions = Append(interactions, x)
  BY <1>1, <1>2, PrototypeTaken
<1>4. /\ EnteredIn(def, answers') /\ \A c \in Codes(def) : c # current => answers'[c] = answers[c]
      /\ answers'[current] = answers[current] \/ x.event = "prototype_frame"
  <2>1. CASE answers' = answers
    BY <1>1, <2>1
  <2>2. CASE x.event = "prototype_frame" /\ \E g, f : answers' = [answers EXCEPT ![current] = Goal(g, f)]
    <3>1. PICK g, f : answers' = [answers EXCEPT ![current] = Goal(g, f)]
      BY <2>2
    <3>2. Scored(def, answers, current, g, f, answers')
      BY <1>1, <3>1 DEF Scored
    <3> HIDE DEF q
    <3>3. EnteredIn(def, answers') /\ Spares(def, answers, current, answers')
      BY <3>2, GoalSet
    <3> QED BY <2>2, <3>3 DEF Spares
  <2> QED BY <2>1, <2>2
<1>5. RecordedIn(def, answers', Append(interactions, x))
  BY <1>1, <1>3, <1>4, PrototypeRecorded
<1>6. BrowserInv'
  BY <1>1, <1>3, <1>4, <1>5, AnswerChanged
<1> QED BY <1>1, <1>6, RefusableKept

LEMMA OnlyFigma ==
  ASSUME RuntimeInv, figma.mounted, def' = def, phase' = phase, current' = current, history' = history,
         request' = request, answers' = answers, interactions' = interactions,
         \E c, r \in BOOLEAN : \E l : figma' = Instance(c, l, r)
  PROVE  BrowserInv' /\ Refusable'
<1>1. /\ Way /\ Publishable(def) /\ BrowserInv /\ Refusable
      /\ EnteredIn(def, answers) /\ RecordedIn(def, answers, interactions)
      /\ phase = "question" /\ def.questions[current].type = "prototype_test"
  BY FigmaShown
<1>2. Mounted'
  BY <1>1 DEF Mounted
<1>3. BrowserInv'
  BY <1>1, <1>2, AnswerChanged
<1> QED BY <1>1, <1>3, RefusableKept

LEMMA FrameRuns == ASSUME RuntimeInv, NEW f, FigmaFrame(f) PROVE BrowserInv' /\ Refusable'
<1>1. /\ figma.mounted /\ f # NoFrame /\ def' = def /\ phase' = phase /\ current' = current
      /\ history' = history /\ request' = request
  BY DEF FigmaFrame
<1>2. PICK c, b \in BOOLEAN : \E l : figma = Instance(c, l, b)
  BY <1>1, FigmaShown
<1>3. PICK l : figma = Instance(c, l, b)
  BY <1>2
<1>4. PICK x : x = PrototypeEvent(current, "prototype_frame", f, FALSE)
  OBVIOUS
<1>5. PICK r : r = RecordSubmissionInteraction(def, interactions, x)
  OBVIOUS
<1>6. PICK reached \in BOOLEAN : reached = PrototypeGoalReached(figma.reached, f, Question.goal)
  BY <1>3 DEF Instance, PrototypeGoalReached
<1>7. CASE r.ok
  <2>1. /\ interactions' = r.interactions
        /\ answers' = [answers EXCEPT ![current] = Goal(reached, f)]
        /\ figma' = [figma EXCEPT !.last = f, !.reached = reached]
    BY <1>4, <1>5, <1>6, <1>7 DEF FigmaFrame, SetAnswer
  <2>2. x.code = current /\ x.event = "prototype_frame" /\ x.frame = f
    BY <1>4 DEF PrototypeEvent
  <2>3. phase = "question" /\ def.questions[current].type = "prototype_test"
    BY <1>1, FigmaShown
  <2>4. Recordable(def.questions[current], x)
    BY <1>1, <2>2, <2>3 DEF Recordable, FrameEvents
  <2>5. figma' = Instance(c, f, reached)
    BY <1>3, <2>1 DEF Instance
  <2>6. Mounted'
    BY <1>1, <2>3, <2>5 DEF Mounted
  <2> QED BY <1>1, <1>5, <1>7, <2>1, <2>2, <2>4, <2>6, EventTaken
<1>8. CASE ~r.ok
  <2>1. interactions' = interactions /\ answers' = answers /\ figma' = [figma EXCEPT !.last = f]
    BY <1>4, <1>5, <1>8 DEF FigmaFrame
  <2>2. figma' = Instance(c, f, b)
    BY <1>3, <2>1 DEF Instance
  <2> QED BY <1>1, <2>1, <2>2, OnlyFigma
<1> QED BY <1>7, <1>8

LEMMA FigmaRuns == ASSUME RuntimeInv, Figma PROVE BrowserInv' /\ Refusable'
<1>1. CASE FigmaLoaded
  BY <1>1, FrameRuns DEF FigmaLoaded
<1>2. CASE \E f \in Presented : FigmaFrame(f)
  BY <1>2, FrameRuns
<1>3. ASSUME NEW event \in {"prototype_click", "prototype_status"}, NEW odd, FigmaOther(event, odd)
      PROVE  BrowserInv' /\ Refusable'
  <2>1. PICK x : x = PrototypeEvent(current, event, NoFrame, odd)
    OBVIOUS
  <2>2. PICK r : r = RecordSubmissionInteraction(def, interactions, x)
    OBVIOUS
  <2>3. /\ figma.mounted /\ def' = def /\ phase' = phase /\ current' = current
        /\ history' = history /\ request' = request /\ answers' = answers /\ figma' = figma
        /\ r.ok /\ interactions' = r.interactions
    BY <1>3, <2>1, <2>2 DEF FigmaOther
  <2>4. x.code = current /\ x.event = event
    BY <2>1 DEF PrototypeEvent
  <2>5. /\ def.questions[current].type = "prototype_test" /\ Mounted
    BY <2>3, FigmaShown DEF BrowserInv
  <2>6. Recordable(def.questions[current], x)
    BY <2>4, <2>5 DEF Recordable, FrameEvents
  <2>7. Mounted'
    BY <2>3, <2>5 DEF Mounted
  <2> QED BY <2>2, <2>3, <2>4, <2>6, <2>7, EventTaken
<1> QED BY <1>1, <1>2, <1>3 DEF Figma

(***************************************************************************)
(* The respondent's steps, and the network's.                              *)
(***************************************************************************)
LEMMA RespondentRuns == ASSUME RuntimeInv, Respondent PROVE BrowserInv' /\ Refusable'
<1>0. Way /\ Publishable(def) /\ BrowserInv /\ Refusable
  BY DEF RuntimeInv
<1>1. CASE ConsentToFigma
  <2>1. /\ figma.mounted /\ def' = def /\ phase' = phase /\ current' = current /\ history' = history
        /\ request' = request /\ answers' = answers /\ interactions' = interactions
        /\ figma' = [figma EXCEPT !.consented = TRUE]
    BY <1>1 DEF ConsentToFigma
  <2>2. PICK c, b \in BOOLEAN : \E l : figma = Instance(c, l, b)
    BY <2>1, FigmaShown
  <2>3. PICK l : figma = Instance(c, l, b)
    BY <2>2
  <2>4. figma' = Instance(TRUE, l, b)
    BY <2>1, <2>3 DEF Instance
  <2> QED BY <2>1, <2>4, OnlyFigma
<1>2. CASE ViewportDenied
  <2>1. Fresh("away") /\ def' = def
    BY <1>2 DEF ViewportDenied
  <2>2. BrowserInv'
    BY <2>1, FreshBrowser
  <2>3. CASE request.stage = "idle"
    <3>1. request' = request
      BY <1>2, <2>3 DEF ViewportDenied
    <3> QED BY <1>0, <2>1, <2>2, <3>1, RefusableKept
  <2>4. CASE request.stage # "idle"
    <3>1. request' = [request EXCEPT !.mine = FALSE]
      BY <1>2, <2>4 DEF ViewportDenied
    <3>2. /\ request'.stage = request.stage /\ request'.sub = request.sub
          /\ request'.visited = request.visited /\ DOMAIN request' = DOMAIN request
      BY <1>0, <2>4, <3>1 DEF Refusable
    <3>3. Refusable'
      BY <1>0, <2>1, <2>4, <3>2 DEF Refusable
    <3> QED BY <2>2, <3>3
  <2> QED BY <2>3, <2>4
<1>3. CASE ViewportAllowed
  <2>1. Fresh("intro") /\ def' = def /\ request' = request
    BY <1>3 DEF ViewportAllowed
  <2> QED BY <1>0, <2>1, FreshBrowser, RefusableKept
<1> QED BY <1>1, <1>2, <1>3, StartRuns, NextRuns, BackRuns, ChangeRuns, ClickRuns DEF Respondent

LEMMA NetworkRuns == ASSUME RuntimeInv, Network PROVE BrowserInv' /\ Refusable'
<1>0. Way /\ Publishable(def) /\ BrowserInv /\ Refusable
  BY DEF RuntimeInv
<1>1. ASSUME UNCHANGED <<def, browser>> PROVE BrowserInv'
  BY <1>0, <1>1, BrowserUntouched DEF browser
<1>2. CASE EnsureStarted
  BY <1>0, <1>1, <1>2, RefusableKept DEF EnsureStarted
<1>3. CASE SendCompletion
  <2>1. request.stage = "starting" /\ request' = [request EXCEPT !.stage = "sent"] /\ UNCHANGED <<def, browser>>
    BY <1>3 DEF SendCompletion
  <2>2. /\ request'.stage = "sent" /\ request'.sub = request.sub
        /\ request'.visited = request.visited /\ DOMAIN request' = DOMAIN request
    BY <1>0, <2>1 DEF Refusable
  <2>3. Refusable'
    BY <1>0, <2>1, <2>2 DEF Refusable
  <2> QED BY <1>1, <2>1, <2>3
<1>4. CASE CompleteResponse
  <2>1. request.stage = "sent" /\ UNCHANGED <<def, browser>>
    BY <1>4 DEF CompleteResponse
  <2>2. PICK s \in {"finalized", "invalid", "accepted"} :
          /\ request' = [request EXCEPT !.stage = s]
          /\ s = "invalid" => ~ValidateSubmission(def, request.sub).ok
    BY <1>4 DEF CompleteResponse
  <2>3. /\ request'.stage = s /\ request'.sub = request.sub
        /\ request'.visited = request.visited /\ DOMAIN request' = DOMAIN request
    BY <1>0, <2>1, <2>2 DEF Refusable
  <2>4. Refusable'
    BY <1>0, <2>1, <2>2, <2>3 DEF Refusable
  <2> QED BY <1>1, <2>1, <2>4
<1>5. CASE SubmissionFails
  <2>1. request' = NoRequest /\ UNCHANGED <<def, browser>>
    BY <1>5 DEF SubmissionFails
  <2>2. request'.stage = "idle"
    BY <2>1 DEF NoRequest
  <2> QED BY <1>0, <1>1, <2>1, <2>2, RefusableKept
<1>6. CASE SubmissionSucceeds
  <2>1. /\ request' = NoRequest /\ def' = def /\ answers' = answers /\ history' = history
        /\ interactions' = interactions
    BY <1>6 DEF SubmissionSucceeds
  <2>2. request'.stage = "idle"
    BY <2>1 DEF NoRequest
  <2>3. Refusable'
    BY <1>0, <2>1, <2>2, RefusableKept
  <2>4. \/ phase' = phase /\ current' = current /\ figma' = figma
        \/ \E p \in {"disqualified", "done"} : Show(p, current, answers)
    BY <1>6 DEF SubmissionSucceeds
  <2>5. \/ phase' = phase /\ current' = current /\ figma' = figma
        \/ phase' # "question" /\ current' = current /\ figma' = Unmounted
    BY <2>4 DEF Show, FigmaFor
  <2> QED BY <1>0, <2>1, <2>3, <2>5, BrowserUntouched
<1> QED BY <1>2, <1>3, <1>4, <1>5, <1>6 DEF Network
-----------------------------------------------------------------------------
LEMMA RuntimeInit == Init => RuntimeInv
<1> SUFFICES ASSUME Init PROVE RuntimeInv
  OBVIOUS
<1>1. /\ def \in Definitions /\ Publishable(def) /\ phase = "intro" /\ current = 0
      /\ answers = Unanswered(def) /\ history = <<>> /\ interactions = <<>> /\ figma = Unmounted
      /\ request = NoRequest
  BY DEF Init
<1>2. Way
  BY <1>1 DEF Way, HistoryOrdered
<1>3. Range(history) = {} /\ Behind = {}
  BY <1>1 DEF Range, Behind
<1>4. Linked /\ Passed /\ Unhidden /\ Mounted
  BY <1>1, <1>3 DEF Linked, Passed, Unhidden, Mounted
<1>5. BrowserInv
  BY <1>1, <1>4, NothingYet DEF BrowserInv
<1>6. Refusable
  BY <1>1 DEF Refusable, NoRequest
<1> QED BY <1>1, <1>2, <1>5, <1>6 DEF RuntimeInv

LEMMA RuntimeStep == RuntimeInv /\ [Next]_vars => RuntimeInv'
<1> SUFFICES ASSUME RuntimeInv, [Next]_vars PROVE RuntimeInv'
  OBVIOUS
<1>0. Way /\ Publishable(def) /\ BrowserInv /\ Refusable
  BY DEF RuntimeInv
<1>1. CASE UNCHANGED vars
  <2>1. BrowserInv' /\ Refusable'
    BY <1>0, <1>1, BrowserUntouched, RefusableKept DEF vars, browser
  <2>2. Way' /\ def' = def
    BY <1>0, <1>1, WayUntouched DEF vars, browser
  <2> QED BY <1>0, <2>1, <2>2 DEF RuntimeInv
<1>2. CASE Next
  <2>1. BrowserInv' /\ Refusable'
    BY <1>2, RespondentRuns, FigmaRuns, NetworkRuns DEF Next
  <2>2. Way'
    BY <1>0, <1>2, RespondentWay, FigmaWay, NetworkWay DEF Next
  <2>3. def' = def
    BY <1>2 DEF Next, Respondent, Figma, Network, Start, Next_, GoNext, Back, ChangeAnswer, ClickStimulus,
                ConsentToFigma, FigmaLoaded, FigmaFrame, FigmaOther, ViewportDenied, ViewportAllowed,
                EnsureStarted, SendCompletion, CompleteResponse, SubmissionFails, SubmissionSucceeds
  <2> QED BY <1>0, <2>1, <2>2, <2>3 DEF RuntimeInv
<1> QED BY <1>1, <1>2

(***************************************************************************)
(* What the renderer lets a respondent submit is refused for the three     *)
(* reasons of RefusedOnlyFor only: whatever the instruments, the order of  *)
(* the inputs, the ways back and the budgets of interactions.              *)
(***************************************************************************)
THEOREM RefusedCorrect == Spec => []RefusedOnlyFor
<1>1. RuntimeInv => RefusedOnlyFor
  <2> SUFFICES ASSUME RuntimeInv, request.stage = "invalid" PROVE RefusedOnlyFor
    BY DEF RefusedOnlyFor
  <2>1. request.stage # "idle" /\ Refusable
    BY DEF RuntimeInv
  <2>2. Explained(def, request.sub, request.visited)
    BY <2>1 DEF Refusable
  <2> QED BY <2>2, Zenon DEF Explained, RefusedOnlyFor, Bad, GoalFrameSeen
<1> QED BY <1>1, RuntimeInit, RuntimeStep, PTL DEF Spec

(***************************************************************************)
(* Types.  What the invariants above do not say of them.                   *)
(***************************************************************************)
Phases == {"intro", "question", "away"} \cup {"done", "disqualified"}

Typed ==
  /\ phase \in Phases
  /\ Len(history) <= MaxHistory
  /\ request.stage # "idle" => request.stage \in Stages /\ request.mine \in BOOLEAN
  /\ response \in {"none", "started"} \cup Final

LEMMA GoNextTyped ==
  ASSUME Typed, NEW from, NEW given, NEW past, GoNext(from, given, past), Len(past) <= MaxHistory
  PROVE  Typed'
<1>1. history' = past /\ response' = response
  BY DEF GoNext
<1>2. \/ phase' = "question" /\ request' = request
      \/ phase' = phase /\ request'.stage = "starting" /\ request'.mine = TRUE
  <2>1. CASE NextStep(def, from, given).kind = "question"
    BY <2>1 DEF GoNext, Show
  <2>2. CASE NextStep(def, from, given).kind # "question"
    <3>1. PICK s, v : request' = [stage |-> "starting", mine |-> TRUE, visited |-> v, sub |-> s]
      BY <2>2 DEF GoNext
    <3>2. phase' = phase
      BY <2>2 DEF GoNext
    <3> QED BY <3>1, <3>2
  <2> QED BY <2>1, <2>2
<1> QED BY <1>1, <1>2 DEF Typed, Phases, Stages

LEMMA TypedStep == Typed /\ Answer /\ RuntimeInv /\ [Next]_vars => Typed'
<1> SUFFICES ASSUME Typed, Answer, RuntimeInv, [Next]_vars PROVE Typed'
  OBVIOUS
<1>0. /\ history \in Seq(Codes(def)) /\ Len(history) \in Nat /\ MaxHistory \in Nat /\ Len(<<>>) = 0
      /\ phase \in {"intro", "away"} => history = <<>>
  BY HistoryAssumption DEF RuntimeInv, Way
<1>1. ASSUME request' = request \/ request'.stage = "idle", response' = response, phase' \in Phases,
             history' = history \/ history' = <<>>
      PROVE  Typed'
  BY <1>0, <1>1 DEF Typed
<1>2. CASE UNCHANGED vars
  BY <1>1, <1>2 DEF vars, browser, Typed
<1>3. CASE Start
  BY <1>0, <1>3, GoNextTyped DEF Start, Typed
<1>4. CASE Next_
  <2>1. Len(history) < MaxHistory /\ \E given : GoNext(current, given, Append(history, current))
    BY <1>4 DEF Next_
  <2>2. Len(Append(history, current)) <= MaxHistory
    <3>1. Len(Append(history, current)) = Len(history) + 1
      BY <1>0
    <3> QED BY <1>0, <2>1, <3>1
  <2> QED BY <2>1, <2>2, GoNextTyped
<1>5. CASE Back
  <2>1. request' = request /\ response' = response /\ phase' \in Phases
    BY <1>5 DEF Back, Show, Phases
  <2>2. CASE history = <<>>
    BY <1>1, <1>5, <2>1, <2>2 DEF Back
  <2>3. CASE history # <<>>
    <3>1. history' = SubSeq(history, 1, Len(history) - 1)
      BY <1>5, <2>3 DEF Back
    <3>2. Len(history) \in Nat \ {0}
      BY <1>0, <2>3
    <3>3. \A s \in Seq(Codes(def)) : \A n \in Nat : n < Len(s) => Len(SubSeq(s, 1, n)) = n
      OBVIOUS
    <3>4. Len(history') <= MaxHistory
      BY <1>0, <3>1, <3>2, <3>3 DEF Typed
    <3> QED BY <2>1, <3>4 DEF Typed
  <2> QED BY <2>2, <2>3
<1>6. CASE \/ ChangeAnswer \/ ConsentToFigma \/ FigmaLoaded \/ \E f \in Presented : FigmaFrame(f)
           \/ \E odd \in Measures, k \in {1, 2} : ClickStimulus(k, odd)
           \/ \E event \in {"prototype_click", "prototype_status"}, odd \in Measures : FigmaOther(event, odd)
  <2>1. phase' = phase /\ history' = history /\ request' = request /\ response' = response
    BY <1>6 DEF ChangeAnswer, ConsentToFigma, FigmaLoaded, FigmaFrame, ClickStimulus, FigmaOther
  <2> QED BY <1>1, <2>1 DEF Typed
<1>7. CASE ViewportDenied
  <2>1. history' = <<>> /\ phase' = "away" /\ response' = response
    BY <1>7 DEF ViewportDenied, Fresh
  <2>2. CASE request.stage = "idle"
    <3>1. request' = request
      BY <1>7, <2>2 DEF ViewportDenied
    <3> QED BY <1>1, <2>1, <3>1 DEF Phases
  <2>3. CASE request.stage # "idle"
    <3>1. request' = [request EXCEPT !.mine = FALSE]
      BY <1>7, <2>3 DEF ViewportDenied
    <3>2. request'.stage = request.stage /\ request'.mine = FALSE
      BY <2>3, <3>1 DEF Answer, InFlight
    <3>3. Len(history') <= MaxHistory /\ phase' \in Phases
      BY <1>0, <2>1 DEF Phases
    <3>4. request'.stage \in Stages /\ request'.mine \in BOOLEAN
      BY <2>3, <3>2 DEF Typed
    <3> QED BY <2>1, <3>3, <3>4 DEF Typed
  <2> QED BY <2>2, <2>3
<1>8. CASE ViewportAllowed
  <2>1. history' = <<>> /\ phase' = "intro" /\ response' = response /\ request' = request
    BY <1>8 DEF ViewportAllowed, Fresh
  <2> QED BY <1>1, <2>1 DEF Phases
<1>9. CASE EnsureStarted
  <2>1. phase' = phase /\ history' = history /\ request' = request /\ response' = "started"
    BY <1>9 DEF EnsureStarted, browser
  <2> QED BY <2>1 DEF Typed
<1>10. CASE SendCompletion \/ CompleteResponse
  <2>1. phase' = phase /\ history' = history /\ request.stage # "idle"
    BY <1>10 DEF SendCompletion, CompleteResponse, browser
  <2>2. PICK s \in Stages : request' = [request EXCEPT !.stage = s]
    BY <1>10 DEF SendCompletion, CompleteResponse, Stages
  <2>3. request'.stage = s /\ request'.mine = request.mine
    BY <2>1, <2>2 DEF Answer, InFlight
  <2>4. response' = response \/ response' = request.sub.status
    BY <1>10 DEF SendCompletion, CompleteResponse, ValidateSubmission, Validated
  <2>5. response' \in {"none", "started"} \cup Final
    BY <2>1, <2>4 DEF Typed, Answer, InFlight
  <2> QED BY <2>1, <2>3, <2>5 DEF Typed
<1>11. CASE SubmissionFails
  <2>1. request'.stage = "idle" /\ response' = response /\ phase' = phase /\ history' = history
    BY <1>11 DEF SubmissionFails, NoRequest, browser
  <2> QED BY <1>1, <2>1 DEF Typed
<1>12. CASE SubmissionSucceeds
  <2>1. request'.stage = "idle" /\ response' = response /\ history' = history
    BY <1>12 DEF SubmissionSucceeds, NoRequest
  <2>2. phase' \in Phases
    BY <1>12 DEF SubmissionSucceeds, Show, Typed, Phases
  <2> QED BY <1>1, <2>1, <2>2
<1> QED BY <1>2, <1>3, <1>4, <1>5, <1>6, <1>7, <1>8, <1>9, <1>10, <1>11, <1>12
        DEF Next, Respondent, Figma, Network

LEMMA Together == Typed /\ Answer /\ RuntimeInv => TypeOK
<1> SUFFICES ASSUME Typed, Answer, RuntimeInv PROVE TypeOK
  OBVIOUS
<1>1. /\ def \in Definitions /\ current \in {0} \cup Codes(def) /\ history \in Seq(Codes(def))
      /\ phase = "question" => current # 0
  BY CodesAreNat DEF RuntimeInv, Way
<1>2. /\ DOMAIN answers = Codes(def) /\ Len(interactions) <= MaxInteractions
      /\ \A k \in DOMAIN interactions : interactions[k].code \in Codes(def)
  BY DEF RuntimeInv, BrowserInv, EnteredIn, RecordedIn
<1>3. figma.mounted => figma.consented \in BOOLEAN /\ figma.reached \in BOOLEAN
  <2>1. CASE figma = Unmounted
    BY <2>1 DEF Unmounted
  <2>2. ASSUME NEW c \in BOOLEAN, NEW r \in BOOLEAN, NEW l, figma = Instance(c, l, r)
        PROVE  figma.consented \in BOOLEAN /\ figma.reached \in BOOLEAN
    BY <2>2 DEF Instance
  <2> QED BY <2>1, <2>2 DEF RuntimeInv, BrowserInv, Mounted
<1>4. request.stage # "idle" => request.sub.status \in Final
  BY DEF Answer, InFlight
<1> QED BY <1>1, <1>2, <1>3, <1>4 DEF TypeOK, Typed, Phases

(***************************************************************************)
(* Types (TypeOK): the bounds of the interactions and of the history hold, *)
(* and what is recorded is of a question of the instrument.                *)
(***************************************************************************)
THEOREM TypeCorrect == Spec => []TypeOK
<1>1. Init => Typed /\ Answer /\ RuntimeInv
  <2>1. Init => Answer
    BY DEF Init, Answer, ThankYouIsStored, InFlight, NoRequest
  <2>2. Init => Typed
    BY HistoryAssumption DEF Init, Typed, Phases, NoRequest
  <2> QED BY <2>1, <2>2, RuntimeInit
<1>2. (Typed /\ Answer /\ RuntimeInv) /\ [Next]_vars => (Typed /\ Answer /\ RuntimeInv)'
  BY TypedStep, AnswerStep, RuntimeStep
<1> QED BY <1>1, <1>2, Together, PTL DEF Spec
===============================================================================
