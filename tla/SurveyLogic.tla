----------------------------- MODULE SurveyLogic -----------------------------
(***************************************************************************)
(* The instrument and its flow: which question follows which, as computed  *)
(* both by the respondent's browser and by the server that checks what the *)
(* browser sends, and what an instrument must satisfy to be published.     *)
(*                                                                         *)
(* A definition is [blocks, questions]: the blocks' questions in order,    *)
(* each naming its block.  A question's code is its position, so codes are *)
(* unique here; 0 is a code no question has.  Labels and texts are left    *)
(* out.  A value is a record with one field telling its kind.              *)
(***************************************************************************)
EXTENDS Integers, Sequences, FiniteSets, Functions

CONSTANTS
  MaxInteractions,      \* MAX_SUBMISSION_INTERACTIONS, 300 in the code
  MaxPrototypeEvents    \* MAX_PROTOTYPE_INTERACTIONS_PER_QUESTION, 90

ASSUME BudgetAssumption ==
  MaxInteractions \in Nat /\ MaxPrototypeEvents \in Nat

\* Answers and condition values.  Option identifiers and words are atoms, none
\* part of another; lists keep the order of the clicks.
Missing   == [none |-> TRUE]              \* undefined
Num(n)    == [num |-> n]
Bool(b)   == [bool |-> b]
Word(w)   == [word |-> w]                 \* text, a date, one option
List(s)   == [list |-> s]                 \* multiple choice, ranking
Grid(f)   == [grid |-> f]                 \* matrix, by row
Point(a)  == [asset |-> a]                \* first click on a stimulus
Pick(a)   == [pick |-> a]                 \* preference between stimuli
Goal(g, f) == [goal |-> g, frame |-> f]   \* prototype test

NoFrame == ""                             \* null, or no goal configured

Is(v, field) == field \in DOMAIN v

Answered(v) == v \notin {Missing, Word(""), List(<<>>)}

\* Number(v), with {} for NaN.
AsNumber(v) ==
  CASE Is(v, "num")  -> {v.num}
    [] Is(v, "bool") -> IF v.bool THEN {1} ELSE {0}
    [] OTHER         -> {}

\* String(v): an array prints its members, every object prints alike.
AsString(v) ==
  CASE Is(v, "word") -> <<v.word>>
    [] Is(v, "list") -> v.list
    [] Is(v, "bool") -> IF v.bool THEN <<"true">> ELSE <<"false">>
    [] OTHER         -> <<"[object Object]">>

LooseEquals(a, b) ==
  IF Is(a, "num") \/ Is(b, "num")
  THEN AsNumber(a) \cap AsNumber(b) # {}
  ELSE AsString(a) = AsString(b)

NumberPairs(a, b) == AsNumber(a) \X AsNumber(b)

Members(v) == IF Is(v, "list") THEN {Word(v.list[k]) : k \in DOMAIN v.list} ELSE {v}

Holds(op, a, value) ==
  CASE op = "eq"  -> LooseEquals(a, value)
    [] op = "ne"  -> ~LooseEquals(a, value)
    [] op = "lt"  -> \E p \in NumberPairs(a, value) : p[1] < p[2]
    [] op = "lte" -> \E p \in NumberPairs(a, value) : p[1] <= p[2]
    [] op = "gt"  -> \E p \in NumberPairs(a, value) : p[1] > p[2]
    [] op = "gte" -> \E p \in NumberPairs(a, value) : p[1] >= p[2]
    [] op = "in"     -> Is(value, "list") /\ \E v \in Members(value) : LooseEquals(a, v)
    [] op = "not_in" -> Is(value, "list") /\ \A v \in Members(value) : ~LooseEquals(a, v)
    [] op = "contains" -> IF Is(a, "list") THEN Members(value) \subseteq Members(a)
                                           ELSE AsString(a) = AsString(value)

\* A condition is [q, op, value, hide]; hide is the display effect.
EvaluateCondition(c, answers) ==
  CASE c.op = "answered"     -> Answered(answers[c.q])
    [] c.op = "not_answered" -> ~Answered(answers[c.q])
    [] OTHER -> Answered(answers[c.q]) /\ Holds(c.op, answers[c.q], c.value)

ConditionsHold(conds, answers) ==
  \A k \in DOMAIN conds : EvaluateCondition(conds[k], answers)

\* mode "all" is the legacy conjunction, "any" was chosen explicitly.
DisplayConditionsHold(conds, answers, mode) ==
  LET holding == {k \in DOMAIN conds : EvaluateCondition(conds[k], answers) # conds[k].hide}
  IN conds # <<>> => CASE mode = "any" -> holding # {}
                       [] mode = "all" -> holding = DOMAIN conds

----------------------------------------------------------------------------
(* The flow.                                                               *)

Codes(d) == DOMAIN d.questions
END        == -1
DISQUALIFY == -2

QuestionStep(i) == [kind |-> "question", code |-> i]
EndStep         == [kind |-> "end", code |-> 0]
DisqualifyStep  == [kind |-> "disqualified", code |-> 0]

Displayed(part, answers) ==
  ~part.hidden /\ DisplayConditionsHold(part.visibleIf, answers, part.mode)

Visible(d, i, answers) ==
  /\ Displayed(d.blocks[d.questions[i].block], answers)
  /\ Displayed(d.questions[i], answers)

Least(S) == CHOOSE i \in S : \A j \in S : i <= j

FirstOf(shown) == IF shown = {} THEN EndStep ELSE QuestionStep(Least(shown))

FirstVisibleFrom(d, start, answers) ==
  FirstOf({i \in Codes(d) : i >= start /\ Visible(d, i, answers)})

\* The rules of question i that decide: a target that is not ahead is skipped.
Deciding(d, i, answers) ==
  LET rules == d.questions[i].branches
  IN {k \in DOMAIN rules : /\ ConditionsHold(rules[k].when, answers)
                           /\ \/ rules[k].goTo \in {END, DISQUALIFY}
                              \/ rules[k].goTo \in Codes(d) /\ rules[k].goTo > i}

Follow(d, goTo, answers) ==
  IF goTo = END THEN EndStep
  ELSE IF goTo = DISQUALIFY THEN DisqualifyStep
  ELSE FirstVisibleFrom(d, goTo, answers)

Target(branches, from, deciding) ==
  IF deciding = {} THEN from + 1 ELSE branches[Least(deciding)].goTo

\* from = 0 stands for null, the start of the survey.
NextStep(d, from, answers) ==
  Follow(d, IF from = 0 THEN 1
            ELSE Target(d.questions[from].branches, from, Deciding(d, from, answers)),
         answers)

\* visiblePath: the codes on the way as a set, and the step that ends it.
Advance(d, answers, path) ==
  IF path.step.kind # "question" THEN path
  ELSE [codes |-> path.codes \cup {path.step.code},
        step  |-> NextStep(d, path.step.code, answers)]

VisiblePath(d, answers) ==
  LET walk[k \in 0 .. Len(d.questions)] ==
        IF k = 0 THEN [codes |-> {}, step |-> NextStep(d, 0, answers)]
                 ELSE Advance(d, answers, walk[k - 1])
  IN walk[Len(d.questions)]

----------------------------------------------------------------------------
(* validateInstrument: what publishing demands of the flow.                *)

RequiredInteractionBudget(d) ==
  LET shown(type) == {i \in Codes(d) : d.questions[i].type = type /\ ~d.questions[i].hidden}
  IN MaxPrototypeEvents * Cardinality(shown("prototype_test"))
       + Cardinality(shown("first_click"))

HiddenCodes(d) ==
  {i \in Codes(d) : d.questions[i].hidden \/ d.blocks[d.questions[i].block].hidden}

IncompleteLogicCondition(c) ==
  c.op \notin {"answered", "not_answered"} /\ ~Answered(c.value)

EarlierVisible(d, c, before) == c.q \in Codes(d) \ HiddenCodes(d) /\ c.q < before

DisplayConditionOK(d, c, before) ==
  ~IncompleteLogicCondition(c) /\ EarlierVisible(d, c, before)

BranchOK(d, i, rule) ==
  /\ rule.goTo \notin {END, DISQUALIFY} =>
       rule.goTo \in Codes(d) \ HiddenCodes(d) /\ rule.goTo > i
  /\ \A k \in DOMAIN rule.when : EarlierVisible(d, rule.when[k], i + 1)

\* What a type needs of its options, stimuli, rows or frames.
QuestionOK(q) ==
  /\ q.type \in {"single_choice", "dropdown", "multiple_choice", "ranking",
                 "scale", "preference_test"} => Len(q.options) >= 2
  /\ q.type \in {"matrix", "first_click"} => q.options # <<>>
  /\ IsInjective(q.options)
  /\ q.type = "prototype_test" =>
       q.start # NoFrame /\ (q.task => q.goal \notin {NoFrame, q.start})

BlockStart(d, b) == 1 + Cardinality({i \in Codes(d) : d.questions[i].block < b})

Publishable(d) ==
  /\ d.questions # <<>>
  /\ RequiredInteractionBudget(d) <= MaxInteractions
  /\ \A b \in DOMAIN d.blocks :
       /\ d.blocks[b].hidden => d.blocks[b].visibleIf = <<>>
       /\ \A k \in DOMAIN d.blocks[b].visibleIf :
            DisplayConditionOK(d, d.blocks[b].visibleIf[k], BlockStart(d, b))
  /\ \A i \in Codes(d) : LET q == d.questions[i] IN
       /\ QuestionOK(q)
       /\ q.hidden => q.visibleIf = <<>> /\ q.branches = <<>>
       /\ \A k \in DOMAIN q.branches  : BranchOK(d, i, q.branches[k])
       /\ \A k \in DOMAIN q.visibleIf : DisplayConditionOK(d, q.visibleIf[k], i)

\* The model's questions, to be altered with EXCEPT: optional, no logic.
Plain(type, options) ==
  [type |-> type, options |-> options, required |-> FALSE, hidden |-> FALSE,
   block |-> 1, visibleIf |-> <<>>, mode |-> "all", branches |-> <<>>,
   start |-> "start", goal |-> "goal", task |-> TRUE, consent |-> FALSE]

PlainBlock == [hidden |-> FALSE, visibleIf |-> <<>>, mode |-> "all"]
=============================================================================
