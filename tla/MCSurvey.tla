------------------------------- MODULE MCSurvey -------------------------------
(***************************************************************************)
(* A family of small instruments: a gate that routes, a question that may  *)
(* be passed by, and a last one whose display may depend on either.  Init  *)
(* keeps the publishable members.                                          *)
(***************************************************************************)
EXTENDS SurveyRuntime

Cond(q, op, value, hide) == [q |-> q, op |-> op, value |-> value, hide |-> hide]
Rule(q, op, value, goTo) == [when |-> <<Cond(q, op, value, FALSE)>>, goTo |-> goTo]
Required(q) == [q EXCEPT !.required = TRUE]
If(q, c)    == [q EXCEPT !.visibleIf = <<c>>]

\* Gates: forward, back (not publishable), out, and a prototype.
Gate(goTo) == [Required(Plain("single_choice", <<"a", "b">>)) EXCEPT
                 !.branches = <<Rule(1, "eq", Word("a"), goTo)>>]
Gates == <<Gate(3), Gate(1), Gate(DISQUALIFY),
           [Plain("scale", <<0, 2>>) EXCEPT
              !.branches = <<Rule(1, "lt", Num(2), 3)>>],
           Plain("prototype_test", <<>>)>>

Middles ==
  LET ab(type) == Plain(type, <<"a", "b">>) IN
  <<ab("multiple_choice"), ab("ranking"), ab("first_click"), ab("text"),
    ab("dropdown"), Required(ab("matrix")), Required(ab("preference_test")),
    Plain("date", <<>>), Plain("number", <<>>), Plain("prototype_test", <<>>)>>

Lasts ==
  LET consent == Required(Plain("consent", <<>>)) IN
  <<[consent EXCEPT !.branches = <<Rule(3, "ne", Bool(TRUE), DISQUALIFY)>>],
    If(consent, Cond(2, "answered", Missing, FALSE)),
    If(consent, Cond(2, "contains", Word("a"), TRUE)),
    [Plain("prototype_test", <<>>) EXCEPT !.consent = TRUE]>>

Study(g, m, l) ==
  [questions |-> <<Gates[g], Middles[m], Lasts[l]>>, blocks |-> <<PlainBlock>>]

\* Every gate before every middle, the lasts in turn; two prototypes, one right
\* after the other, in a single member.
MCDefinitions ==
  {Study(g, m, 1 + ((g + m) % 4)) : g \in 1 .. 4, m \in DOMAIN Middles}
    \cup {Study(5, m, 1 + (m % 3)) : m \in 1 .. 9}

\* A gate that disqualifies, then an optional number, then a consent.
MCRestless == {Study(3, 9, 1)}
MCPresented == {"start", "goal"}
MCMeasures == {FALSE, TRUE}
MCWords == {"a", Overlong}
=============================================================================
