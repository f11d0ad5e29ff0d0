------------------------------ MODULE MCBuilder ------------------------------
(* Small instances of Builder: a modern and a legacy page open on one study, *)
(* whose draft is one of three.                                              *)
EXTENDS Builder
CONSTANTS m, l

MCEditor == [t \in Tabs |-> IF t = l THEN "legacy" ELSE "modern"]

Q(type) == [MakeQuestion(type, <<>>) EXCEPT !.look = "a"]
Block(questions) == [visibleIf |-> <<>>, questions |-> questions]
Doc(blocks) == [title |-> "a", look |-> "a", blocks |-> blocks]

(* A condition that is complete on a question of an earlier section. *)
Logic == Doc(<<Block(<<Q("multiple_choice")>>),
               Block(<<[Q("first_click") EXCEPT !.stimuli = <<7, 8>>, !.visibleIf =
                          <<[question |-> <<"multiple_choice", 1>>, op |-> "contains",
                             given |-> TRUE]>>]>>)>>)

(* Images, one short of the limit. *)
Images == Doc(<<Block(<<[Q("first_click") EXCEPT !.stimuli = <<7, 8>>],
                        [Q("preference_test") EXCEPT !.stimuli = <<9>>]>>)>>)

(* A Figma prototype that has been synchronised. *)
Figma == Doc(<<Block(<<[Q("prototype_test") EXCEPT !.prototype =
                 [file |-> "A", start |-> <<"A", 1>>, goal |-> <<"A", 2>>,
                  flow |-> "task", version |-> "A"]]>>)>>)
MCDocuments == {Logic, Images, Figma}
=============================================================================
