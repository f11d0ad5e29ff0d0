---------------------------- MODULE MCWorkspace -----------------------------
(***************************************************************************)
(* An owner and an analyst; a study of two versions; six files; two       *)
(* recruitment pages.                                                      *)
(***************************************************************************)
EXTENDS Workspace

CONSTANTS ann, bob

Member(role) == [role |-> role, state |-> "active"]
MCFounded == {(ann :> Member("owner")) @@ (bob :> Member(role)) : role \in {"administrator", "analyst"}}

\* Studies: a question about a ranking, then one with a number of its own.
Options(v, w) == <<[id |-> "a", value |-> v], [id |-> "b", value |-> w]>>
Asked(type) == [code |-> "q", type |-> type, options |-> Options(1, 2), rows |-> <<"r">>]
MCTitle == <<"Pulse", "Pulse">>
MCInstrument == << <<Asked("ranking"), Asked("likert")>>, <<Asked("multiple_choice")>> >>
MCAnswers ==
    [ranking |-> {[list |-> <<"a", "b">>], [list |-> <<"b", "a">>]},
     multiple_choice |-> {[list |-> <<"b">>]},
     likert |-> {OptionAnswer(Options(1, 2)[2])}]
Response(n, status, answer) == [study |-> 1, version |-> n, status |-> status, answer |-> answer]
MCStarted == {<<Response(1, "completed", [list |-> <<"a", "b">>])>>}
NothingBuilt == [name \in Names_ |-> <<>>]
FirstBuild ==
    [kind |-> "built", study |-> 1, of |-> 1, parent |-> <<>>, question |-> Asked("ranking"),
     variables |-> Variables(Asked("ranking")),
     columns |-> Columns(Asked("ranking")),
     rows |-> <<[c \in {Key} \cup ToSet(Columns(Asked("ranking"))) |->
                  IF c = Key THEN Num(1) ELSE IF c[3] = "a" THEN Num(1) ELSE Num(2)]>>]
MCBuilt == {NothingBuilt, [NothingBuilt EXCEPT ![NameOf(1, 1)] = <<FirstBuild>>]}

\* CSV files: two columns that share a normalised name; duplicate headers; a blank
\* header; a column more than can be imported, in a file with a long name.  Workbooks:
\* a table whose third date is none, and a header that is too long; a worksheet whose
\* name has a blank before it, and its namesake.
Headers == {"Score", "score!", "SCORE", "Date", "Why", ""}
MCNormal == [h \in Headers |->
               CASE h \in {"Score", "score!", "SCORE"} -> "score" [] h = "Date" -> "date"
                 [] h = "Why" -> "why" [] h = "" -> "variable_1"]
MCFolded == [h \in Headers |-> IF h = "SCORE" THEN "Score" ELSE h]
MCSuffixed(base, n) == base \o "_" \o ToString(n)
MCTrim(s) == IF s = " S" THEN "S" ELSE s
MCOptionValue(s) == IF s \in {" S", "S"} THEN "S" ELSE s
Column1(header) == [headers |-> <<header>>, rows |-> << <<"1">> >>]
Csv(table) == <<[name |-> "", table |-> table]>>
MCFiles ==
    [a |-> Csv([headers |-> <<"Score", "score!">>,
                rows |-> << <<"1,5", "x">>, <<"", "">>, <<"", "2026-02-28">> >>]),
     b |-> <<[name |-> "s1", table |-> [headers |-> <<"Date">>,
                                        rows |-> << <<"2026-02-28">>, <<"2026-02-28">>, <<"x">> >>]],
             [name |-> "s2", table |-> Column1("Why")]>>,
     c |-> Csv([headers |-> <<"Score", "SCORE">>, rows |-> << <<"1", "1">> >>]),
     d |-> Csv(Column1("")),
     e |-> Csv([headers |-> <<"Score", "score!", "Date">>, rows |-> << <<"1", "1", "1">> >>]),
     f |-> <<[name |-> " S", table |-> Column1("Score")], [name |-> "S", table |-> Column1("Date")]>>]
MCBase == [file \in DOMAIN MCFiles |-> file]

\* Recruitment: a page that screens nobody yet, a draft, and a third to be.
Question(n, required) == [position |-> n, required |-> required]
MCFieldType == [size |-> "select", note |-> "text", age |-> "number"]
MCFieldOptions == [size |-> {"s", "l"}, note |-> {}, age |-> {}]
MCPages0 ==
    {<<[exists |-> TRUE, token |-> "one", active |-> TRUE, screening |-> FALSE,
        questions |-> [size |-> Question(0, TRUE)]],
       [exists |-> TRUE, token |-> "two", active |-> FALSE, screening |-> TRUE, questions |-> <<>>],
       NoPage>>}
MCAddress == <<"eva@x", "eva@x">>
MCFresh == <<"one", "two", "three">>
=============================================================================
