--------------------------- MODULE DatasetColumns ---------------------------
(***************************************************************************)
(* The two ways into a dataset: the columns a study's responses are spread *)
(* over (lib/dataset-build.ts), and the variables of an uploaded table     *)
(* (lib/import/parse.ts, lib/import/raw-dataset.ts).                       *)
(*                                                                         *)
(* A cell of an uploaded table is one of a few words, each of a kind; a    *)
(* column's name is the tuple of its parts, so that two names that differ  *)
(* in their parts and agree once joined by "__" are not considered.        *)
(***************************************************************************)
EXTENDS Integers, Sequences, FiniteSets, SequencesExt

CONSTANTS Normal,      \* normalizeVariableName: of each column header
          Folded,      \* toLowerCase: of each column header
          Suffixed(_, _), \* `${base}_${n}`
          Sample,      \* rows an inferred type is based on, 500 in the code
          MaxRows      \* IMPORT_LIMITS.maxRows, 20000 in the code

ASSUME LimitsAssumption == Sample \in Nat /\ MaxRows \in Nat /\ Sample <= MaxRows
-----------------------------------------------------------------------------
(* Response datasets.  A question is [code, type, options, rows]; an option *)
(* is [id, value], and value is NoValue when the builder's field is empty.  *)
(* An answer is Null or a record whose field tells its kind.                *)

NoValue == -1
Null == [null |-> TRUE]
Num(n) == [num |-> n]
Word(w) == [word |-> w]

BaseVars == << <<"respondent_key">>, <<"completed_at">>, <<"language">>, <<"channel">> >>
PanelistVars == << <<"panelist_gender">>, <<"panelist_birth_year">>,
                   <<"panelist_customer_status">> >>

Ids(list) == [k \in DOMAIN list |-> list[k].id]

\* The names of a question's columns.
Columns(q) ==
    CASE q.type \in {"scale", "likert", "choice", "consent", "text"} -> << <<q.code>> >>
      [] q.type = "multiple_choice" ->
            [k \in DOMAIN q.options |-> <<q.code, q.options[k].id>>]
      [] q.type = "matrix" -> [k \in DOMAIN q.rows |-> <<q.code, q.rows[k]>>]
      [] q.type = "ranking" ->
            [k \in DOMAIN q.options |-> <<q.code, "rank", q.options[k].id>>]
      [] q.type = "preference_test" ->
            << <<q.code, "selected">>, <<q.code, "asset">>, <<q.code, "order">> >>
      [] q.type \in {"first_click", "prototype_test"} -> <<>>

Variables(q) == BaseVars \o Columns(q) \o PanelistVars

ToNumber(v) == IF "num" \in DOMAIN v THEN v ELSE Null

\* Mutant: the position of an option among all, not in the answer.
RankOf_Option(q, list, k) == Num(k)

RankOf(q, list, k) ==
    IF Contains(list, q.options[k].id)
    THEN Num(CHOOSE i \in DOMAIN list : list[i] = q.options[k].id) ELSE Null

\* What an answer leaves in them, column by column.
Cells(q, a) ==
    CASE a = Null -> [k \in DOMAIN Columns(q) |-> Null]
      [] a # Null /\ q.type \in {"scale", "likert"} -> <<ToNumber(a)>>
      [] a # Null /\ q.type \in {"choice", "text"} -> <<a>>
      [] a # Null /\ q.type = "consent" -> <<Num(IF a.given THEN 1 ELSE 0)>>
      [] a # Null /\ q.type = "multiple_choice" ->
            [k \in DOMAIN q.options |->
                Num(IF Contains(a.list, q.options[k].id) THEN 1 ELSE 0)]
      [] a # Null /\ q.type = "matrix" ->
            [k \in DOMAIN q.rows |->
                IF q.rows[k] \in DOMAIN a.grid THEN ToNumber(a.grid[q.rows[k]]) ELSE Null]
      [] a # Null /\ q.type = "ranking" ->
            [k \in DOMAIN q.options |-> RankOf(q, a.list, k)]
      [] a # Null /\ q.type = "preference_test" ->
            <<Word(a.pick), Word(a.asset), Word(a.order)>>
      [] a # Null /\ q.type \in {"first_click", "prototype_test"} -> <<>>

\* A choice on a numeric scale is stored by its value, or by its id without one.
OptionAnswer(o) == IF o.value = NoValue THEN Word(o.id) ELSE Num(o.value)

\* An option list whose values tell the options apart.
Valued(q) ==
    /\ \A k \in DOMAIN q.options : q.options[k].value # NoValue
    /\ \A j, k \in DOMAIN q.options : q.options[j].value = q.options[k].value => j = k

\* Questions whose columns say everything the respondent did.
Faithful(q) ==
    /\ q.type \notin {"first_click", "prototype_test"}
    /\ q.type \in {"likert", "matrix"} => Valued(q)

\* multiple_choice keeps the set of the clicks and not their order; a matrix
\* without a row that is filled in says as much as no answer.
Meaning(q, a) ==
    IF a # Null /\ q.type = "multiple_choice" THEN [chosen |-> ToSet(a.list)]
    ELSE IF a # Null /\ q.type = "matrix" /\ DOMAIN a.grid = {} THEN Null ELSE a

IsList(f) == Len(f) \in Nat /\ f = [k \in 1 .. Len(f) |-> f[k]]

\* A question that can be published: its lists are not empty where they matter.
Askable(q) ==
    /\ q.type \in {"scale", "likert", "choice", "consent", "text", "multiple_choice", "matrix",
                   "ranking", "preference_test", "first_click", "prototype_test"}
    /\ IsList(q.options) /\ IsList(q.rows)
    /\ q.type \in {"multiple_choice", "ranking"} => q.options # <<>>

\* What validateAnswerValue lets through.
AnswerTo(q, a) ==
    LET ids     == {q.options[k].id : k \in DOMAIN q.options}
        offered == {OptionAnswer(q.options[k]) : k \in DOMAIN q.options}
    IN \/ a = Null \/ q.type \in {"first_click", "prototype_test"}
       \/ q.type = "scale" /\ a = Num(a.num)
       \/ q.type = "likert" /\ a \in offered
       \/ q.type \in {"choice", "text"} /\ a = Word(a.word)
       \/ q.type = "consent" /\ a = [given |-> a.given] /\ a.given \in BOOLEAN
       \/ q.type = "multiple_choice" /\ a = [list |-> a.list] /\ IsList(a.list) /\ ToSet(a.list) \subseteq ids
       \/ /\ q.type = "ranking" /\ a = [list |-> a.list] /\ IsList(a.list)
          /\ IsInjective(a.list) /\ ToSet(a.list) = ids
       \/ /\ q.type = "matrix" /\ a = [grid |-> a.grid] /\ DOMAIN a.grid \subseteq ToSet(q.rows)
          /\ a.grid = [row \in DOMAIN a.grid |-> a.grid[row]]
          /\ \A row \in DOMAIN a.grid : a.grid[row] \in offered
       \/ q.type = "preference_test" /\ a = [pick |-> a.pick, asset |-> a.asset, order |-> a.order]
-----------------------------------------------------------------------------
(* Uploaded tables: [headers, rows], a row is a tuple of cells.            *)

IsFiniteNumber(c) == c \in {"1", "1,5"}
IsIsoLikeDate(c)  == c = "2026-02-28"        \* and not 2026-02-30

\* parseImportFile: duplicate headers, too many rows; empty rows are skipped, the
\* others keep their numbers.
ParseImportFile(t) ==
    LET kept == {k \in DOMAIN t.rows : \E i \in DOMAIN t.rows[k] : t.rows[k][i] # ""} IN
    [ok |-> /\ \A i, j \in DOMAIN t.headers :
                  Folded[t.headers[i]] = Folded[t.headers[j]] => i = j
            /\ Cardinality(kept) <= MaxRows,
     headers |-> t.headers, rows |-> [k \in kept |-> t.rows[k]]]

Column(t, i) == [k \in DOMAIN t.rows |-> t.rows[k][i]]

\* The cells under a header; no two headers are the same.
Under(t, header) == Column(t, CHOOSE i \in DOMAIN t.headers : t.headers[i] = header)

Filled(cells) == {k \in DOMAIN cells : cells[k] # ""}

\* The type of a column: what every one of its first values can be read as.
Inferred(cells) ==
    LET seen == {k \in Filled(cells) : Cardinality({j \in Filled(cells) : j <= k}) <= Sample}
    IN IF seen # {} /\ \A k \in seen : IsFiniteNumber(cells[k]) THEN "numeric"
       ELSE IF seen # {} /\ \A k \in seen : IsIsoLikeDate(cells[k]) THEN "date" ELSE "string"

\* The first free one of base, base_2, base_3, ...
NextName(base, used) ==
    IF base \notin used THEN base
    ELSE Suffixed(base, CHOOSE n \in 2 .. Cardinality(used) + 2 :
            /\ Suffixed(base, n) \notin used
            /\ \A m \in 2 .. n - 1 : Suffixed(base, m) \in used)

\* Of each column, one after the other.
Names(headers) ==
    LET name[i \in DOMAIN headers] ==
            NextName(Normal[headers[i]], {name[j] : j \in 1 .. i - 1})
    IN name

InferRawVariables(t) ==
    [i \in DOMAIN t.headers |->
        [column |-> t.headers[i], include |-> TRUE, name |-> Names(t.headers)[i],
         type |-> Inferred(Column(t, i))]]

Readable(c, type) ==
    CASE type = "numeric" -> IsFiniteNumber(c)
      [] type = "date"    -> IsIsoLikeDate(c)
      [] type = "string"  -> TRUE

\* buildRawDataset: "" or the first reason to refuse.
BuildRawDataset(t, specs) ==
    LET kept == {i \in DOMAIN specs : specs[i].include} IN
    IF kept = {} THEN "nothing chosen"
    ELSE IF \E i \in kept : specs[i].column \notin ToSet(t.headers) THEN "no such column"
    ELSE IF \E i, j \in kept : i # j /\ specs[i].name = specs[j].name THEN "names"
    ELSE IF \E i \in kept : \E k \in Filled(Under(t, specs[i].column)) :
               ~Readable(Under(t, specs[i].column)[k], specs[i].type)
         THEN "values" ELSE ""
=============================================================================
