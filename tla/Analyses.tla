------------------------------ MODULE Analyses ------------------------------
(***************************************************************************)
(* Datasets and the analyses run on them (analytics/actions.ts,            *)
(* lib/data/datasets.ts, lib/analytics-client.ts): a dataset built from a  *)
(* study's responses or derived from another, and an analysis in three     *)
(* steps, a transaction before and one after the call of the service.      *)
(*                                                                         *)
(* A dataset is known by its name, unique in the organization; it is       *)
(* created with its first version, so the one without versions is not      *)
(* there.  A row is a function from the names of its columns.  A table of  *)
(* the statements:                                                         *)
(*     Authorize, Pick, Look, Begin, Insert       build                    *)
(*     Authorize, Derive,     Begin, Insert       derive                   *)
(*     Authorize, Prepare / Answer / Again, Finalize      run              *)
(***************************************************************************)
EXTENDS Membership, DatasetColumns

CONSTANTS Studies,       \* studies
          Title,         \* the title of each
          Instrument,    \* the question each version of each study asks
          Answers,       \* the answers respondents give to a question type
          Started,       \* responses there are at first, as a set of sequences
          Built,         \* what has been built before, as a set of dataset stores
          Derived,       \* the name typed for a derived dataset
          MaxResponses,  \* bound: responses
          MaxVersions    \* bound: versions of one dataset

ASSUME AnalysesAssumption == MaxResponses \in Nat /\ MaxVersions \in Nat

\* Every study has been published, and its answers are those a survey accepts.
ASSUME InstrumentAssumption ==
    \A s \in Studies :
        /\ IsList(Instrument[s]) /\ Instrument[s] # <<>>
        /\ \A n \in DOMAIN Instrument[s] :
              LET q == Instrument[s][n] IN Askable(q) /\ \A a \in Answers[q.type] : AnswerTo(q, a)

NameOf(s, n) == <<Title[s], n>>
Names_ == {<<Derived, 0>>} \cup UNION {{NameOf(s, n) : n \in DOMAIN Instrument[s]} : s \in Studies}
Key == <<"respondent_key">>

\* The responses the rows of a version are of.
Responses(version) == {version.rows[k][Key].num : k \in DOMAIN version.rows}

\* A response that has ended, with an answer to the question of its version.
Ended(response) ==
    /\ response.status \in {"completed", "disqualified"}
    /\ AnswerTo(Instrument[response.study][response.version], response.answer)

\* The rows are completed responses to the one study version of the lineage, each once.
RowsOf(version, given) ==
    /\ Cardinality(Responses(version)) = Len(version.rows)
    /\ \A i \in Responses(version) :
          /\ i \in DOMAIN given
          /\ given[i].study = version.study /\ given[i].version = version.of
          /\ given[i].status = "completed"

\* Different answers to a question whose columns can tell make different rows.
ToldApart(version, given) ==
    LET q == version.question
        meant(x) == Meaning(q, given[version.rows[x][Key].num].answer)
    IN Faithful(q) =>
          \A x, y \in DOMAIN version.rows :
              meant(x) # meant(y) =>
                  \E c \in ToSet(Columns(q)) : version.rows[x][c] # version.rows[y][c]

ASSUME StartedAssumption ==
    \A given \in Started :
        /\ IsList(given)
        /\ \A i \in DOMAIN given :
              /\ DOMAIN given[i] = {"study", "version", "status", "answer"}
              /\ given[i].study \in Studies /\ given[i].version \in DOMAIN Instrument[given[i].study]
              /\ given[i].status = "in_progress" \/ Ended(given[i])

\* What has been built before was built from the responses there are.
ASSUME BuiltAssumption ==
    \A store \in Built, given \in Started :
        /\ DOMAIN store = Names_ /\ store[<<Derived, 0>>] = <<>>
        /\ \A name \in Names_ :
              /\ IsList(store[name]) /\ Len(store[name]) <= MaxVersions
              /\ \A k \in DOMAIN store[name] :
                    LET version == store[name][k] IN
                    /\ DOMAIN version = {"kind", "study", "of", "parent", "question", "variables",
                                        "columns", "rows"}
                    /\ version.kind = "built" /\ IsList(version.rows)
                    /\ RowsOf(version, given) /\ ToldApart(version, given)

VARIABLES
    published,   \* the latest version of each study, 0 before the first
    responses,   \* [study, version, status, answer]
    datasets,    \* name |-> the dataset's versions
    recipes,     \* the dataset of each saved recipe
    runs,        \* [of, recipe, status, verdict]; verdict is what the service said
    refused      \* history: why transactions have been refused

dataVars == <<published, responses, datasets, recipes, runs, refused>>

Versions(name) == DOMAIN datasets[name]

\* The members of a set of positions, one after the other.
InOrder(S) == CHOOSE s \in [1 .. Cardinality(S) -> S] : \A i, j \in DOMAIN s : i < j => s[i] < s[j]
-----------------------------------------------------------------------------
(* Studies and responses, as StudyLifecycle and Respondent have them. *)

PublishNext(s) ==
    /\ published[s] < Len(Instrument[s])
    /\ published' = [published EXCEPT ![s] = @ + 1]
    /\ UNCHANGED <<responses, datasets, recipes, runs, refused>>

StartResponse(s) ==
    /\ published[s] > 0 /\ Len(responses) < MaxResponses
    /\ responses' = Append(responses, [study |-> s, version |-> published[s],
                                       status |-> "in_progress", answer |-> Null])
    /\ UNCHANGED <<published, datasets, recipes, runs, refused>>

EndResponse(i) ==
    /\ responses[i].status = "in_progress"
    /\ \E a \in Answers[Instrument[responses[i].study][responses[i].version].type],
          status \in {"completed", "disqualified"} :
         responses' = [responses EXCEPT ![i].status = status, ![i].answer = a]
    /\ UNCHANGED <<published, datasets, recipes, runs, refused>>

Fieldwork ==
    \/ \E s \in Studies : PublishNext(s) \/ StartResponse(s)
    \/ \E i \in DOMAIN responses : EndResponse(i)
-----------------------------------------------------------------------------
(* What a transaction may see, and how it ends. *)

Refuse(r, why) ==
    /\ Ends(r) /\ refused' = refused \cup {why}
    /\ UNCHANGED <<published, responses, datasets, recipes, runs>>

Step(r, phase, work) == req' = [req EXCEPT ![r].phase = phase, ![r].work = work]
-----------------------------------------------------------------------------
(* buildStudyDataset *)

Pick(r) ==
    /\ Works(r, "authorized") /\ req[r].job[1] = "build"
    /\ LET s == req[r].job[2] IN
       IF Hidden(r) \/ published[s] = 0 THEN Refuse(r, "not found")
       ELSE /\ Step(r, "picked", [of |-> published[s]])
            /\ UNCHANGED dataVars

\* The condition of the two queries.
Included(response, s, n) ==
    response.study = s /\ response.version = n /\ response.status = "completed"

RowOf(q, i) ==
    LET columns == Columns(q)
        cells == Cells(q, responses[i].answer)
    IN [c \in {Key} \cup ToSet(columns) |->
          IF c = Key THEN Num(i) ELSE cells[CHOOSE k \in DOMAIN columns : columns[k] = c]]

\* The responses and whether the dataset is there already.
Look(r) ==
    /\ Works(r, "picked")
    /\ LET s == req[r].job[2]
           n == req[r].work.of
           found == InOrder({i \in DOMAIN responses : Included(responses[i], s, n)})
           q == Instrument[s][n]
       IN IF Hidden(r) THEN Refuse(r, "not found")
          ELSE /\ Step(r, "looked",
                       [name |-> NameOf(s, n), seen |-> Len(datasets[NameOf(s, n)]), number |-> 0,
                        content |-> [kind |-> "built", study |-> s, of |-> n,
                                     parent |-> <<>>, question |-> q,
                                     variables |-> Variables(q), columns |-> Columns(q),
                                     rows |-> [k \in DOMAIN found |-> RowOf(q, found[k])]]])
               /\ UNCHANGED dataVars

\* insertDatasetVersion's number, read when the dataset's row is locked.
Number(work) == Len(datasets[work.name]) + 1

\* The dataset is inserted, or its row is locked; both wait for whoever has done
\* so and not committed.
Begin(r) ==
    /\ Works(r, "looked")
    /\ LET work == req[r].work IN
       /\ \A s \in Requests : At(s, "numbered") => req[s].work.name # work.name
       /\ Len(datasets[work.name]) < MaxVersions
       /\ IF Hidden(r) THEN Refuse(r, "not found")
          ELSE IF work.seen = 0 /\ datasets[work.name] # <<>> THEN Refuse(r, "name")
          ELSE IF ~IsInjective(work.content.variables) THEN Refuse(r, "variable")
          ELSE Step(r, "numbered", [work EXCEPT !.number = Number(work)]) /\ UNCHANGED dataVars

\* The version and its variables, and the commit.
Insert(r) ==
    /\ Works(r, "numbered")
    /\ LET work == req[r].work IN
       IF Hidden(r) THEN Refuse(r, "not found")
       ELSE IF work.number \in Versions(work.name) THEN Refuse(r, "number")
       ELSE /\ datasets' = [datasets EXCEPT ![work.name] = Append(@, work.content)]
            /\ Ends(r)
            /\ UNCHANGED <<published, responses, recipes, runs, refused>>
-----------------------------------------------------------------------------
(* deriveDataset: some rows of one version, and all but one of its columns (a   *)
(* bound: more are left out by deriving again).                                 *)

\* loadDatasetPayload
Source(name, k) == datasets[name][k]

Project(row, columns) == [c \in columns |-> IF c \in DOMAIN row THEN row[c] ELSE Null]

Derive(r) ==
    /\ Works(r, "authorized") /\ req[r].job[1] = "derive"
    /\ LET from == Source(req[r].job[2], req[r].job[3]) IN
       IF Hidden(r) THEN Refuse(r, "not found")
       ELSE \E rows \in SUBSET DOMAIN from.rows, left \in ToSet(from.columns) :
               LET columns == ({Key} \cup ToSet(from.columns)) \ {left}
                   chosen == InOrder(rows)
               IN /\ Step(r, "looked",
                          [name |-> <<Derived, 0>>, seen |-> 0, number |-> 0,
                           content |-> [from EXCEPT
                                  !.kind = "derived", !.parent = <<req[r].job[2], req[r].job[3]>>,
                                  !.variables = SelectSeq(@, LAMBDA c : c # left),
                                  !.columns = SelectSeq(@, LAMBDA c : c # left),
                                  !.rows = [k \in DOMAIN chosen |->
                                              Project(from.rows[chosen[k]], columns)]]])
                  /\ UNCHANGED dataVars
-----------------------------------------------------------------------------
(* runAnalysis and rerunRecipe *)

\* rerunRecipe's own transaction; runAnalysis then asks for permission again.
ReadRecipe(r) ==
    /\ Works(r, "authorized") /\ req[r].job[1] = "rerun"
    /\ IF Hidden(r) THEN Refuse(r, "not found")
       ELSE /\ req' = [req EXCEPT ![r].phase = "arrived", ![r].job[1] = "run",
                                  ![r].lawful = Allowed(req[r].by, req[r].action)]
            /\ UNCHANGED dataVars

\* The first transaction: the recipe and the run in state 'running'.
Prepare(r) ==
    /\ Works(r, "authorized") /\ req[r].job[1] = "run"
    /\ LET name == req[r].job[2]
           recipe == req[r].job[4]          \* 0: none, -1: a new one
       IN IF Hidden(r) \/ (recipe > 0 /\ recipes[recipe] # name) THEN Refuse(r, "not found")
          ELSE /\ recipes' = IF recipe = -1 THEN Append(recipes, name) ELSE recipes
               /\ runs' = Append(runs, [of |-> <<name, req[r].job[3]>>,
                                        recipe |-> IF recipe = -1 THEN Len(recipes) + 1 ELSE recipe,
                                        status |-> "running", verdict |-> "none"])
               /\ Step(r, "calling", [run |-> Len(runs) + 1])
               /\ UNCHANGED <<published, responses, datasets, refused>>

\* The end of the call, with no transaction open.
Returns(r, verdict) ==
    /\ Works(r, "calling")
    /\ runs' = [runs EXCEPT ![req[r].work.run].verdict = verdict]
    /\ req' = [req EXCEPT ![r].phase = "answered",
                          ![r].lawful = Allowed(req[r].by, req[r].action)]
    /\ UNCHANGED <<published, responses, datasets, recipes, refused>>

Answer(r) == \E verdict \in {"ok", "error"} : Returns(r, verdict)

\* Mutant: the call has no timeout.
TimesOut_Never(r) == FALSE

\* AbortSignal.timeout
TimesOut(r) == Returns(r, "timeout")

\* Mutant: the finalization is inside the catch of the call.
Abandoned_Failed(r) == runs' = [runs EXCEPT ![req[r].work.run].status = "failed"]

\* The second transaction is refused or fails: the action throws.
Abandoned(r) == UNCHANGED runs

Again(r) ==
    /\ Works(r, "answered")
    /\ IF Grants(req[r].by, req[r].action)
       THEN Goes(r, "finalizing") /\ UNCHANGED dataVars
       ELSE /\ Ends(r) /\ Abandoned(r)
            /\ UNCHANGED <<published, responses, datasets, recipes, refused>>

Finalize(r) ==
    /\ Works(r, "finalizing")
    /\ Ends(r)
    /\ IF Hidden(r) THEN Abandoned(r)
       ELSE runs' = [runs EXCEPT ![req[r].work.run].status =
                        IF runs[req[r].work.run].verdict = "ok" THEN "succeeded" ELSE "failed"]
    /\ UNCHANGED <<published, responses, datasets, recipes, refused>>

\* The database refuses the second transaction, or the process dies.
FinalizeFails(r) ==
    /\ At(r, "answered") \/ At(r, "finalizing")
    /\ Works(r, req[r].phase) /\ Ends(r) /\ Abandoned(r)
    /\ UNCHANGED <<published, responses, datasets, recipes, refused>>

Dies(r) ==
    /\ \E phase \in {"picked", "looked", "numbered", "calling"} : Works(r, phase)
    /\ Ends(r) /\ UNCHANGED dataVars
-----------------------------------------------------------------------------
OrderDataset(r) ==
    \E u \in Members :
        \/ \E s \in Studies : published[s] > 0 /\ Arrive(r, u, "datasets.create", <<"build", s>>)
        \/ \E name \in Names_ : \E k \in Versions(name) :
              Arrive(r, u, "datasets.create", <<"derive", name, k>>)

OrderRun(r) ==
    \E u \in Members, name \in Names_ : \E k \in Versions(name) :
        \/ \E recipe \in {0, -1} : Arrive(r, u, "analytics.run", <<"run", name, k, recipe>>)
        \/ \E recipe \in {x \in DOMAIN recipes : recipes[x] = name} :
              Arrive(r, u, "analytics.run", <<"rerun", name, k, recipe>>)

Transacts(r) ==
    Pick(r) \/ Look(r) \/ Begin(r) \/ Insert(r) \/ Derive(r) \/ ReadRecipe(r) \/ Prepare(r)

Calls(r) == Answer(r) \/ TimesOut(r) \/ Again(r) \/ Finalize(r) \/ FinalizeFails(r) \/ Dies(r)

AnalysesInit ==
    /\ published = [s \in Studies |-> 1]
    /\ responses \in Started
    /\ datasets \in Built
    /\ recipes = <<>> /\ runs = <<>> /\ refused = {}
-----------------------------------------------------------------------------
\* A version built from a study holds completed responses to the one study
\* version its lineage names, each once (datasets.ts:84-99).
RowsOfStudyVersion ==
    \A name \in Names_ : \A k \in Versions(name) :
        datasets[name][k].kind = "built" => RowsOf(datasets[name][k], responses)

\* Two respondents who answered differently have different rows, for the
\* questions whose columns can tell (dataset-build.ts:68-199).
AnswersToldApart ==
    \A name \in Names_ : \A k \in Versions(name) :
        datasets[name][k].kind = "built" => ToldApart(datasets[name][k], responses)

\* The rows of a derived dataset are rows of the version it was derived from, at
\* any later time: that version has not been touched (actions.ts:156).
DerivedFromSource ==
    \A k \in Versions(<<Derived, 0>>) :
        LET version == datasets[<<Derived, 0>>][k]
            source == datasets[version.parent[1]][version.parent[2]]
        IN \A x \in DOMAIN version.rows : \E y \in DOMAIN source.rows :
              version.rows[x] = Project(source.rows[y], DOMAIN version.rows[x])

\* Builds of the same dataset at the same time never take the same number: the
\* row is locked before the number is read (datasets.ts:45-53).
NumbersNeverClash == "number" \notin refused

\* A run is 'failed' only when the service failed and 'succeeded' only when it
\* answered: a finalization that fails is no failure of the analysis
\* (actions.ts:112-115).
StatusIsVerdict ==
    \A i \in DOMAIN runs :
        /\ runs[i].status = "failed"    => runs[i].verdict \in {"error", "timeout"}
        /\ runs[i].status = "succeeded" => runs[i].verdict = "ok"

\* What analytics shows is true: the rows of a version, its number, a run's end.
AnalyticsSound ==
    RowsOfStudyVersion /\ DerivedFromSource /\ NumbersNeverClash /\ StatusIsVerdict

\* Every request that waits for the service gets to its end: the service may
\* never answer (analytics-client.ts:49-75).
EveryCallEnds ==
    \A r \in Requests : At(r, "calling") \/ At(r, "answered") \/ At(r, "finalizing")
                            ~> ~(At(r, "calling") \/ At(r, "answered") \/ At(r, "finalizing"))
=============================================================================
