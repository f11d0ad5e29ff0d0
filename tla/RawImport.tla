----------------------------- MODULE RawImport ------------------------------
(***************************************************************************)
(* The import of a table as a dataset: the screen (raw-data-import.tsx)    *)
(* and the two server actions behind it (analytics/import/actions.ts).     *)
(*                                                                         *)
(* A file is the sequence of its worksheets, each with its name; a CSV     *)
(* file has one without a name.  Server actions of one page are sent one   *)
(* after the other, each after the reply to the one before it, with what   *)
(* was read at the click.  The transition stays pending while any of them  *)
(* is under way.                                                           *)
(***************************************************************************)
EXTENDS DatasetColumns

CONSTANTS Files,      \* file |-> its worksheets, each [name, table]
          Base,       \* the file's name without its extension
          Trim(_),    \* String.trim
          OptionValue(_), \* of an <option> with a text: trimmed, inner blanks collapsed
          LongHeaders, \* headers over 300 characters
          LongNames,  \* names of files over 160 characters
          MaxSpecs,   \* variableSpecsSchema: variables of an import, 500 in the code
          Taken,      \* names of datasets there may be already
          MaxClicks   \* bound: files and sheets chosen, imports, edits

ASSUME ClicksAssumption == MaxClicks \in Nat /\ MaxSpecs \in Nat

\* Worksheets of one name each, only the first without one; tables of a finite
\* number of rows, and a header the name of which is known.
ASSUME FilesAssumption ==
    \A f \in DOMAIN Files : \A s \in DOMAIN Files[f] :
        /\ Files[f][s].name = "" => s = 1
        /\ \A r \in DOMAIN Files[f] : Files[f][r].name = Files[f][s].name => r = s
        /\ Files[f][s].table.headers \in Seq(DOMAIN Normal)
        /\ IsFiniteSet(DOMAIN Files[f][s].table.rows)

ASSUME TrimAssumption == Trim("") = ""

\* The number at the end tells the suffixed names of one base apart.
ASSUME SuffixAssumption ==
    \A h \in DOMAIN Normal : \A m, n \in 2 .. MaxSpecs + 1 :
        Suffixed(Normal[h], m) = Suffixed(Normal[h], n) => m = n

VARIABLES
    chosen,    \* history: the file last chosen, the position of the worksheet last chosen
               \* of it, and whether the file was cleared after its preview was answered
    screen,    \* [file, preview, specs, name, status]
    calls,     \* server actions, the first of them under way
    imported,  \* the imports that have ended: their call and why refused, or ""
    taken,     \* names of datasets
    clicks     \* history: how often the user has acted

rawVars == <<chosen, screen, calls, imported, taken, clicks>>

NoFile == "no file"
NoPreview == [file |-> NoFile, sheet |-> "", specs |-> <<>>]
EmptyScreen == [file |-> NoFile, preview |-> NoPreview, specs |-> <<>>, name |-> "", status |-> "idle"]
TypedName == "typed"

Pending == calls # <<>>
Click == clicks < MaxClicks /\ clicks' = clicks + 1
-----------------------------------------------------------------------------
(* The screen *)

\* loadPreview, with the name there was when it was called.
LoadPreview(file, sheet) ==
    calls' = Append(calls, [kind |-> "preview", file |-> file, sheet |-> sheet,
                            named |-> screen.name # ""])

ChooseFile(file) ==
    /\ Click
    /\ screen' = [file |-> file, preview |-> NoPreview, specs |-> <<>>,
                  name |-> Base[file], status |-> "previewing"]
    /\ LoadPreview(file, "")
    /\ chosen' = [file |-> file, sheet |-> 1, cleared |-> "no"]
    /\ UNCHANGED <<imported, taken>>

\* chooseFile(null): the browser's dialog was left without a file.
ClearFile ==
    /\ Click /\ chosen.file # NoFile /\ chosen.cleared = "no"
    /\ screen' = EmptyScreen
    /\ chosen' = [chosen EXCEPT !.cleared =
                     IF \E i \in DOMAIN calls : calls[i].kind = "preview" THEN "unanswered"
                     ELSE "answered"]
    /\ UNCHANGED <<calls, imported, taken>>

\* The select shows the first option that reads like the previewed worksheet, or
\* the first of all.
Displayed(preview) ==
    LET same == {k \in DOMAIN Files[preview.file] :
                    OptionValue(Files[preview.file][k].name) = preview.sheet}
    IN IF same = {} THEN 1 ELSE Min(same)

\* Another option of it, by its value; disabled while pending.
ChooseSheet(k) ==
    /\ Click
    /\ ~Pending /\ screen.preview # NoPreview /\ screen.file # NoFile
    /\ k \in DOMAIN Files[screen.preview.file] \ {Displayed(screen.preview)}
    /\ screen' = [screen EXCEPT !.status = "previewing"]
    /\ LoadPreview(screen.file, OptionValue(Files[screen.preview.file][k].name))
    /\ chosen' = [chosen EXCEPT !.sheet = k]
    /\ UNCHANGED <<imported, taken>>

UpdateVariable(i) ==
    /\ Click /\ screen.preview # NoPreview
    /\ \E patched \in {[screen.specs[i] EXCEPT !.include = ~@],
                       [screen.specs[i] EXCEPT !.type = "numeric"]}
                  \cup {[screen.specs[i] EXCEPT !.name = screen.specs[j].name] :
                            j \in DOMAIN screen.specs} :
         screen' = [screen EXCEPT !.specs[i] = patched]
    /\ UNCHANGED <<chosen, calls, imported, taken>>

SetDatasetName(name) ==
    /\ Click /\ screen.preview # NoPreview /\ name # screen.name
    /\ screen' = [screen EXCEPT !.name = name]
    /\ UNCHANGED <<chosen, calls, imported, taken>>

\* Mutant: the button is not disabled while something is under way.
Importable_Pending ==
    Trim(screen.name) # "" /\ \E i \in DOMAIN screen.specs : screen.specs[i].include

Importable ==
    ~Pending /\ Trim(screen.name) # "" /\ \E i \in DOMAIN screen.specs : screen.specs[i].include

RunImport ==
    /\ Click /\ Importable /\ screen.file # NoFile /\ screen.preview # NoPreview
    /\ screen' = [screen EXCEPT !.status = "importing"]
    /\ calls' = Append(calls, [kind |-> "import", file |-> screen.file, preview |-> screen.preview,
                               specs |-> screen.specs, name |-> screen.name, meant |-> chosen])
    /\ UNCHANGED <<chosen, imported, taken>>
-----------------------------------------------------------------------------
(* The server actions and their replies *)

\* selectedSheet and getWorksheet: the position of the worksheet that has the name
\* once trimmed, the first one without a name, 0 if there is none.
Selected(file, sheet) ==
    LET found == {k \in DOMAIN Files[file] : IF Trim(sheet) = "" THEN k = 1
                                            ELSE Files[file][k].name = Trim(sheet)}
    IN IF found = {} THEN 0 ELSE CHOOSE k \in found : TRUE

NoTable == [ok |-> FALSE, headers |-> <<>>, rows |-> <<>>]

ReadTable(file, k) == IF k = 0 THEN NoTable ELSE ParseImportFile(Files[file][k].table)

\* previewRawData: the worksheet's own name is returned, untrimmed.
Preview(call) ==
    LET k == Selected(call.file, call.sheet)
        parsed == ReadTable(call.file, k)
    IN IF parsed.ok THEN [file |-> call.file, sheet |-> Files[call.file][k].name,
                          specs |-> InferRawVariables(parsed)]
       ELSE NoPreview

\* variableSpecSchema, of what can be previewed or typed: a header is not bounded by
\* the preview, and a label is the header where nobody has typed another.
Describes(spec) == spec.column # "" /\ spec.column \notin LongHeaders

\* importRawData: the fingerprint tells the file; "" or the reason to refuse.
Refusal(call) ==
    LET parsed == ReadTable(call.file, Selected(call.file, call.preview.sheet))
        problem == BuildRawDataset(parsed, call.specs)
    IN IF call.preview.file # call.file THEN "fingerprint"
       ELSE IF ~parsed.ok THEN "file"
       ELSE IF call.name \in LongNames THEN "name"
       ELSE IF Len(call.specs) > MaxSpecs \/ \E i \in DOMAIN call.specs : ~Describes(call.specs[i])
            THEN "metadata"
       ELSE IF problem # "" THEN problem
       ELSE IF Trim(call.name) \in taken THEN "taken" ELSE ""

PreviewReplied(lost) ==
    LET call == Head(calls)
        preview == IF lost THEN NoPreview ELSE Preview(call)
    IN /\ call.kind = "preview"
       /\ screen' = IF preview = NoPreview
                    THEN [screen EXCEPT !.preview = NoPreview, !.specs = <<>>, !.status = "error"]
                    ELSE [file |-> call.file, preview |-> preview, specs |-> preview.specs,
                          name |-> IF call.named THEN screen.name ELSE Base[call.file],
                          status |-> "ready"]
       /\ UNCHANGED <<imported, taken>>

\* The import is done or refused; its reply opens the dataset, or it is lost.
ImportReplied(lost) ==
    LET call == Head(calls)
        why == Refusal(call)
    IN /\ call.kind = "import"
       /\ imported' = Append(imported, [call |-> call, why |-> why])
       /\ taken' = IF why = "" THEN taken \cup {Trim(call.name)} ELSE taken
       /\ screen' = IF why = "" /\ ~lost
                    THEN [EmptyScreen EXCEPT !.status = "left"]
                    ELSE [screen EXCEPT !.status = "error"]

Replied ==
    /\ Pending /\ screen.status # "left"
    /\ calls' = Tail(calls)
    /\ \E lost \in BOOLEAN : PreviewReplied(lost) \/ ImportReplied(lost)
    /\ UNCHANGED <<chosen, clicks>>

AtScreen ==
    \/ /\ screen.status # "left"
       /\ \/ \E file \in DOMAIN Files : ChooseFile(file)
          \/ ClearFile
          \/ \E k \in UNION {DOMAIN Files[f] : f \in DOMAIN Files} : ChooseSheet(k)
          \/ \E i \in DOMAIN screen.specs : UpdateVariable(i)
          \/ \E name \in {"", TypedName} : SetDatasetName(name)
          \/ RunImport
    \/ Replied

RawImportInit ==
    /\ chosen = [file |-> NoFile, sheet |-> 1, cleared |-> "no"]
    /\ screen = EmptyScreen
    /\ calls = <<>> /\ imported = <<>> /\ clicks = 0
    /\ taken \in SUBSET Taken
-----------------------------------------------------------------------------
\* A name that is the same after the select, and after selectedSheet.
Lasting(name) == Trim(name) = name /\ OptionValue(name) = name

\* Whatever replies were still to come, an import reads the file chosen last, which
\* was not cleared unless its preview was still to be answered; and of it the
\* worksheet that was chosen last, if its name has no blanks at its ends and no two
\* inside it (raw-data-import.tsx:33-71, 138, 241, import/actions.ts:40-43).
LastChoiceWins ==
    \A i \in DOMAIN imported :
        LET call == imported[i].call
            meant == call.meant
        IN /\ call.file = meant.file /\ call.preview.file = call.file /\ meant.cleared # "answered"
           /\ Lasting(Files[meant.file][meant.sheet].name) =>
                 Selected(call.file, call.preview.sheet) = meant.sheet

\* What the preview inferred can be imported as it is, unless the table has more
\* rows than the inference looked at, or one of the things is true that the preview
\* does not mind: the name is taken or too long, a header is blank or too long, there
\* are more columns than variableSpecsSchema allows, or the worksheet's name has
\* outer blanks, so that no worksheet or another one is read
\* (raw-dataset.ts:68-101, import/actions.ts:16-43).  Files that change on the disk,
\* permissions that end and a database that fails are not considered here.
PreviewPredictsImport ==
    \A i \in DOMAIN imported :
        LET call == imported[i].call
            why == imported[i].why
            table == ReadTable(call.file, Selected(call.file, call.preview.sheet))
        IN call.specs = call.preview.specs /\ Trim(call.preview.sheet) = call.preview.sheet =>
              \/ why \in {"", "taken"}
              \/ why = "name" /\ call.name \in LongNames
              \/ why = "values" /\ Cardinality(DOMAIN table.rows) > Sample
              \/ /\ why = "metadata"
                 /\ \/ \E h \in DOMAIN table.headers : table.headers[h] \in {""} \cup LongHeaders
                    \/ Len(table.headers) > MaxSpecs

\* The screen does what it shows: it imports what was chosen last, and refuses
\* nothing that it announced as ready but for the reasons named.
ImportsAsShown == LastChoiceWins /\ PreviewPredictsImport
=============================================================================
