---------------------------- MODULE Recruitment -----------------------------
(***************************************************************************)
(* Recruitment pages: their editor and list (panel/recruitment), the       *)
(* server actions behind both (recruitment/actions.ts), and the visitors   *)
(* who fill a page in (recruitment-runtime.tsx, lib/data/recruitment.ts).  *)
(*                                                                         *)
(* A page's texts, colours and images are left out; its form is whether    *)
(* visitors are screened.  An editor's props are the page and its          *)
(* questions as the server last sent them, its form is what is typed.      *)
(* How a submission finds the panelist of an address is in PanelImport;    *)
(* here an address is one person.                                          *)
(***************************************************************************)
EXTENDS Integers, Sequences, FiniteSets, FiniteSetsExt, SequencesExt

CONSTANTS RPages,       \* pages
          Fresh,        \* newPublicToken: the token of each page at first
          Links,        \* tokens typed by an editor
          Fields,       \* custom fields
          FieldType,    \* the type of each
          FieldOptions, \* the options of each
          Raw,          \* what a visitor may enter: words; "" is nothing
          NamesGiven,   \* names a visitor may enter
          Editors, Visitors,
          Address,      \* the address of each visitor
          Pages0,       \* what there is at first, as a set of stores of pages
          MaxJobs,      \* bound: server actions of the editors
          MaxSubmits    \* bound: those and the submissions together

ASSUME RecruitmentAssumption == MaxJobs \in Nat /\ MaxSubmits \in Nat

NoPage == [exists |-> FALSE, token |-> "", active |-> FALSE, screening |-> FALSE,
           questions |-> <<>>]

\* What the two unique indexes keep.
OneOrder(page) ==
    \A f, g \in DOMAIN page.questions :
        f # g => page.questions[f].position # page.questions[g].position

OwnTokens(store) ==
    \A p, q \in RPages : p # q /\ store[p].exists /\ store[q].exists => store[p].token # store[q].token

ASSUME PagesAssumption ==
    \A store \in Pages0 :
        /\ DOMAIN store = RPages /\ OwnTokens(store)
        /\ \A p \in RPages :
              /\ DOMAIN store[p] = {"exists", "token", "active", "screening", "questions"}
              /\ DOMAIN store[p].questions \subseteq Fields
              /\ \A f \in DOMAIN store[p].questions : DOMAIN store[p].questions[f] = {"position", "required"}
              /\ OneOrder(store[p]) /\ (~store[p].exists => store[p] = NoPage)

VARIABLES
    pages,     \* [exists, token, active, screening, questions]
    fields,    \* the custom fields there are
    persons,   \* of each address: [name, attrs]
    log,       \* history: the submissions committed, in order
    editors,   \* [page, screening, saved, props, call]
    visitors,  \* [phase, token, shown, name, answers, page]
    sent       \* how many server actions and submissions have been sent

recruitVars == <<pages, fields, persons, log, editors, visitors, sent>>

Idle == [phase |-> "idle"]
Closed == [page |-> 0, screening |-> FALSE, saved |-> FALSE, props |-> NoPage, call |-> Idle]
Away == [phase |-> "away", token |-> "", shown |-> <<>>, name |-> "", answers |-> <<>>, page |-> 0]

NextPosition(p) == IF pages[p].questions = <<>> THEN 0
                   ELSE 1 + Max({pages[p].questions[f].position : f \in DOMAIN pages[p].questions})

\* submitRecruitment holds the page FOR UPDATE: nobody changes the page's row, or
\* inserts a question that refers to it, until that transaction has ended.
Locked(p) == \E v \in Visitors : visitors[v].phase = "locked" /\ visitors[v].page = p
-----------------------------------------------------------------------------
(* The pages of the editors *)

Open(e, p) ==
    /\ editors[e].call = Idle /\ pages[p].exists /\ editors[e].page # p
    /\ editors' = [editors EXCEPT ![e] = [page |-> p, screening |-> pages[p].screening,
                        saved |-> FALSE, props |-> pages[p], call |-> Idle]]
    /\ UNCHANGED <<pages, fields, persons, log, visitors, sent>>

\* The form, also while a save is under way.
SetForm(e) ==
    /\ editors[e].page # 0
    /\ editors' = [editors EXCEPT ![e].screening = ~@, ![e].saved = FALSE]
    /\ UNCHANGED <<pages, fields, persons, log, visitors, sent>>

\* What the page and its row in the list offer.
Offers(e) ==
    LET p == editors[e].page
        props == editors[e].props
        asked == DOMAIN props.questions
    IN {<<"save", p, editors[e].screening>>, <<"active", p, ~props.active>>,
        <<"clone", p>>, <<"delete", p>>, <<"create">>}
       \cup {<<"link", p, link>> : link \in Links \ {props.token}}
       \cup {<<"require", p, f, ~props.questions[f].required>> : f \in asked}
       \cup {<<"remove", p, f>> : f \in asked}
       \cup {<<"add", p, f>> : f \in fields \ asked}
       \cup {<<"attach", p, f>> : f \in Fields \ fields}

Send(e, job) ==
    /\ editors[e].page # 0 /\ editors[e].call = Idle
    /\ sent.jobs < MaxJobs /\ sent.all < MaxSubmits
    /\ editors' = [editors EXCEPT ![e].call = [phase |-> "sent", job |-> job, next |-> 0]]
    /\ sent' = [jobs |-> sent.jobs + 1, all |-> sent.all + 1]
    /\ UNCHANGED <<pages, fields, persons, log, visitors>>

\* The reply: revalidatePath sends the page again, the form keeps what is typed.
\* A refusal that nobody catches takes the page away.
Replies(e, ok, store) ==
    LET p == editors[e].page
        kind == editors[e].call.job[1]
        redirected == ok /\ kind \in {"clone", "delete", "create"}
    IN editors' = [editors EXCEPT ![e] =
            IF redirected \/ (~ok /\ kind \notin {"link", "create"}) \/ ~store[p].exists
            THEN Closed
            ELSE [@ EXCEPT !.call = Idle, !.props = store[p],
                           !.saved = @ \/ (ok /\ kind = "save")]]
-----------------------------------------------------------------------------
(* recruitment/actions.ts.  job = <<kind, page, ...>> *)

At_(e, phase, kinds) ==
    editors[e].call.phase = phase /\ editors[e].call.job[1] \in kinds

Commits(e, store) ==
    /\ pages' = store /\ Replies(e, TRUE, store)
    /\ UNCHANGED <<persons, log, visitors, sent>>

Fails(e) ==
    /\ Replies(e, FALSE, pages)
    /\ UNCHANGED <<pages, fields, persons, log, visitors, sent>>

\* updateRecruitmentPage with the whole form, setRecruitmentPageActive
UpdatePage(e) ==
    /\ At_(e, "sent", {"save", "active"})
    /\ LET job == editors[e].call.job IN
       /\ ~Locked(job[2])
       /\ IF ~pages[job[2]].exists THEN Fails(e)
          ELSE /\ Commits(e, IF job[1] = "save"
                             THEN [pages EXCEPT ![job[2]].screening = job[3]]
                             ELSE [pages EXCEPT ![job[2]].active = job[3]])
               /\ UNCHANGED fields

\* setRecruitmentPageLink: is the link free?
LookForClash(e) ==
    /\ At_(e, "sent", {"link"})
    /\ LET job == editors[e].call.job IN
       IF \E p \in RPages \ {job[2]} : pages[p].exists /\ pages[p].token = job[3] THEN Fails(e)
       ELSE /\ editors' = [editors EXCEPT ![e].call.phase = "looked"]
            /\ UNCHANGED <<pages, fields, persons, log, visitors, sent>>

\* The update; the index on the token refuses what has been taken meanwhile.  A
\* page deleted meanwhile is no error.
SetLink(e) ==
    /\ At_(e, "looked", {"link"})
    /\ LET job == editors[e].call.job IN
       /\ ~Locked(job[2])
       /\ IF \E p \in RPages \ {job[2]} : pages[p].exists /\ pages[p].token = job[3] THEN Fails(e)
          ELSE /\ Commits(e, IF pages[job[2]].exists
                             THEN [pages EXCEPT ![job[2]].token = job[3]] ELSE pages)
               /\ UNCHANGED fields

Free == {p \in RPages : ~pages[p].exists}

\* createRecruitmentPage, cloneRecruitmentPage
NewPage(e) ==
    /\ At_(e, "sent", {"create", "clone"})
    /\ LET job == editors[e].call.job IN
       IF job[1] = "clone" /\ ~pages[job[2]].exists THEN Fails(e)
       ELSE \E p \in Free :
               /\ \A other \in RPages : pages[other].exists => pages[other].token # Fresh[p]
               /\ Commits(e, [pages EXCEPT ![p] =
                       IF job[1] = "create" THEN [NoPage EXCEPT !.exists = TRUE, !.token = Fresh[p]]
                       ELSE [pages[job[2]] EXCEPT !.token = Fresh[p], !.active = FALSE]])
               /\ UNCHANGED fields

\* Mutant: no cascade.
Deleted_Alone(page) == [page EXCEPT !.exists = FALSE]

\* on delete cascade
Deleted(page) == NoPage

\* deleteRecruitmentPage: the questions and the submissions go with it.
DeletePage(e) ==
    /\ At_(e, "sent", {"delete"})
    /\ LET job == editors[e].call.job IN
       /\ ~Locked(job[2])
       /\ IF ~pages[job[2]].exists THEN Fails(e)
          ELSE Commits(e, [pages EXCEPT ![job[2]] = Deleted(@)]) /\ UNCHANGED fields

\* removeQuestionFromPage, setQuestionRequired: the page's row is not touched.
EditQuestion(e) ==
    /\ At_(e, "sent", {"remove", "require"})
    /\ LET job == editors[e].call.job
           questions == pages[job[2]].questions
           kept == DOMAIN questions \ (IF job[1] = "remove" THEN {job[3]} ELSE {})
       IN IF ~pages[job[2]].exists THEN Fails(e)
          ELSE /\ Commits(e, [pages EXCEPT ![job[2]].questions =
                       [f \in kept |-> IF job[1] = "require" /\ f = job[3]
                                       THEN [questions[f] EXCEPT !.required = job[4]]
                                       ELSE questions[f]]])
               /\ UNCHANGED fields

\* createAndAttachQuestion looks for a key that is free.
Keyed(job) == IF job[1] = "attach" /\ job[3] \in fields THEN Fields \ fields ELSE {job[3]}

\* addQuestionToPage, createAndAttachQuestion: the last position so far.
LookForPosition(e) ==
    /\ At_(e, "sent", {"add", "attach"})
    /\ LET job == editors[e].call.job IN
       IF ~pages[job[2]].exists THEN Fails(e)
       ELSE /\ \E f \in Keyed(job) :
                 editors' = [editors EXCEPT ![e].call = [phase |-> "looked", next |-> NextPosition(job[2]),
                                                         job |-> [job EXCEPT ![3] = f]]]
            /\ UNCHANGED <<pages, fields, persons, log, visitors, sent>>

\* Mutant: no index on the page and the position.
PositionTaken_NoIndex(questions, next) == FALSE

\* unique (recruitment_page_id, position)
PositionTaken(questions, next) == \E f \in DOMAIN questions : questions[f].position = next

\* The insertion: a field already asked is left as it is, a position taken
\* meanwhile is refused by the index, and so is a field's key.
AddQuestion(e) ==
    /\ At_(e, "looked", {"add", "attach"})
    /\ LET job == editors[e].call.job
           next == editors[e].call.next
           questions == pages[job[2]].questions
       IN /\ ~Locked(job[2])
          /\ IF ~pages[job[2]].exists THEN Fails(e)
             ELSE IF job[1] = "attach" /\ job[3] \in fields THEN Fails(e)
             ELSE IF job[3] \in DOMAIN questions THEN Commits(e, pages) /\ UNCHANGED fields
             ELSE IF PositionTaken(questions, next) THEN Fails(e)
             ELSE /\ Commits(e, [pages EXCEPT ![job[2]].questions =
                         [f \in DOMAIN questions \cup {job[3]} |->
                             IF f = job[3] THEN [position |-> next, required |-> FALSE]
                             ELSE questions[f]]])
                  /\ fields' = fields \cup {job[3]}

JobDies(e) == editors[e].call.phase \in {"sent", "looked"} /\ Fails(e)

Edits(e) ==
    \/ \E p \in RPages : Open(e, p)
    \/ SetForm(e)
    \/ \E job \in Offers(e) : Send(e, job)
    \/ UpdatePage(e) \/ LookForClash(e) \/ SetLink(e) \/ NewPage(e) \/ DeletePage(e)
    \/ EditQuestion(e) \/ LookForPosition(e) \/ AddQuestion(e) \/ JobDies(e)
-----------------------------------------------------------------------------
(* Visitors *)

Becomes(v, state) ==
    /\ visitors' = [visitors EXCEPT ![v] = state]
    /\ UNCHANGED <<pages, fields, editors>>

\* getRecruitmentPage: the page, and with it the runtime's first state ...
Opening == [screening |-> "opening with screening", form |-> "opening"]

Visit(v) ==
    /\ visitors[v].phase = "away"
    /\ \E p \in {x \in RPages : pages[x].exists /\ pages[x].active} :
         Becomes(v, [Away EXCEPT !.phase = Opening[IF pages[p].screening THEN "screening" ELSE "form"],
                                 !.token = pages[p].token, !.page = p])
    /\ UNCHANGED <<persons, log, sent>>

\* ... and its questions, as they are by then: none when it has been deleted.
LoadQuestions(v) ==
    /\ \E first \in DOMAIN Opening :
         /\ visitors[v].phase = Opening[first]
         /\ Becomes(v, [visitors[v] EXCEPT !.phase = first, !.page = 0,
                            !.shown = pages[visitors[v].page].questions])
    /\ UNCHANGED <<persons, log, sent>>

AnswerScreening(v) ==
    /\ visitors[v].phase = "screening"
    /\ \E phase \in {"form", "screened_out"} : Becomes(v, [visitors[v] EXCEPT !.phase = phase])
    /\ UNCHANGED <<persons, log, sent>>

\* submit: a name, an address and the consent are there; any field may be empty.
Submit(v) ==
    /\ visitors[v].phase = "form" /\ sent.all < MaxSubmits
    /\ \E name \in NamesGiven, answers \in [DOMAIN visitors[v].shown -> Raw] :
         Becomes(v, [visitors[v] EXCEPT !.phase = "sending", !.name = name, !.answers = answers])
    /\ sent' = [sent EXCEPT !.all = @ + 1]
    /\ UNCHANGED <<persons, log>>

\* Mutant: a lookup without "for update".
Locks_None(v, p) == [visitors[v] EXCEPT !.phase = "reading", !.page = p]

Locks(v, p) == [visitors[v] EXCEPT !.phase = "locked", !.page = p]

\* Mutant: the reply is not looked at.
AfterRefusal_Done == "done"

\* A reply that is not ok leaves the form as it is.
AfterRefusal == "form"

\* submitRecruitment finds the page by its token and locks it.
FindPage(v) ==
    /\ visitors[v].phase = "sending"
    /\ LET found == {p \in RPages : /\ pages[p].exists /\ pages[p].active
                                    /\ pages[p].token = visitors[v].token} IN
       IF found = {} THEN Becomes(v, [visitors[v] EXCEPT !.phase = AfterRefusal])
       ELSE \E p \in found : ~Locked(p) /\ Becomes(v, Locks(v, p))
    /\ UNCHANGED <<persons, log, sent>>

Missing(raw) == raw = ""

\* normalizeAnswer of an answer that is there: a value, or Invalid.
Invalid == "invalid"
Normalized(f, raw) ==
    CASE FieldType[f] = "number" -> IF raw \in {"1", "2"} THEN raw ELSE Invalid
      [] FieldType[f] = "boolean" -> IF raw = "true" THEN "true" ELSE "false"
      [] FieldType[f] \in {"select", "multi_select"} ->
            IF raw \in FieldOptions[f] THEN raw ELSE Invalid
      [] FieldType[f] \in {"text", "date"} -> raw

Entered(v, f) == IF f \in DOMAIN visitors[v].answers THEN visitors[v].answers[f] ELSE ""

\* Mutant: an answer given before is kept.
Kept_Old(person, said, f) ==
    IF f \in DOMAIN person.attrs THEN person.attrs[f] ELSE said[f]

\* on conflict (panelist_id, field_id) do update
Kept(person, said, f) == IF f \in DOMAIN said THEN said[f] ELSE person.attrs[f]

\* The questions as they are now, the panelist, the attributes, the submission.
StoreSubmission(v) ==
    /\ visitors[v].phase \in {"locked", "reading"}
    /\ LET p == visitors[v].page
           asked == pages[p].questions
           given == {f \in DOMAIN asked : ~Missing(Entered(v, f))}
           said == [f \in given |-> Normalized(f, Entered(v, f))]
           person == persons[Address[v]]
           refused == \/ \E f \in DOMAIN asked \ given : asked[f].required
                      \/ \E f \in given : said[f] = Invalid
       IN IF refused
          THEN /\ Becomes(v, [visitors[v] EXCEPT !.phase = AfterRefusal])
               /\ UNCHANGED <<persons, log>>
          ELSE /\ persons' = [persons EXCEPT ![Address[v]] =
                     [name |-> visitors[v].name,
                      attrs |-> [f \in DOMAIN person.attrs \cup given |-> Kept(person, said, f)]]]
               /\ log' = Append(log, [page |-> p, by |-> v, name |-> visitors[v].name, said |-> said])
               /\ Becomes(v, [visitors[v] EXCEPT !.phase = "stored"])
    /\ UNCHANGED sent

\* The reply arrives, or is lost, or the server never got to the end.
Reply(v) ==
    /\ \/ /\ visitors[v].phase = "stored"
          /\ \E phase \in {"done", "form"} : Becomes(v, [visitors[v] EXCEPT !.phase = phase])
       \/ /\ visitors[v].phase \in {"sending", "locked", "reading"}
          /\ Becomes(v, [visitors[v] EXCEPT !.phase = "form"])
    /\ UNCHANGED <<persons, log, sent>>

Visits(v) ==
    Visit(v) \/ LoadQuestions(v) \/ AnswerScreening(v) \/ Submit(v) \/ FindPage(v) \/ StoreSubmission(v) \/ Reply(v)

RecruitmentInit ==
    /\ pages \in Pages0
    /\ fields = {f \in Fields : \E p \in RPages : f \in DOMAIN pages[p].questions}
    /\ persons = [a \in {Address[v] : v \in Visitors} |-> [name |-> "", attrs |-> <<>>]]
    /\ log = <<>>
    /\ editors = [e \in Editors |-> Closed]
    /\ visitors = [v \in Visitors |-> Away]
    /\ sent = [jobs |-> 0, all |-> 0]
-----------------------------------------------------------------------------
\* A link leads to one page, and a page asks its questions in one order, whatever
\* editors do at the same time (recruitment/actions.ts:205-332).
PagesConsistent == OwnTokens(pages) /\ \A p \in RPages : OneOrder(pages[p])

\* "most recent submission wins" for the name and the attribute values
\* (recruitment.ts:128-129).
LastSubmissionWins ==
    \A a \in DOMAIN persons :
        LET mine == {i \in DOMAIN log : Address[log[i].by] = a}
        IN /\ mine # {} => persons[a].name = log[Max(mine)].name
           /\ \A f \in DOMAIN persons[a].attrs :
                 LET about == {i \in mine : f \in DOMAIN log[i].said}
                 IN about # {} /\ persons[a].attrs[f] = log[Max(about)].said[f]

\* The thank-you page is shown only for what has been stored, though any field of
\* the form may have been left empty or the page changed since it was opened
\* (recruitment-runtime.tsx:35-61).
DoneIsStored ==
    \A v \in Visitors :
        visitors[v].phase = "done" =>
            \E i \in DOMAIN log :
                /\ log[i].by = v /\ log[i].name = visitors[v].name
                /\ \A f \in DOMAIN log[i].said : log[i].said[f] = Normalized(f, Entered(v, f))

\* Nothing is collected by a page that has been deactivated or deleted
\* (recruitment.ts:143-147).
CollectsOnlyWhileActive ==
    [][\A i \in DOMAIN log' \ DOMAIN log :
          pages[log'[i].page].exists /\ pages[log'[i].page].active]_recruitVars
=============================================================================
