----------------------------- MODULE Workspace ------------------------------
(***************************************************************************)
(* The pages on which the members of an organization work: the members'    *)
(* administration, the inbox of feature requests, datasets and analyses,   *)
(* the import of a table, and recruitment pages with their visitors.       *)
(*                                                                         *)
(* An agenda says what is done in a behaviour; it never changes.  It only  *)
(* keeps the runs small: parts that share no state are not interleaved.    *)
(***************************************************************************)
EXTENDS Analyses, FeatureRequests, RawImport, Recruitment

CONSTANT Agendas    \* bound: sets of parts that are interleaved

Parts == {"administration", "sessions", "inbox", "datasets", "fieldwork", "runs", "import", "pages",
          "visitors"}

ASSUME AgendasAssumption == Agendas \subseteq SUBSET Parts

VARIABLE agenda

vars == <<agenda, memberVars, ideaVars, dataVars, rawVars, recruitVars>>

\* Bound: one editor works while there are visitors.
Working == IF "visitors" \in agenda THEN {e \in Editors : e = CHOOSE x \in Editors : TRUE} ELSE Editors

\* What is not done stays at one of its beginnings.
Init ==
    /\ agenda \in Agendas
    /\ MembershipInit /\ FeatureRequestsInit /\ AnalysesInit /\ RawImportInit /\ RecruitmentInit
    /\ agenda \cap {"administration", "inbox", "runs"} = {} => members = CHOOSE first \in Founded : TRUE
    /\ agenda \cap {"datasets", "runs"} = {} => datasets = CHOOSE first \in Built : TRUE
    /\ agenda \cap {"datasets", "fieldwork"} = {} => responses = CHOOSE first \in Started : TRUE
    /\ "import" \notin agenda => taken = {}
    /\ agenda \cap {"pages", "visitors"} = {} => pages = CHOOSE first \in Pages0 : TRUE

(* One request of a member. *)
Request(r) ==
    \/ /\ \/ "administration" \in agenda /\ Administer(r)
          \/ "datasets" \in agenda /\ OrderDataset(r)
          \/ "runs" \in agenda /\ OrderRun(r)
          \/ "inbox" \in agenda /\ OrderIdea(r)
          \/ Authorize(r) \/ Write(r) \/ Commit(r) \/ RollBack(r)
       /\ UNCHANGED <<ideaVars, dataVars>>
    \/ Handles(r) /\ UNCHANGED dataVars
    \/ (Transacts(r) \/ Calls(r)) /\ UNCHANGED ideaVars

Next ==
    /\ UNCHANGED agenda
    /\ \/ /\ \/ \E r \in Requests : Request(r)
             \/ "sessions" \in agenda /\ Sessions /\ UNCHANGED <<ideaVars, dataVars>>
             \/ "fieldwork" \in agenda /\ Fieldwork /\ UNCHANGED <<memberVars, ideaVars>>
             \/ "inbox" \in agenda /\ (\E u \in Members : Render(u)) /\ UNCHANGED dataVars
          /\ UNCHANGED <<rawVars, recruitVars>>
       \/ "import" \in agenda /\ AtScreen /\ UNCHANGED <<memberVars, ideaVars, dataVars, recruitVars>>
       \/ /\ \/ "pages" \in agenda /\ \E e \in Working : Edits(e)
             \/ "visitors" \in agenda /\ \E v \in Visitors : Visits(v)
          /\ UNCHANGED <<memberVars, ideaVars, dataVars, rawVars>>

Spec == Init /\ [][Next]_vars

\* The timeout fires, and a transaction gets to its end.
CallEnds(r) ==
    TimesOut(r) \/ Again(r) \/ Finalize(r)

Fairness ==
    \A r \in Requests :
        WF_vars(CallEnds(r) /\ UNCHANGED <<agenda, ideaVars, rawVars, recruitVars>>)

FairSpec == Spec /\ Fairness
-----------------------------------------------------------------------------
\* The shapes of the variables that several parts write.
TypeOK ==
    /\ members \in [Members -> [role : Roles, state : {"active", "deactivated", "none"}]]
    /\ \A r \in Requests : Busy(r) => req[r].by \in Members /\ req[r].lawful \in BOOLEAN
    /\ \A i \in DOMAIN runs : /\ runs[i].status \in {"running", "succeeded", "failed"}
                              /\ runs[i].verdict \in {"none", "ok", "error", "timeout"}
                              /\ runs[i].recipe \in 0 .. Len(recipes)
    /\ \A name \in Names_ : Len(datasets[name]) <= MaxVersions
    /\ screen.status \in {"idle", "previewing", "ready", "importing", "error", "left"}
    /\ \A p \in RPages : /\ ~pages[p].exists => pages[p] = NoPage
                         /\ DOMAIN pages[p].questions \subseteq fields
    /\ \A v \in Visitors : visitors[v].phase \in
          {"away", "opening", "opening with screening", "screening", "form", "sending", "locked",
           "reading", "stored", "screened_out", "done"}
=============================================================================
