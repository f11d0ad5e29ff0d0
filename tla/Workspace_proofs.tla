--------------------------- MODULE Workspace_proofs ---------------------------
(***************************************************************************)
(* The promises of the workspace, for any number of members, requests,     *)
(* studies, pages and editors, part by part.                               *)
(*                                                                         *)
(* The members: a request keeps its author and its job from its arrival,   *)
(* so a change that its author may make is a change of somebody else's     *)
(* membership, and the author is the administrator that remains.  A        *)
(* request whose author has the permission now has had it since it arrived.*)
(* The recruitment pages: what is read before a lock is checked again by   *)
(* the indexes, and a submission holds the lock of its page; a panelist's  *)
(* answers and a visitor's thanks are read off the log of the submissions. *)
(* The trail: one request at a time holds an idea, and writes its event.   *)
(* The datasets: versions are only added, each made of responses that      *)
(* never change once they are given, and a run waits for its own call.     *)
(* The import: what the screen shows belongs to the last choice, or a call *)
(* that will correct it is still due.                                      *)
(* The types: what a job carries is what its commit may write.             *)
(***************************************************************************)
EXTENDS Workspace, FiniteSetTheorems, WellFoundedInduction, TLAPS

(* What a request never loses: its fields, its author, a job that fits. *)
JobFits(x) ==
    /\ x.job[1] \in Jobs =>
         /\ x.job[2] \in Members
         /\ x.job[1] # "invite" => x.job[2] # x.by
    /\ x.phase = "written" => x.job[1] \in Jobs

Shaped(x) ==
    /\ {"phase", "by", "action", "job", "work", "lawful"} \subseteq DOMAIN x
    /\ x.by \in Members /\ 1 \in DOMAIN x.job /\ x.phase # "idle"

(* The history is up to date. *)
Told(x) ==
    /\ Allowed(x.by, x.action) => x.lawful
    /\ x.phase \notin {"idle", "arrived", "answered"} => x.lawful

Fits(x) == x = NoRequest \/ (Shaped(x) /\ JobFits(x) /\ Told(x))

RequestsFit ==
    /\ DOMAIN req = Requests /\ DOMAIN members = Members
    /\ \A r \in Requests : Fits(req[r])
-----------------------------------------------------------------------------
(* One request changes at a time, and no membership. *)
LEMMA OneRequest ==
  ASSUME RequestsFit, NEW r \in Requests, NEW x, Fits(x),
         req' = [req EXCEPT ![r] = x], members' = members
  PROVE  RequestsFit'
<1>1. ASSUME NEW s \in Requests PROVE Fits(req'[s])
  BY DEF RequestsFit
<1>2. \A s \in Requests : Fits(req[s])'
  BY <1>1 DEF Fits, Shaped, JobFits, Told, Allowed, Active, NoRequest, Jobs
<1> QED BY <1>2 DEF RequestsFit

LEMMA NoneChanges ==
  ASSUME RequestsFit, req' = req, members' = members PROVE RequestsFit'
  BY DEF RequestsFit, Fits, Shaped, JobFits, Told, Allowed, Active, NoRequest, Jobs

LEMMA EndFits ==
  ASSUME RequestsFit, NEW r \in Requests, Ends(r), members' = members
  PROVE  RequestsFit'
  BY Zenon, OneRequest DEF Ends, Fits

(* A phase follows another; to be authorized takes the permission. *)
LEMMA PhaseFits ==
  ASSUME NEW x, x # NoRequest, Fits(x), NEW y, DOMAIN y = DOMAIN x, y.by = x.by,
         y.action = x.action, y.job = x.job, y.lawful = x.lawful,
         y.phase = "written" => x.job[1] \in Jobs, y.phase # "idle",
         x.phase \notin {"idle", "arrived", "answered"} \/ Allowed(x.by, x.action)
  PROVE  Fits(y)
<1>1. Shaped(x) /\ JobFits(x) /\ Told(x)
  BY DEF Fits
<1>2. Shaped(y)
  BY <1>1 DEF Shaped
<1>3. JobFits(y)
  BY <1>1 DEF JobFits
<1>4. Told(y)
  BY <1>1 DEF Told
<1> QED BY <1>2, <1>3, <1>4 DEF Fits

LEMMA GoesFits ==
  ASSUME RequestsFit, NEW r \in Requests, NEW p, req[r].phase # "idle", p # "idle", Goes(r, p),
         members' = members, p = "written" => req[r].job[1] \in Jobs,
         \/ req[r].phase \notin {"idle", "arrived", "answered"}
         \/ Allowed(req[r].by, req[r].action)
  PROVE  RequestsFit'
<1> DEFINE x == req[r]
<1> DEFINE y == [x EXCEPT !.phase = p]
<1>1. x # NoRequest /\ Fits(x)
  BY DEF RequestsFit, NoRequest
<1>2. Shaped(x)
  BY <1>1 DEF Fits
<1>3. /\ DOMAIN y = DOMAIN x /\ y.by = x.by /\ y.action = x.action
      /\ y.job = x.job /\ y.lawful = x.lawful /\ y.phase = p
  BY <1>2 DEF Shaped
<1>4. req' = [req EXCEPT ![r] = y]
  BY DEF Goes
<1>5. (y.phase = "written" => x.job[1] \in Jobs) /\ y.phase # "idle"
  BY <1>3
<1>6. x.phase \notin {"idle", "arrived", "answered"} \/ Allowed(x.by, x.action)
  OBVIOUS
<1> HIDE DEF y, x
<1>7. Fits(y)
  BY <1>1, <1>3, <1>5, <1>6, PhaseFits
<1> QED BY Zenon, <1>4, <1>7, OneRequest

LEMMA StepFits ==
  ASSUME RequestsFit, NEW r \in Requests, NEW p, NEW w, p \notin {"idle", "written"},
         req[r].phase \notin {"idle", "arrived", "answered"},
         req' = [req EXCEPT ![r].phase = p, ![r].work = w], members' = members
  PROVE  RequestsFit'
<1> DEFINE x == req[r]
<1> DEFINE y == [x EXCEPT !.phase = p, !.work = w]
<1>1. x # NoRequest /\ Fits(x)
  BY DEF RequestsFit, NoRequest
<1>2. Shaped(x)
  BY <1>1 DEF Fits
<1>3. /\ DOMAIN y = DOMAIN x /\ y.by = x.by /\ y.action = x.action
      /\ y.job = x.job /\ y.lawful = x.lawful /\ y.phase = p
  BY <1>2 DEF Shaped
<1>4. req' = [req EXCEPT ![r] = y]
  BY Zenon DEF RequestsFit
<1>5. (y.phase = "written" => x.job[1] \in Jobs) /\ y.phase # "idle"
  BY <1>3
<1>6. x.phase \notin {"idle", "arrived", "answered"} \/ Allowed(x.by, x.action)
  OBVIOUS
<1> HIDE DEF y, x
<1>7. Fits(y)
  BY <1>1, <1>3, <1>5, <1>6, PhaseFits
<1> QED BY Zenon, <1>4, <1>7, OneRequest
-----------------------------------------------------------------------------
(* The beginning. *)
LEMMA InitFits == Init => RequestsFit
  BY MembershipAssumption DEF Init, MembershipInit, RequestsFit, Fits

LEMMA ArriveFits ==
  ASSUME RequestsFit, NEW r \in Requests, NEW u \in Members, NEW action, NEW job,
         1 \in DOMAIN job, Arrive(r, u, action, job),
         job[1] \in Jobs => job[2] \in Members /\ (job[1] # "invite" => job[2] # u)
  PROVE  RequestsFit'
<1> DEFINE x == [phase |-> "arrived", by |-> u, action |-> action, job |-> job,
                 work |-> <<>>, lawful |-> Allowed(u, action)]
<1>1. Shaped(x) /\ JobFits(x) /\ Told(x)
  BY DEF Shaped, JobFits, Told
<1>2. req' = [req EXCEPT ![r] = x] /\ members' = members
  BY DEF Arrive
<1> HIDE DEF x
<1> QED BY Zenon, <1>1, <1>2, OneRequest DEF Fits

(* The page offers to change other members only. *)
LEMMA AdministerFits ==
  ASSUME RequestsFit, NEW r \in Requests, Administer(r) PROVE RequestsFit'
<1> PICK u \in Members, v \in Members, role \in Hires, state \in {"active", "deactivated"} :
        \/ /\ Offered(u, v)
           /\ Arrive(r, u, "members.change_role", <<"role", v, role>>)
        \/ /\ Offered(u, v)
           /\ Arrive(r, u, "members.deactivate", <<"state", v, state>>)
        \/ Arrive(r, u, "members.invite", <<"invite", v, role>>)
  BY DEF Administer
<1>1. CASE Offered(u, v) /\ Arrive(r, u, "members.change_role", <<"role", v, role>>)
  BY <1>1, ArriveFits DEF Offered
<1>2. CASE Offered(u, v) /\ Arrive(r, u, "members.deactivate", <<"state", v, state>>)
  BY <1>2, ArriveFits DEF Offered
<1>3. CASE Arrive(r, u, "members.invite", <<"invite", v, role>>)
  BY <1>3, ArriveFits
<1> QED BY <1>1, <1>2, <1>3

\* A job that is none of the members' administration.
LEMMA PlainFits ==
  ASSUME RequestsFit, NEW r \in Requests, NEW u \in Members, NEW action, NEW job,
         1 \in DOMAIN job, job[1] \notin Jobs, Arrive(r, u, action, job)
  PROVE  RequestsFit'
  BY ArriveFits

LEMMA OrderDatasetFits ==
  ASSUME RequestsFit, NEW r \in Requests, OrderDataset(r) PROVE RequestsFit'
<1>1. PICK u \in Members :
        \/ \E s \in Studies : Arrive(r, u, "datasets.create", <<"build", s>>)
        \/ \E name \in Names_ : \E k \in Versions(name) :
              Arrive(r, u, "datasets.create", <<"derive", name, k>>)
  BY Zenon DEF OrderDataset
<1>2. ASSUME NEW s, Arrive(r, u, "datasets.create", <<"build", s>>) PROVE RequestsFit'
  BY <1>2, PlainFits DEF Jobs
<1>3. ASSUME NEW name, NEW k, Arrive(r, u, "datasets.create", <<"derive", name, k>>)
      PROVE  RequestsFit'
  BY <1>3, PlainFits DEF Jobs
<1> QED BY Zenon, <1>1, <1>2, <1>3

LEMMA OrderRunFits ==
  ASSUME RequestsFit, NEW r \in Requests, OrderRun(r) PROVE RequestsFit'
<1>1. PICK u \in Members : \E kind \in {"run", "rerun"} : \E name, k, recipe :
        Arrive(r, u, "analytics.run", <<kind, name, k, recipe>>)
  BY Zenon DEF OrderRun
<1>2. ASSUME NEW kind \in {"run", "rerun"}, NEW name, NEW k, NEW recipe,
             Arrive(r, u, "analytics.run", <<kind, name, k, recipe>>)
      PROVE  RequestsFit'
  BY <1>2, PlainFits DEF Jobs
<1> QED BY <1>1, <1>2

LEMMA OrderIdeaFits ==
  ASSUME RequestsFit, NEW r \in Requests, OrderIdea(r) PROVE RequestsFit'
<1>1. PICK u \in Members :
        \/ Arrive(r, u, "feature_requests.create", <<"suggest">>)
        \/ \E f, status, owner :
              Arrive(r, u, "feature_requests.manage", <<"update", f, status, owner>>)
  BY Zenon DEF OrderIdea
<1>2. CASE Arrive(r, u, "feature_requests.create", <<"suggest">>)
  BY <1>2, PlainFits DEF Jobs
<1>3. ASSUME NEW f, NEW status, NEW owner,
             Arrive(r, u, "feature_requests.manage", <<"update", f, status, owner>>)
      PROVE  RequestsFit'
  BY <1>3, PlainFits DEF Jobs
<1> QED BY Zenon, <1>1, <1>2, <1>3

LEMMA AuthorizeFits ==
  ASSUME RequestsFit, NEW r \in Requests, Authorize(r) PROVE RequestsFit'
<1>1. members' = members /\ req[r].phase # "idle"
  BY DEF Authorize, At
<1>2. CASE Grants(req[r].by, req[r].action)
  BY <1>1, <1>2, GoesFits DEF Authorize, Grants
<1>3. CASE ~Grants(req[r].by, req[r].action)
  BY <1>1, <1>3, EndFits DEF Authorize
<1> QED BY <1>2, <1>3

LEMMA WriteFits ==
  ASSUME RequestsFit, NEW r \in Requests, Write(r) PROVE RequestsFit'
<1>1. members' = members /\ req[r].phase = "authorized" /\ req[r].job[1] \in Jobs
  BY DEF Write, At
<1>2. CASE Goes(r, "written")
  BY <1>1, <1>2, GoesFits
<1>3. CASE Ends(r)
  BY <1>1, <1>3, EndFits
<1> QED BY <1>2, <1>3 DEF Write

(* A change of the members, and the history of everybody under way. *)
LEMMA CommitFits ==
  ASSUME RequestsFit, NEW r \in Requests, Commit(r) PROVE RequestsFit'
<1> DEFINE rs == [req EXCEPT ![r] = NoRequest]
<1>1. req' = Witnessed(members', rs) /\ DOMAIN members' = Members
  BY DEF Commit, RequestsFit
<1>2. DOMAIN req' = Requests
  BY <1>1 DEF Witnessed
<1>3. ASSUME NEW s \in Requests PROVE Fits(req[s])'
  <2>1. rs[s] = NoRequest \/ (rs[s] = req[s] /\ Shaped(req[s]) /\ JobFits(req[s]) /\ Told(req[s]))
    BY DEF RequestsFit, Fits
  <2>2. CASE rs[s].phase = "idle"
    <3>1. req'[s] = rs[s]
      BY <1>1, <2>2 DEF Witnessed
    <3>2. rs[s] = NoRequest
      BY <2>1, <2>2 DEF Shaped
    <3> QED BY <3>1, <3>2 DEF Fits, NoRequest
  <2>3. CASE rs[s].phase # "idle"
    <3> DEFINE x == req[s]
    <3> DEFINE able == members'[x.by].state = "active" /\ Can(members'[x.by].role, x.action)
    <3>1. rs[s] = x /\ Shaped(x) /\ JobFits(x) /\ Told(x)
      BY <2>1, <2>3 DEF NoRequest
    <3>2. req'[s] = [x EXCEPT !.lawful = x.lawful \/ able]
      BY Zenon, <1>1, <2>3, <3>1 DEF Witnessed
    <3> DEFINE y == [x EXCEPT !.lawful = x.lawful \/ able]
    <3>3. /\ DOMAIN y = DOMAIN x /\ y.by = x.by /\ y.action = x.action /\ y.job = x.job
          /\ y.phase = x.phase /\ y.lawful = (x.lawful \/ able)
      BY <3>1 DEF Shaped
    <3>4. req'[s] = y
      BY <3>2
    <3> HIDE DEF y
    <3>5. Shaped(y) /\ JobFits(y)
      BY <3>1, <3>3 DEF Shaped, JobFits
    <3>6. members'[y.by].state = "active" /\ Can(members'[y.by].role, y.action) => y.lawful
      BY Zenon, <3>3
    <3>7. y.phase \notin {"idle", "arrived", "answered"} => y.lawful
      BY Zenon, <3>1, <3>3 DEF Told
    <3>8. Told(req[s])'
      BY <3>4, <3>6, <3>7 DEF Told, Allowed, Active
    <3>9. Shaped(req[s])' /\ JobFits(req[s])'
      BY <3>4, <3>5 DEF Shaped, JobFits, Jobs
    <3> QED BY <3>8, <3>9 DEF Fits, Shaped, JobFits, Told, Allowed, Active, Jobs
  <2> QED BY <2>2, <2>3
<1> QED BY Zenon, <1>1, <1>2, <1>3 DEF RequestsFit
-----------------------------------------------------------------------------
(* What a transaction does between its check and its end. *)
LEMMA GoesOn ==
  ASSUME RequestsFit, NEW r \in Requests, NEW phase, Works(r, phase),
         phase \notin {"idle", "arrived", "answered"},
         Ends(r) \/ \E p, w : p \notin {"idle", "written"} /\ Step(r, p, w)
  PROVE  RequestsFit'
<1>1. members' = members /\ req[r].phase = phase
  BY DEF Works, At
<1>2. CASE Ends(r)
  BY <1>1, <1>2, EndFits
<1>3. CASE \E p, w : p \notin {"idle", "written"} /\ Step(r, p, w)
  <2>1. PICK p, w : p \notin {"idle", "written"} /\ Step(r, p, w)
    BY <1>3
  <2> QED BY Zenon, <1>1, <2>1, StepFits DEF Step
<1> QED BY <1>2, <1>3

LEMMA PickFits == ASSUME RequestsFit, NEW r \in Requests, Pick(r) PROVE RequestsFit'
<1>1. Works(r, "authorized") /\ (Ends(r) \/ \E w : Step(r, "picked", w))
  BY Zenon DEF Pick, Refuse
<1> QED BY <1>1, GoesOn

LEMMA LookFits == ASSUME RequestsFit, NEW r \in Requests, Look(r) PROVE RequestsFit'
<1>1. Works(r, "picked") /\ (Ends(r) \/ \E w : Step(r, "looked", w))
  BY Zenon DEF Look, Refuse
<1> QED BY <1>1, GoesOn

LEMMA BeginFits == ASSUME RequestsFit, NEW r \in Requests, Begin(r) PROVE RequestsFit'
<1>1. Works(r, "looked") /\ (Ends(r) \/ \E w : Step(r, "numbered", w))
  BY Zenon DEF Begin, Refuse
<1> QED BY <1>1, GoesOn

LEMMA InsertFits == ASSUME RequestsFit, NEW r \in Requests, Insert(r) PROVE RequestsFit'
<1>1. Works(r, "numbered") /\ Ends(r)
  BY Zenon DEF Insert, Refuse
<1> QED BY <1>1, GoesOn

LEMMA DeriveFits == ASSUME RequestsFit, NEW r \in Requests, Derive(r) PROVE RequestsFit'
<1>1. Works(r, "authorized") /\ (Ends(r) \/ \E w : Step(r, "looked", w))
  BY Zenon DEF Derive, Refuse
<1> QED BY <1>1, GoesOn

LEMMA PrepareFits == ASSUME RequestsFit, NEW r \in Requests, Prepare(r) PROVE RequestsFit'
<1>1. Works(r, "authorized") /\ (Ends(r) \/ \E w : Step(r, "calling", w))
  BY Zenon DEF Prepare, Refuse
<1> QED BY <1>1, GoesOn

LEMMA EndingFits ==
  ASSUME RequestsFit, NEW r \in Requests,
         Finalize(r) \/ FinalizeFails(r) \/ Dies(r) \/ CreateFeatureRequest(r) \/ WriteIdea(r)
           \/ IdeaDies(r) \/ RollBack(r)
  PROVE  RequestsFit'
<1>1. Ends(r) /\ members' = members
  BY Zenon DEF Finalize, FinalizeFails, Dies, CreateFeatureRequest, WriteIdea, IdeaDies, RollBack,
         Works, Stores, Throws
<1> QED BY <1>1, EndFits

LEMMA CheckOwnerFits == ASSUME RequestsFit, NEW r \in Requests, CheckOwner(r) PROVE RequestsFit'
<1>1. members' = members /\ req[r].phase = "authorized" /\ (Ends(r) \/ Goes(r, "checked"))
  BY DEF CheckOwner, Works, At, Throws
<1> QED BY <1>1, EndFits, GoesFits

LEMMA LockIdeaFits == ASSUME RequestsFit, NEW r \in Requests, LockIdea(r) PROVE RequestsFit'
<1>1. Works(r, "checked") /\ (Ends(r) \/ \E w : Step(r, "holding", w))
  BY DEF LockIdea, Throws, Step
<1> QED BY <1>1, GoesOn

(* A transaction after the first asks for the permission again. *)
LEMMA AgainFits == ASSUME RequestsFit, NEW r \in Requests, Again(r) PROVE RequestsFit'
<1>1. members' = members /\ req[r].phase = "answered"
  BY DEF Again, Works, At
<1>2. Ends(r) \/ (Goes(r, "finalizing") /\ Allowed(req[r].by, req[r].action))
  BY DEF Again, Grants
<1> QED BY <1>1, <1>2, EndFits, GoesFits

LEMMA WaitsFits ==
  ASSUME RequestsFit, NEW r \in Requests, NEW p \in {"arrived", "answered"}, NEW job,
         req[r].phase # "idle", members' = members, 1 \in DOMAIN job, job[1] \notin Jobs \/ job = req[r].job,
         req' = [req EXCEPT ![r] = [req[r] EXCEPT !.phase = p, !.job = job,
                                          !.lawful = Allowed(req[r].by, req[r].action)]]
  PROVE  RequestsFit'
<1> DEFINE x == req[r]
<1> DEFINE y == [x EXCEPT !.phase = p, !.job = job, !.lawful = Allowed(x.by, x.action)]
<1>1. Shaped(x) /\ JobFits(x)
  BY DEF RequestsFit, Fits, NoRequest
<1>2. /\ DOMAIN y = DOMAIN x /\ y.by = x.by /\ y.action = x.action /\ y.job = job
      /\ y.phase = p /\ y.lawful = Allowed(x.by, x.action)
  BY <1>1 DEF Shaped
<1>3. job[1] \notin Jobs \/ job = x.job
  OBVIOUS
<1> HIDE DEF y, x
<1>4. Shaped(y) /\ JobFits(y) /\ Told(y)
  BY <1>1, <1>2, <1>3 DEF Shaped, JobFits, Told
<1> QED BY Zenon, <1>4, OneRequest DEF Fits, x, y

LEMMA ReadRecipeFits == ASSUME RequestsFit, NEW r \in Requests, ReadRecipe(r) PROVE RequestsFit'
<1>1. members' = members /\ req[r].phase = "authorized"
  BY Zenon DEF ReadRecipe, Works, At
<1>2. CASE Ends(r)
  BY <1>1, <1>2, EndFits
<1>3. CASE req' = [req EXCEPT ![r].phase = "arrived", ![r].job[1] = "run",
                              ![r].lawful = Allowed(req[r].by, req[r].action)]
  <2> DEFINE job == [req[r].job EXCEPT ![1] = "run"]
  <2>1. Shaped(req[r]) /\ DOMAIN req = Requests
    BY <1>1 DEF RequestsFit, Fits, NoRequest
  <2>2. 1 \in DOMAIN job /\ job[1] = "run"
    BY <2>1 DEF Shaped
  <2>3. req' = [req EXCEPT ![r] = [req[r] EXCEPT !.phase = "arrived", !.job = job,
                                         !.lawful = Allowed(req[r].by, req[r].action)]]
    BY Zenon, <1>3, <2>1 DEF Shaped
  <2> HIDE DEF job
  <2> QED BY Zenon, <1>1, <2>2, <2>3, WaitsFits DEF Jobs
<1> QED BY Zenon, <1>2, <1>3 DEF ReadRecipe, Refuse
LEMMA ReturnsFits ==
  ASSUME RequestsFit, NEW r \in Requests, NEW verdict, Returns(r, verdict) PROVE RequestsFit'
<1>1. members' = members /\ req[r].phase = "calling"
  BY DEF Returns, Works, At
<1>2. Shaped(req[r]) /\ DOMAIN req = Requests
  BY <1>1 DEF RequestsFit, Fits, NoRequest
<1> DEFINE job == req[r].job
<1>3. 1 \in DOMAIN job
  BY <1>2 DEF Shaped
<1>4. req' = [req EXCEPT ![r] = [req[r] EXCEPT !.phase = "answered", !.job = job,
                                       !.lawful = Allowed(req[r].by, req[r].action)]]
  BY Zenon, <1>2 DEF Returns, Shaped
<1>5. job = req[r].job
  OBVIOUS
<1> HIDE DEF job
<1> QED BY Zenon, <1>1, <1>3, <1>4, <1>5, WaitsFits

(* Every step of the workspace. *)
LEMMA RequestKeeps ==
  ASSUME RequestsFit, NEW r \in Requests, Request(r) PROVE RequestsFit'
<1>1. CASE Administer(r) \/ OrderDataset(r) \/ OrderRun(r) \/ OrderIdea(r)
  BY <1>1, AdministerFits, OrderDatasetFits, OrderRunFits, OrderIdeaFits
<1>2. CASE Authorize(r) \/ Write(r) \/ Commit(r) \/ RollBack(r)
  BY <1>2, AuthorizeFits, WriteFits, CommitFits, EndingFits
<1>3. CASE Handles(r)
  BY <1>3, EndingFits, CheckOwnerFits, LockIdeaFits DEF Handles
<1>4. CASE Transacts(r)
  BY <1>4, PickFits, LookFits, BeginFits, InsertFits, DeriveFits, ReadRecipeFits, PrepareFits
  DEF Transacts
<1>5. CASE Calls(r)
  BY <1>5, ReturnsFits, AgainFits, EndingFits DEF Calls, Answer, TimesOut
<1> QED BY <1>1, <1>2, <1>3, <1>4, <1>5 DEF Request

LEMMA StepKeeps == ASSUME RequestsFit, [Next]_vars PROVE RequestsFit'
<1>1. CASE \E r \in Requests : Request(r)
  BY <1>1, RequestKeeps
<1>2. ASSUME NEW u \in Members, SignIn(u) \/ SignOut(u) PROVE RequestsFit'
  BY <1>2, NoneChanges DEF SignIn, SignOut
<1>3. CASE UNCHANGED memberVars
  BY <1>3, NoneChanges DEF memberVars
<1>4. CASE \E u \in Members : Render(u)
  BY <1>4, NoneChanges DEF Render, memberVars
<1> QED BY <1>1, <1>2, <1>3, <1>4 DEF Next, vars, Sessions

\* No transaction works for an author who has not had the permission at some
\* moment since the request, or its last call of a service, arrived, whatever
\* the cookie says (auth.ts:132-137).
THEOREM LawfulCorrect == Spec => []LawfulOnly
<1>1. Init => RequestsFit
  BY InitFits
<1>2. RequestsFit /\ [Next]_vars => RequestsFit'
  BY StepKeeps
<1>3. RequestsFit => LawfulOnly
  BY DEF RequestsFit, Fits, Told, LawfulOnly, NoRequest
<1> QED BY <1>1, <1>2, <1>3, PTL DEF Spec
-----------------------------------------------------------------------------
(* Only a commit changes the members; its author is not the one it changes, or *)
(* has invited themselves.                                                     *)
LEMMA CommitLeavesOne ==
  ASSUME RequestsFit, NEW r \in Requests, Commit(r) PROVE AdministratorRemains'
<1> DEFINE u == req[r].by
<1>1. u \in Members /\ JobFits(req[r]) /\ req[r].phase = "written"
  BY DEF RequestsFit, Fits, Shaped, Commit, At, NoRequest
<1>2. CASE req[r].job[1] = "invite" /\ req[r].job[2] = u
  BY Zenon, <1>2 DEF Commit, AdministratorRemains
<1>3. CASE ~Administrator(members[u])
  BY Zenon, <1>3 DEF Commit, AdministratorRemains
<1>4. CASE req[r].job[2] # u /\ Administrator(members[u])
  <2>1. members'[u] = members[u]
    BY <1>1, <1>4 DEF Commit, RequestsFit
  <2> QED BY <1>1, <1>4, <2>1 DEF AdministratorRemains, Administrator
<1> QED BY <1>1, <1>2, <1>3, <1>4 DEF JobFits

LEMMA OthersLeaveAll ==
  ASSUME NEW r \in Requests, Request(r), ~Commit(r)
  PROVE  UNCHANGED <<members, overlapped, selfInvited>>
<1>1. CASE Administer(r) \/ OrderDataset(r) \/ OrderRun(r) \/ OrderIdea(r)
  BY <1>1 DEF Administer, OrderDataset, OrderRun, OrderIdea, Arrive
<1>2. CASE Authorize(r) \/ Write(r) \/ RollBack(r)
  BY <1>2 DEF Authorize, Write, RollBack
<1>3. CASE Handles(r)
  BY Zenon, <1>3 DEF Handles, CreateFeatureRequest, CheckOwner, LockIdea, WriteIdea, IdeaDies, Works
<1>4. CASE Transacts(r)
  BY Zenon, <1>4 DEF Transacts, Pick, Look, Begin, Insert, Derive, ReadRecipe, Prepare, Works
<1>5. CASE Calls(r)
  BY <1>5 DEF Calls, Answer, TimesOut, Returns, Again, Finalize, FinalizeFails, Dies, Works
<1> QED BY <1>1, <1>2, <1>3, <1>4, <1>5 DEF Request

\* Somebody can administer the members, unless a change was committed by someone
\* who no longer could, or somebody invited themselves (admin/actions.ts:18-79
\* has no guard of its own).
THEOREM AdministratorCorrect == Spec => []AdministratorRemains
<1>1. Init => AdministratorRemains
  BY MembershipAssumption DEF Init, MembershipInit, AdministratorRemains
<1>2. RequestsFit /\ AdministratorRemains /\ [Next]_vars => AdministratorRemains'
  <2> SUFFICES ASSUME RequestsFit, AdministratorRemains, [Next]_vars PROVE AdministratorRemains'
    OBVIOUS
  <2>1. CASE UNCHANGED <<members, overlapped, selfInvited>>
    BY <2>1 DEF AdministratorRemains, Administrator
  <2>2. ASSUME NEW r \in Requests, Request(r) PROVE AdministratorRemains'
    BY <2>1, <2>2, CommitLeavesOne, OthersLeaveAll
  <2>3. CASE UNCHANGED memberVars
    BY <2>1, <2>3 DEF memberVars
  <2>4. ASSUME NEW u \in Members, SignIn(u) \/ SignOut(u) \/ Render(u)
        PROVE  AdministratorRemains'
    BY <2>1, <2>4 DEF SignIn, SignOut, Render, memberVars
  <2> QED BY <2>2, <2>3, <2>4 DEF Next, vars, Sessions
<1>3. Init => RequestsFit
  BY InitFits
<1>4. RequestsFit /\ [Next]_vars => RequestsFit'
  BY StepKeeps
<1> QED BY <1>1, <1>2, <1>3, <1>4, PTL DEF Spec
-----------------------------------------------------------------------------
(* The recruitment pages. *)
PageShaped(x) ==
    /\ {"exists", "token", "active", "screening", "questions"} \subseteq DOMAIN x
    /\ \A f \in DOMAIN x.questions : {"position", "required"} \subseteq DOMAIN x.questions[f]

PagesFit ==
    /\ DOMAIN pages = RPages /\ OwnTokens(pages)
    /\ \A p \in RPages : PageShaped(pages[p]) /\ OneOrder(pages[p])

(* One page changes at a time, and takes a token that no other has. *)
LEMMA OnePage ==
  ASSUME PagesFit, NEW p, NEW x, PageShaped(x), OneOrder(x),
         x.exists => \A q \in RPages \ {p} : pages[q].exists => pages[q].token # x.token,
         pages' = [pages EXCEPT ![p] = x]
  PROVE  PagesFit'
<1>1. DOMAIN pages' = RPages
  BY DEF PagesFit
<1>2. \A q \in RPages : pages'[q] = IF q = p THEN x ELSE pages[q]
  BY DEF PagesFit
<1>3. OwnTokens(pages)'
  BY <1>1, <1>2 DEF PagesFit, OwnTokens
<1>4. ASSUME NEW q \in RPages PROVE (PageShaped(pages[q]) /\ OneOrder(pages[q]))'
  <2>1. pages'[q] = x \/ pages'[q] = pages[q]
    BY <1>2
  <2>2. PageShaped(pages[q]) /\ OneOrder(pages[q])
    BY DEF PagesFit
  <2> QED BY <2>1, <2>2 DEF PageShaped, OneOrder
<1> QED BY <1>1, <1>3, <1>4 DEF PagesFit

LEMMA AlikePages ==
  ASSUME PagesFit, DOMAIN pages' = RPages, \A q \in RPages : pages'[q] = pages[q]
  PROVE  PagesFit'
<1>1. OwnTokens(pages)'
  BY DEF PagesFit, OwnTokens
<1>2. ASSUME NEW q \in RPages PROVE (PageShaped(pages[q]) /\ OneOrder(pages[q]))'
  BY DEF PagesFit, PageShaped, OneOrder
<1> QED BY <1>1, <1>2 DEF PagesFit

LEMMA SamePages == ASSUME PagesFit, pages' = pages PROVE PagesFit'
  BY AlikePages DEF PagesFit

(* A page keeps its token, and its questions their positions. *)
LEMMA KeepsToken ==
  ASSUME PagesFit, NEW p, NEW x, pages' = [pages EXCEPT ![p] = x],
         PageShaped(x), OneOrder(x), x.exists = pages[p].exists, x.token = pages[p].token
  PROVE  PagesFit'
<1>1. CASE p \in RPages
  <2>1. x.exists => \A q \in RPages \ {p} : pages[q].exists => pages[q].token # x.token
    BY Zenon, <1>1 DEF PagesFit, OwnTokens
  <2> QED BY Zenon, <2>1, OnePage
<1>2. CASE p \notin RPages
  BY <1>2, AlikePages DEF PagesFit
<1> QED BY <1>1, <1>2

LEMMA UpdateFits == ASSUME PagesFit, NEW e, UpdatePage(e) PROVE PagesFit'
<1> DEFINE p == editors[e].call.job[2]
<1>1. CASE pages' = pages
  BY <1>1, SamePages
<1>2. ASSUME NEW v, \/ pages' = [pages EXCEPT ![p].screening = v]
                    \/ pages' = [pages EXCEPT ![p].active = v]
      PROVE  PagesFit'
  <2>1. CASE p \notin RPages
    BY <1>2, <2>1, AlikePages DEF PagesFit
  <2>2. CASE p \in RPages
    <3>1. PageShaped(pages[p]) /\ OneOrder(pages[p])
      BY <2>2 DEF PagesFit
    <3>2. CASE pages' = [pages EXCEPT ![p].screening = v]
      <4> DEFINE x == [pages[p] EXCEPT !.screening = v]
      <4>1. /\ DOMAIN x = DOMAIN pages[p] /\ x.exists = pages[p].exists
            /\ x.token = pages[p].token /\ x.questions = pages[p].questions
        BY <3>1 DEF PageShaped
      <4>2. pages' = [pages EXCEPT ![p] = x]
        BY <3>2
      <4> HIDE DEF x, p
      <4>3. PageShaped(x) /\ OneOrder(x)
        BY <3>1, <4>1 DEF PageShaped, OneOrder
      <4> QED BY Zenon, <4>1, <4>2, <4>3, KeepsToken
    <3>3. CASE pages' = [pages EXCEPT ![p].active = v]
      <4> DEFINE x == [pages[p] EXCEPT !.active = v]
      <4>1. /\ DOMAIN x = DOMAIN pages[p] /\ x.exists = pages[p].exists
            /\ x.token = pages[p].token /\ x.questions = pages[p].questions
        BY <3>1 DEF PageShaped
      <4>2. pages' = [pages EXCEPT ![p] = x]
        BY <3>3
      <4> HIDE DEF x, p
      <4>3. PageShaped(x) /\ OneOrder(x)
        BY <3>1, <4>1 DEF PageShaped, OneOrder
      <4> QED BY Zenon, <4>1, <4>2, <4>3, KeepsToken
    <3> QED BY <1>2, <3>2, <3>3
  <2> QED BY <2>1, <2>2
<1> QED BY Zenon, <1>1, <1>2 DEF UpdatePage, Commits, Fails

(* Nobody has the token: the index has been asked at the update. *)
LEMMA SetLinkFits == ASSUME PagesFit, NEW e, SetLink(e) PROVE PagesFit'
<1> DEFINE p == editors[e].call.job[2]
<1> DEFINE link == editors[e].call.job[3]
<1>1. CASE pages' = pages
  BY <1>1, SamePages
<1>2. CASE /\ pages' = [pages EXCEPT ![p].token = link]
           /\ \A q \in RPages \ {p} : pages[q].exists => pages[q].token # link
  <2>1. CASE p \notin RPages
    BY Zenon, <1>2, <2>1, AlikePages DEF PagesFit
  <2>2. CASE p \in RPages
    <3>1. PageShaped(pages[p]) /\ OneOrder(pages[p])
      BY <2>2 DEF PagesFit
    <3> DEFINE x == [pages[p] EXCEPT !.token = link]
    <3>2. /\ DOMAIN x = DOMAIN pages[p] /\ x.token = link /\ x.questions = pages[p].questions
      BY <3>1 DEF PageShaped
    <3>3. pages' = [pages EXCEPT ![p] = x]
      BY <1>2
    <3> HIDE DEF x, p, link
    <3>4. PageShaped(x) /\ OneOrder(x)
      BY <3>1, <3>2 DEF PageShaped, OneOrder
    <3> QED BY Zenon, <1>2, <3>2, <3>3, <3>4, OnePage
  <2> QED BY <2>1, <2>2
<1>3. pages' = pages \/ (pages' = [pages EXCEPT ![p].token = link]
        /\ \A q \in RPages \ {p} : pages[q].exists => pages[q].token # link)
  BY Zenon DEF SetLink, Commits, Fails
<1> QED BY <1>1, <1>2, <1>3

(* A page that is new has the token of nobody, and its questions are in order. *)
LEMMA NewPageFits ==
  ASSUME PagesFit, NEW e, NewPage(e),
         editors[e].call.job[1] = "clone" => editors[e].call.job[2] \in RPages
  PROVE  PagesFit'
<1> DEFINE from == editors[e].call.job[2]
<1>1. CASE pages' = pages
  BY <1>1, SamePages
<1>2. ASSUME NEW p \in RPages, \A q \in RPages : pages[q].exists => pages[q].token # Fresh[p],
             pages' = [pages EXCEPT ![p] = [NoPage EXCEPT !.exists = TRUE, !.token = Fresh[p]]]
      PROVE  PagesFit'
  <2> DEFINE x == [NoPage EXCEPT !.exists = TRUE, !.token = Fresh[p]]
  <2>1. /\ DOMAIN x = {"exists", "token", "active", "screening", "questions"}
        /\ x.token = Fresh[p] /\ x.questions = <<>>
    BY DEF NoPage
  <2>2. PageShaped(x) /\ OneOrder(x)
    BY <2>1 DEF PageShaped, OneOrder
  <2>3. pages' = [pages EXCEPT ![p] = x]
    BY <1>2
  <2> HIDE DEF x
  <2> QED BY Zenon, <1>2, <2>1, <2>2, <2>3, OnePage
<1>3. ASSUME NEW p \in RPages, \A q \in RPages : pages[q].exists => pages[q].token # Fresh[p],
             from \in RPages,
             pages' = [pages EXCEPT ![p] = [pages[from] EXCEPT !.token = Fresh[p], !.active = FALSE]]
      PROVE  PagesFit'
  <2> DEFINE x == [pages[from] EXCEPT !.token = Fresh[p], !.active = FALSE]
  <2>1. PageShaped(pages[from]) /\ OneOrder(pages[from])
    BY <1>3 DEF PagesFit
  <2>2. /\ DOMAIN x = DOMAIN pages[from] /\ x.token = Fresh[p] /\ x.questions = pages[from].questions
    BY <2>1 DEF PageShaped
  <2>3. pages' = [pages EXCEPT ![p] = x]
    BY <1>3
  <2> HIDE DEF x, from
  <2>4. PageShaped(x) /\ OneOrder(x)
    BY <2>1, <2>2 DEF PageShaped, OneOrder
  <2> QED BY Zenon, <1>3, <2>2, <2>3, <2>4, OnePage
<1> QED BY Zenon, <1>1, <1>2, <1>3 DEF NewPage, Commits, Fails, Free, At_

LEMMA DeletePageFits == ASSUME PagesFit, NEW e, DeletePage(e) PROVE PagesFit'
<1> DEFINE p == editors[e].call.job[2]
<1>1. PageShaped(NoPage) /\ OneOrder(NoPage) /\ ~NoPage.exists
  BY DEF NoPage, PageShaped, OneOrder
<1>2. CASE pages' = pages
  BY <1>2, SamePages
<1>3. CASE pages' = [pages EXCEPT ![p] = NoPage]
  <2> HIDE DEF p
  <2> QED BY Zenon, <1>1, <1>3, OnePage
<1> QED BY Zenon, <1>2, <1>3 DEF DeletePage, Deleted, Commits, Fails

(* Questions of a page are left out, or marked, where they are. *)
LEMMA QuestionsFit ==
  ASSUME PagesFit, NEW p \in RPages, NEW qs,
         pages' = [pages EXCEPT ![p] = [pages[p] EXCEPT !.questions = qs]],
         \A f \in DOMAIN qs : {"position", "required"} \subseteq DOMAIN qs[f],
         \A f, g \in DOMAIN qs : f # g => qs[f].position # qs[g].position
  PROVE  PagesFit'
<1> DEFINE x == [pages[p] EXCEPT !.questions = qs]
<1>1. PageShaped(pages[p])
  BY DEF PagesFit
<1>2. /\ DOMAIN x = DOMAIN pages[p] /\ x.exists = pages[p].exists
      /\ x.token = pages[p].token /\ x.questions = qs
  BY <1>1 DEF PageShaped
<1>3. pages' = [pages EXCEPT ![p] = x]
  OBVIOUS
<1> HIDE DEF x
<1>4. PageShaped(x) /\ OneOrder(x)
  BY <1>1, <1>2 DEF PageShaped, OneOrder
<1> QED BY Zenon, <1>2, <1>3, <1>4, KeepsToken

LEMMA EditQuestionFits ==
  ASSUME PagesFit, NEW e, EditQuestion(e), editors[e].call.job[2] \in RPages PROVE PagesFit'
<1> DEFINE job == editors[e].call.job
<1> DEFINE p == job[2]
<1> DEFINE questions == pages[p].questions
<1>1. PageShaped(pages[p]) /\ OneOrder(pages[p])
  BY DEF PagesFit
<1>2. CASE pages' = pages
  BY <1>2, SamePages
<1>3. ASSUME NEW kept, kept \subseteq DOMAIN questions,
             pages' = [pages EXCEPT ![p].questions =
                          [f \in kept |-> IF job[1] = "require" /\ f = job[3]
                                          THEN [questions[f] EXCEPT !.required = job[4]]
                                          ELSE questions[f]]]
      PROVE  PagesFit'
  <2> DEFINE qs == [f \in kept |-> IF job[1] = "require" /\ f = job[3]
                                    THEN [questions[f] EXCEPT !.required = job[4]]
                                    ELSE questions[f]]
  <2>1. DOMAIN qs = kept
    OBVIOUS
  <2>2. ASSUME NEW f \in kept
        PROVE  DOMAIN qs[f] = DOMAIN questions[f] /\ qs[f].position = questions[f].position
    BY Zenon, <1>1, <1>3 DEF PageShaped
  <2>3. \A f \in DOMAIN qs : {"position", "required"} \subseteq DOMAIN qs[f]
    BY Zenon, <1>1, <1>3, <2>1, <2>2 DEF PageShaped
  <2>4. /\ pages' = [pages EXCEPT ![p] = [pages[p] EXCEPT !.questions = qs]]
        /\ p \in RPages /\ questions = pages[p].questions
    BY Zenon, <1>3
  <2> HIDE DEF qs, p, questions, job
  <2>5. \A f, g \in DOMAIN qs : f # g => qs[f].position # qs[g].position
    BY <1>1, <1>3, <2>1, <2>2, <2>4 DEF OneOrder
  <2> QED BY Zenon, <2>3, <2>4, <2>5, QuestionsFit
<1>4. \/ pages' = pages
      \/ \E kept : /\ kept \subseteq DOMAIN questions
                   /\ pages' = [pages EXCEPT ![p].questions =
                          [f \in kept |-> IF job[1] = "require" /\ f = job[3]
                                          THEN [questions[f] EXCEPT !.required = job[4]]
                                          ELSE questions[f]]]
  BY Zenon DEF EditQuestion, Commits, Fails
<1> QED BY Zenon, <1>2, <1>3, <1>4

LEMMA AddQuestionFits ==
  ASSUME PagesFit, NEW e, AddQuestion(e), editors[e].call.job[2] \in RPages PROVE PagesFit'
<1> DEFINE p == editors[e].call.job[2]
<1> DEFINE added == editors[e].call.job[3]
<1> DEFINE next == editors[e].call.next
<1> DEFINE questions == pages[p].questions
<1>1. PageShaped(pages[p]) /\ OneOrder(pages[p])
  BY DEF PagesFit
<1>2. CASE pages' = pages
  BY <1>2, SamePages
<1>3. CASE /\ ~PositionTaken(questions, next)
           /\ pages' = [pages EXCEPT ![p].questions =
                          [f \in DOMAIN questions \cup {added} |->
                              IF f = added THEN [position |-> next, required |-> FALSE]
                              ELSE questions[f]]]
  <2> DEFINE qs == [f \in DOMAIN questions \cup {added} |->
                       IF f = added THEN [position |-> next, required |-> FALSE] ELSE questions[f]]
  <2>1. /\ pages' = [pages EXCEPT ![p] = [pages[p] EXCEPT !.questions = qs]]
        /\ p \in RPages /\ questions = pages[p].questions
    BY Zenon, <1>3
  <2>2. /\ DOMAIN qs = DOMAIN questions \cup {added}
        /\ qs[added] = [position |-> next, required |-> FALSE]
        /\ \A f \in DOMAIN questions \ {added} : qs[f] = questions[f]
    OBVIOUS
  <2>3. \A f \in DOMAIN questions : questions[f].position # next
    BY Zenon, <1>3 DEF PositionTaken
  <2> HIDE DEF qs, questions, next, added, p
  <2>4. \A f \in DOMAIN qs : {"position", "required"} \subseteq DOMAIN qs[f]
    BY <1>1, <2>1, <2>2 DEF PageShaped
  <2>5. \A f, g \in DOMAIN qs : f # g => qs[f].position # qs[g].position
    BY <1>1, <2>1, <2>2, <2>3 DEF OneOrder
  <2> QED BY Zenon, <2>1, <2>4, <2>5, QuestionsFit
<1> QED BY Zenon, <1>2, <1>3 DEF AddQuestion, Commits, Fails
-----------------------------------------------------------------------------
(* An editor's server action is about a page. *)
CallFits(c) ==
    c = Idle \/ /\ {"phase", "job", "next"} \subseteq DOMAIN c
                /\ c.phase # "idle"
                /\ c.job[1] = "create" \/ c.job[2] \in RPages

EditorFits(x) ==
    /\ {"page", "screening", "saved", "props", "call"} \subseteq DOMAIN x
    /\ x.page \in RPages \cup {0} /\ CallFits(x.call)

EditorsFit == DOMAIN editors = Editors /\ \A e \in Editors : EditorFits(editors[e])

LEMMA OneEditor ==
  ASSUME EditorsFit, NEW e \in Editors, NEW x, EditorFits(x), editors' = [editors EXCEPT ![e] = x]
  PROVE  EditorsFit'
  BY DEF EditorsFit, EditorFits, CallFits, Idle

LEMMA RepliesFit ==
  ASSUME EditorsFit, NEW e \in Editors, NEW ok, NEW store, Replies(e, ok, store)
  PROVE  EditorsFit'
<1>1. EditorFits(editors[e])
  BY DEF EditorsFit
<1>2. CASE editors' = [editors EXCEPT ![e] = Closed]
  <2>1. EditorFits(Closed)
    BY DEF EditorFits, Closed, CallFits
  <2> QED BY Zenon, <1>2, <2>1, OneEditor
<1>3. ASSUME NEW props, NEW saved,
             editors' = [editors EXCEPT ![e] = [@ EXCEPT !.call = Idle, !.props = props, !.saved = saved]]
      PROVE  EditorsFit'
  <2> DEFINE x == [editors[e] EXCEPT !.call = Idle, !.props = props, !.saved = saved]
  <2>1. EditorFits(x)
    BY <1>1 DEF EditorFits, CallFits
  <2>2. editors' = [editors EXCEPT ![e] = x]
    BY <1>3
  <2> HIDE DEF x
  <2> QED BY Zenon, <2>1, <2>2, OneEditor
<1> QED BY Zenon, <1>2, <1>3 DEF Replies

LEMMA OpenFits == ASSUME EditorsFit, NEW e \in Editors, NEW p \in RPages, Open(e, p) PROVE EditorsFit'
<1> DEFINE x == [page |-> p, screening |-> pages[p].screening, saved |-> FALSE,
                 props |-> pages[p], call |-> Idle]
<1>1. EditorFits(x)
  BY DEF EditorFits, CallFits
<1> QED BY Zenon, <1>1, OneEditor DEF Open

LEMMA SetFormFits == ASSUME EditorsFit, NEW e \in Editors, SetForm(e) PROVE EditorsFit'
<1> DEFINE x == [editors[e] EXCEPT !.screening = ~@, !.saved = FALSE]
<1>1. EditorFits(editors[e])
  BY DEF EditorsFit
<1>2. EditorFits(x)
  BY <1>1 DEF EditorFits, CallFits
<1> QED BY <1>2, OneEditor DEF SetForm, EditorsFit

LEMMA CallChanges ==
  ASSUME EditorsFit, NEW e \in Editors, NEW c, CallFits(c),
         editors' = [editors EXCEPT ![e].call = c]
  PROVE  EditorsFit'
<1> DEFINE x == [editors[e] EXCEPT !.call = c]
<1>1. EditorFits(editors[e])
  BY DEF EditorsFit
<1>2. EditorFits(x)
  BY <1>1 DEF EditorFits
<1> QED BY <1>2, OneEditor DEF EditorsFit

LEMMA SendFits ==
  ASSUME EditorsFit, NEW e \in Editors, NEW job \in Offers(e), Send(e, job) PROVE EditorsFit'
<1>1. editors[e].page \in RPages
  BY DEF Send, EditorsFit, EditorFits
<1>2. job[1] = "create" \/ job[2] = editors[e].page
  BY DEF Offers
<1> DEFINE c == [phase |-> "sent", job |-> job, next |-> 0]
<1>3. CallFits(c)
  BY <1>1, <1>2 DEF CallFits
<1> QED BY Zenon, <1>3, CallChanges DEF Send

LEMMA LookForFits ==
  ASSUME EditorsFit, NEW e \in Editors, LookForClash(e) \/ LookForPosition(e) PROVE EditorsFit'
<1> DEFINE call == editors[e].call
<1>1. EditorFits(editors[e]) /\ call.phase = "sent" /\ call.job[1] \in {"link", "add", "attach"}
  BY DEF EditorsFit, LookForClash, LookForPosition, At_
<1>2. {"phase", "job", "next"} \subseteq DOMAIN call /\ call.job[2] \in RPages
  BY <1>1 DEF EditorFits, CallFits, Idle
<1>3. CASE \E ok, store : Replies(e, ok, store)
  BY <1>3, RepliesFit
<1>4. CASE editors' = [editors EXCEPT ![e].call.phase = "looked"]
  <2> DEFINE c == [call EXCEPT !.phase = "looked"]
  <2>1. CallFits(c) /\ editors' = [editors EXCEPT ![e].call = c]
    BY <1>1, <1>2, <1>4 DEF CallFits
  <2> HIDE DEF c
  <2> QED BY Zenon, <2>1, CallChanges
<1>5. ASSUME NEW f, NEW next,
             editors' = [editors EXCEPT ![e].call =
                            [phase |-> "looked", next |-> next, job |-> [call.job EXCEPT ![3] = f]]]
      PROVE  EditorsFit'
  <2> DEFINE c == [phase |-> "looked", next |-> next, job |-> [call.job EXCEPT ![3] = f]]
  <2>1. CallFits(c)
    BY <1>1, <1>2 DEF CallFits
  <2> HIDE DEF c
  <2> QED BY Zenon, <1>5, <2>1, CallChanges DEF c
<1> QED BY Zenon, <1>3, <1>4, <1>5 DEF LookForClash, LookForPosition, Fails

(* Every step of an editor, and of a visitor. *)
LEMMA EditsKeepEditors == ASSUME EditorsFit, NEW e \in Editors, Edits(e) PROVE EditorsFit'
<1>1. CASE \E ok, store : Replies(e, ok, store)
  BY <1>1, RepliesFit
<1>2. CASE (\E p \in RPages : Open(e, p)) \/ SetForm(e) \/ \E job \in Offers(e) : Send(e, job)
  BY <1>2, OpenFits, SetFormFits, SendFits
<1>3. CASE LookForClash(e) \/ LookForPosition(e)
  BY <1>3, LookForFits
<1>4. UpdatePage(e) \/ SetLink(e) \/ JobDies(e) => \E ok, store : Replies(e, ok, store)
  BY Zenon DEF UpdatePage, SetLink, JobDies, Commits, Fails
<1>5. NewPage(e) \/ DeletePage(e) => \E ok, store : Replies(e, ok, store)
  BY Zenon DEF NewPage, DeletePage, Commits, Fails
<1>6. EditQuestion(e) \/ AddQuestion(e) => \E ok, store : Replies(e, ok, store)
  BY Zenon DEF EditQuestion, AddQuestion, Commits, Fails
<1> QED BY <1>1, <1>2, <1>3, <1>4, <1>5, <1>6 DEF Edits

LEMMA EditsKeepPages ==
  ASSUME EditorsFit, PagesFit, NEW e \in Editors, Edits(e) PROVE PagesFit'
<1>1. CASE pages' = pages
  BY <1>1, SamePages
<1>2. CASE (\E p \in RPages : Open(e, p)) \/ SetForm(e) \/ \E job \in Offers(e) : Send(e, job)
  BY <1>1, <1>2 DEF Open, SetForm, Send
<1>3. CASE LookForClash(e) \/ LookForPosition(e) \/ JobDies(e)
  BY Zenon, <1>1, <1>3 DEF LookForClash, LookForPosition, JobDies, Fails
<1>4. CASE UpdatePage(e) \/ SetLink(e) \/ DeletePage(e)
  BY <1>4, UpdateFits, SetLinkFits, DeletePageFits
<1>5. editors[e].call = Idle \/ editors[e].call.job[1] = "create" \/ editors[e].call.job[2] \in RPages
  BY DEF EditorsFit, EditorFits, CallFits
<1>6. NewPage(e) \/ EditQuestion(e) \/ AddQuestion(e) => editors[e].call # Idle
  <2>1. NewPage(e) \/ EditQuestion(e) \/ AddQuestion(e) => editors[e].call.phase # "idle"
    BY Zenon DEF NewPage, EditQuestion, AddQuestion, At_
  <2> QED BY <2>1 DEF Idle
<1>7. CASE NewPage(e)
  BY <1>5, <1>6, <1>7, NewPageFits
<1>8. EditQuestion(e) \/ AddQuestion(e) => editors[e].call.job[1] # "create"
  BY Zenon DEF EditQuestion, AddQuestion, At_
<1>9. CASE EditQuestion(e) \/ AddQuestion(e)
  BY <1>5, <1>6, <1>8, <1>9, EditQuestionFits, AddQuestionFits
<1> QED BY <1>2, <1>3, <1>4, <1>7, <1>9 DEF Edits

LEMMA VisitsKeep ==
  ASSUME NEW v, Visits(v) PROVE pages' = pages /\ editors' = editors
  BY Zenon DEF Visits, Visit, LoadQuestions, AnswerScreening, Submit, FindPage, StoreSubmission, Reply, Becomes

LEMMA PagesInit == Init => EditorsFit /\ PagesFit
<1> SUFFICES ASSUME Init PROVE EditorsFit /\ PagesFit
  OBVIOUS
<1>1. EditorsFit
  BY Zenon DEF Init, RecruitmentInit, EditorsFit, EditorFits, CallFits, Closed
<1>2. PagesFit
  BY Zenon, PagesAssumption DEF Init, RecruitmentInit, PagesFit, PageShaped
<1> QED BY <1>1, <1>2

LEMMA PagesStep == EditorsFit /\ PagesFit /\ [Next]_vars => (EditorsFit /\ PagesFit)'
<1> SUFFICES ASSUME EditorsFit, PagesFit, [Next]_vars PROVE (EditorsFit /\ PagesFit)'
  OBVIOUS
<1>1. CASE pages' = pages /\ editors' = editors
  BY <1>1, SamePages DEF EditorsFit, EditorFits, CallFits, Idle
<1>2. ASSUME NEW e \in Editors, Edits(e) PROVE (EditorsFit /\ PagesFit)'
  BY <1>2, EditsKeepEditors, EditsKeepPages
<1>3. ASSUME NEW v \in Visitors, Visits(v) PROVE (EditorsFit /\ PagesFit)'
  BY <1>1, <1>3, VisitsKeep
<1>4. CASE UNCHANGED recruitVars
  BY <1>1, <1>4 DEF recruitVars
<1>5. Working \subseteq Editors
  BY DEF Working
<1> QED BY <1>2, <1>3, <1>4, <1>5 DEF Next, vars

\* A link leads to one page, and a page asks its questions in one order, whatever
\* editors do at the same time: what is read before the lock is checked again by
\* the unique indexes (recruitment/actions.ts:205-332).
THEOREM PagesCorrect == Spec => []PagesConsistent
<1>1. EditorsFit /\ PagesFit => PagesConsistent
  BY DEF PagesFit, PagesConsistent
<1> QED BY <1>1, PagesInit, PagesStep, PTL DEF Spec
-----------------------------------------------------------------------------
(* Whoever holds a page's lock finds it as it was when it was locked. *)
VisitorFits(x) ==
    /\ {"phase", "token", "shown", "name", "answers", "page"} \subseteq DOMAIN x
    /\ x.phase # "reading"

Holds(x) == x.page \in RPages /\ pages[x.page].exists /\ pages[x.page].active

LocksHold ==
    /\ DOMAIN visitors = Visitors /\ \E S : log \in Seq(S)
    /\ \A v \in Visitors :
          /\ VisitorFits(visitors[v])
          /\ visitors[v].phase = "locked" => Holds(visitors[v])

LEMMA EditsLeaveLocked ==
  ASSUME PagesFit, EditorsFit, NEW e \in Editors, Edits(e), NEW q \in RPages, Locked(q),
         pages[q].exists, pages[q].active
  PROVE  pages'[q].exists /\ pages'[q].active
<1> DEFINE p == editors[e].call.job[2]
<1>1. CASE (\E x \in RPages : Open(e, x)) \/ SetForm(e) \/ \E job \in Offers(e) : Send(e, job)
  BY <1>1 DEF Open, SetForm, Send
<1>2. CASE LookForClash(e) \/ LookForPosition(e) \/ JobDies(e)
  BY Zenon, <1>2 DEF LookForClash, LookForPosition, JobDies, Fails
<1>3. CASE UpdatePage(e) \/ SetLink(e) \/ DeletePage(e)
  <2>1. p # q
    BY Zenon, <1>3 DEF UpdatePage, SetLink, DeletePage
  <2> QED BY Zenon, <1>3, <2>1 DEF UpdatePage, SetLink, DeletePage, Commits, Fails, PagesFit
<1>4. CASE NewPage(e)
  BY Zenon, <1>4 DEF NewPage, Commits, Fails, Free, PagesFit
<1>5. CASE EditQuestion(e)
  <2>1. pages' = pages \/ \E qs : pages' = [pages EXCEPT ![p].questions = qs]
    BY Zenon, <1>5 DEF EditQuestion, Commits, Fails
  <2>2. ASSUME NEW qs, pages' = [pages EXCEPT ![p].questions = qs]
        PROVE  pages'[q].exists /\ pages'[q].active
    <3>1. PageShaped(pages[q]) /\ DOMAIN pages = RPages
      BY DEF PagesFit
    <3>2. pages'[q] = IF q = p THEN [pages[q] EXCEPT !.questions = qs] ELSE pages[q]
      BY <2>2, <3>1
    <3> HIDE DEF p
    <3> QED BY <3>1, <3>2 DEF PageShaped
  <2> QED BY Zenon, <2>1, <2>2
<1>6. CASE AddQuestion(e)
  <2>1. p # q /\ (pages' = pages \/ \E qs : pages' = [pages EXCEPT ![p].questions = qs])
    BY Zenon, <1>6 DEF AddQuestion, Commits, Fails
  <2> QED BY Zenon, <2>1 DEF PagesFit
<1> QED BY <1>1, <1>2, <1>3, <1>4, <1>5, <1>6 DEF Edits

LEMMA EditsLeaveVisitors ==
  ASSUME NEW e \in Editors, Edits(e) PROVE visitors' = visitors /\ log' = log
<1>1. CASE (\E x \in RPages : Open(e, x)) \/ SetForm(e) \/ \E job \in Offers(e) : Send(e, job)
  BY <1>1 DEF Open, SetForm, Send
<1>2. CASE LookForClash(e) \/ LookForPosition(e) \/ JobDies(e)
  BY Zenon, <1>2 DEF LookForClash, LookForPosition, JobDies, Fails
<1>3. CASE UpdatePage(e) \/ SetLink(e) \/ DeletePage(e)
  BY Zenon, <1>3 DEF UpdatePage, SetLink, DeletePage, Commits, Fails
<1>4. CASE NewPage(e) \/ EditQuestion(e) \/ AddQuestion(e)
  BY Zenon, <1>4 DEF NewPage, EditQuestion, AddQuestion, Commits, Fails
<1> QED BY <1>1, <1>2, <1>3, <1>4 DEF Edits

LEMMA OneVisitor ==
  ASSUME LocksHold, NEW v \in Visitors, NEW x, VisitorFits(x), x.phase = "locked" => Holds(x),
         visitors' = [visitors EXCEPT ![v] = x], pages' = pages, (\E S : log \in Seq(S))'
  PROVE  LocksHold'
<1>1. ASSUME NEW w \in Visitors
      PROVE  (VisitorFits(visitors[w]) /\ (visitors[w].phase = "locked" => Holds(visitors[w])))'
  <2>1. visitors'[w] = x \/ visitors'[w] = visitors[w]
    BY DEF LocksHold
  <2> QED BY <2>1 DEF LocksHold, VisitorFits, Holds
<1> QED BY <1>1 DEF LocksHold

LEMMA VisitorGoes ==
  ASSUME LocksHold, NEW v \in Visitors, NEW phase, phase \notin {"locked", "reading"}, log' = log,
         Becomes(v, [visitors[v] EXCEPT !.phase = phase])
  PROVE  LocksHold'
<1> DEFINE x == [visitors[v] EXCEPT !.phase = phase]
<1>1. VisitorFits(x) /\ x.phase = phase
  BY DEF LocksHold, VisitorFits
<1>2. (\E S : log \in Seq(S))'
  BY DEF LocksHold
<1>3. visitors' = [visitors EXCEPT ![v] = x] /\ pages' = pages
  BY DEF Becomes
<1> HIDE DEF x
<1> QED BY Zenon, <1>1, <1>2, <1>3, OneVisitor

LEMMA OpeningPhases ==
  /\ DOMAIN Opening = {"screening", "form"}
  /\ \A first \in DOMAIN Opening : Opening[first] \in {"opening", "opening with screening"}
<1>1. DOMAIN Opening = {"screening", "form"}
  BY DEF Opening
<1>2. Opening["screening"] = "opening with screening" /\ Opening["form"] = "opening"
  BY DEF Opening
<1> QED BY <1>1, <1>2

LEMMA VisitFits == ASSUME LocksHold, NEW v \in Visitors, Visit(v) PROVE LocksHold'
<1>1. PICK p \in RPages, phase \in {"opening", "opening with screening"} :
        visitors' = [visitors EXCEPT ![v] = [Away EXCEPT !.phase = phase, !.token = pages[p].token, !.page = p]]
  BY OpeningPhases DEF Visit, Becomes
<1> DEFINE x == [Away EXCEPT !.phase = phase, !.token = pages[p].token, !.page = p]
<1>2. VisitorFits(x) /\ x.phase = phase
  BY DEF VisitorFits, Away
<1>3. (\E S : log \in Seq(S))' /\ pages' = pages /\ visitors' = [visitors EXCEPT ![v] = x]
  BY Zenon, <1>1 DEF Visit, Becomes, LocksHold
<1> HIDE DEF x
<1> QED BY Zenon, <1>1, <1>2, <1>3, OneVisitor

LEMMA LoadFits == ASSUME LocksHold, NEW v \in Visitors, LoadQuestions(v) PROVE LocksHold'
<1>1. PICK first \in {"screening", "form"} :
        Becomes(v, [visitors[v] EXCEPT !.phase = first, !.page = 0,
                                       !.shown = pages[visitors[v].page].questions])
  BY OpeningPhases DEF LoadQuestions
<1> DEFINE x == [visitors[v] EXCEPT !.phase = first, !.page = 0,
                                    !.shown = pages[visitors[v].page].questions]
<1>2. VisitorFits(x) /\ x.phase = first
  BY DEF VisitorFits, LocksHold
<1>3. (\E S : log \in Seq(S))' /\ pages' = pages /\ visitors' = [visitors EXCEPT ![v] = x]
  BY Zenon, <1>1 DEF LoadQuestions, Becomes, LocksHold
<1> HIDE DEF x
<1> QED BY Zenon, <1>1, <1>2, <1>3, OneVisitor

LEMMA SubmitFits == ASSUME LocksHold, NEW v \in Visitors, Submit(v) PROVE LocksHold'
<1>1. PICK name, answers :
        visitors' = [visitors EXCEPT ![v] = [visitors[v] EXCEPT !.phase = "sending", !.name = name,
                                                               !.answers = answers]]
  BY Zenon DEF Submit, Becomes
<1> DEFINE x == [visitors[v] EXCEPT !.phase = "sending", !.name = name, !.answers = answers]
<1>2. VisitorFits(x) /\ x.phase = "sending"
  BY DEF VisitorFits, LocksHold
<1>3. (\E S : log \in Seq(S))' /\ pages' = pages /\ visitors' = [visitors EXCEPT ![v] = x]
  BY Zenon, <1>1 DEF Submit, Becomes, LocksHold
<1> HIDE DEF x
<1> QED BY Zenon, <1>2, <1>3, OneVisitor

LEMMA FindPageFits == ASSUME LocksHold, NEW v \in Visitors, FindPage(v) PROVE LocksHold'
<1>1. CASE Becomes(v, [visitors[v] EXCEPT !.phase = "form"])
  BY <1>1, VisitorGoes DEF FindPage
<1>2. ASSUME NEW p \in RPages, pages[p].exists, pages[p].active, Becomes(v, Locks(v, p))
      PROVE  LocksHold'
  <2> DEFINE x == Locks(v, p)
  <2>1. VisitorFits(x) /\ x.page = p
    BY DEF Locks, VisitorFits, LocksHold
  <2>2. (\E S : log \in Seq(S))' /\ pages' = pages /\ visitors' = [visitors EXCEPT ![v] = x]
    BY <1>2 DEF FindPage, Becomes, LocksHold
  <2>3. Holds(x)
    BY <1>2, <2>1 DEF Holds
  <2> HIDE DEF x
  <2> QED BY Zenon, <2>1, <2>2, <2>3, OneVisitor
<1> QED BY <1>1, <1>2 DEF FindPage, AfterRefusal

\* A submission is logged with its page, while the page is held.
LEMMA Stored ==
  ASSUME LocksHold, NEW v \in Visitors, StoreSubmission(v)
  PROVE  /\ Holds(visitors[v])
         /\ log' = log \/ \E y : y.page = visitors[v].page /\ log' = Append(log, y)
         /\ \E phase \in {"form", "stored"} : Becomes(v, [visitors[v] EXCEPT !.phase = phase])
<1>1. Holds(visitors[v])
  BY DEF StoreSubmission, LocksHold, VisitorFits
<1>2. log' = log \/ \E name, said :
        log' = Append(log, [page |-> visitors[v].page, by |-> v, name |-> name, said |-> said])
  BY Zenon DEF StoreSubmission
<1>3. \E phase \in {"form", "stored"} : Becomes(v, [visitors[v] EXCEPT !.phase = phase])
  BY DEF StoreSubmission, AfterRefusal
<1>4. ASSUME NEW name, NEW said
      PROVE  [page |-> visitors[v].page, by |-> v, name |-> name, said |-> said].page = visitors[v].page
  OBVIOUS
<1> QED BY Zenon, <1>1, <1>2, <1>3, <1>4

LEMMA StoreFits == ASSUME LocksHold, NEW v \in Visitors, StoreSubmission(v) PROVE LocksHold'
<1>1. PICK phase \in {"form", "stored"} : Becomes(v, [visitors[v] EXCEPT !.phase = phase])
  BY Stored
<1> DEFINE x == [visitors[v] EXCEPT !.phase = phase]
<1>2. VisitorFits(x) /\ x.phase = phase
  BY DEF LocksHold, VisitorFits
<1>3. PICK S : log \in Seq(S)
  BY DEF LocksHold
<1>4. ASSUME NEW y PROVE Append(log, y) \in Seq(S \cup {y})
  BY <1>3
<1>5. (\E T : log \in Seq(T))'
  BY Zenon, <1>3, <1>4, Stored
<1>6. visitors' = [visitors EXCEPT ![v] = x] /\ pages' = pages
  BY <1>1 DEF Becomes
<1> HIDE DEF x
<1> QED BY Zenon, <1>1, <1>2, <1>5, <1>6, OneVisitor

LEMMA VisitsHold == ASSUME LocksHold, NEW v \in Visitors, Visits(v) PROVE LocksHold'
<1>1. CASE AnswerScreening(v) \/ Reply(v)
  BY <1>1, VisitorGoes DEF AnswerScreening, Reply
<1> QED BY <1>1, VisitFits, LoadFits, SubmitFits, FindPageFits, StoreFits DEF Visits

LEMMA LocksStep ==
  EditorsFit /\ PagesFit /\ LocksHold /\ [Next]_vars => LocksHold'
<1> SUFFICES ASSUME EditorsFit, PagesFit, LocksHold, [Next]_vars PROVE LocksHold'
  OBVIOUS
<1>1. CASE UNCHANGED recruitVars
  BY <1>1 DEF recruitVars, LocksHold, VisitorFits, Holds
<1>2. ASSUME NEW e \in Editors, Edits(e) PROVE LocksHold'
  <2>1. visitors' = visitors /\ log' = log
    BY <1>2, EditsLeaveVisitors
  <2>2. ASSUME NEW v \in Visitors, visitors[v].phase = "locked" PROVE Holds(visitors[v])'
    <3> DEFINE q == visitors[v].page
    <3>1. q \in RPages /\ pages[q].exists /\ pages[q].active /\ Locked(q)
      BY <2>2 DEF LocksHold, Holds, Locked
    <3>2. pages'[q].exists /\ pages'[q].active
      BY <1>2, <3>1, EditsLeaveLocked
    <3> QED BY <2>1, <3>1, <3>2 DEF Holds
  <2>3. ASSUME NEW v \in Visitors PROVE VisitorFits(visitors[v])'
    BY <2>1 DEF LocksHold, VisitorFits
  <2> QED BY <2>1, <2>2, <2>3 DEF LocksHold
<1>3. ASSUME NEW v \in Visitors, Visits(v) PROVE LocksHold'
  BY <1>3, VisitsHold
<1>4. Working \subseteq Editors
  BY DEF Working
<1> QED BY <1>1, <1>2, <1>3, <1>4 DEF Next, vars

Collects == \A i \in DOMAIN log' \ DOMAIN log : pages[log'[i].page].exists /\ pages[log'[i].page].active

LEMMA StoresHeld == ASSUME LocksHold, NEW v \in Visitors, StoreSubmission(v) PROVE Collects
<1>1. CASE log' = log
  BY <1>1 DEF Collects
<1>2. ASSUME NEW y, y.page = visitors[v].page, log' = Append(log, y) PROVE Collects
  <2>1. PICK S : log \in Seq(S)
    BY DEF LocksHold
  <2>2. DOMAIN log' = DOMAIN log \cup {Len(log) + 1} /\ log'[Len(log) + 1] = y
    BY <1>2, <2>1
  <2> QED BY Zenon, <1>2, <2>2, Stored DEF Collects, Holds
<1> QED BY Zenon, <1>1, <1>2, Stored

\* Nothing is collected by a page that has been deactivated or deleted: the
\* submission holds the page's lock until it commits (recruitment.ts:143-147).
THEOREM CollectsCorrect == Spec => CollectsOnlyWhileActive
<1>1. Init => LocksHold
  <2>1. Init => \E S : log \in Seq(S)
    <3>1. <<>> \in Seq({0})
      OBVIOUS
    <3> QED BY Zenon, <3>1 DEF Init, RecruitmentInit
  <2>2. VisitorFits(Away) /\ Away.phase = "away"
    BY DEF VisitorFits, Away
  <2>3. Init => visitors = [v \in Visitors |-> Away]
    BY Zenon DEF Init, RecruitmentInit
  <2> QED BY <2>1, <2>2, <2>3 DEF LocksHold
<1>2. LocksHold /\ [Next]_vars => [Collects]_recruitVars
  <2> SUFFICES ASSUME LocksHold, [Next]_vars PROVE Collects \/ UNCHANGED recruitVars
    OBVIOUS
  <2>1. ASSUME log' = log PROVE Collects
    BY <2>1 DEF Collects
  <2>2. CASE UNCHANGED recruitVars
    BY <2>2
  <2>3. ASSUME NEW e \in Editors, Edits(e) PROVE Collects
    <3>1. log' = log
      BY <2>3, EditsLeaveVisitors
    <3> QED BY <2>1, <3>1
  <2>4. ASSUME NEW v \in Visitors, Visits(v), ~StoreSubmission(v) PROVE Collects
    <3>1. log' = log
      BY Zenon, <2>4 DEF Visits, Visit, LoadQuestions, AnswerScreening, Submit, FindPage, Reply
    <3> QED BY <2>1, <3>1
  <2>5. Working \subseteq Editors
    BY DEF Working
  <2> QED BY <2>2, <2>3, <2>4, <2>5, StoresHeld DEF Next, vars
<1> QED BY <1>1, <1>2, PagesInit, PagesStep, LocksStep, PTL
        DEF Spec, CollectsOnlyWhileActive, Collects
-----------------------------------------------------------------------------
(* The trail of the feature requests.  Its last event about a field says what *)
(* the field is now; now is what the row has.                                 *)
About(t, f, what) == {i \in DOMAIN t : t[i].of = f /\ t[i].what = what}

Leads(t, f, what, first, now) ==
    IF About(t, f, what) = {} THEN now = first
    ELSE \E i \in About(t, f, what) : t[i].to = now /\ \A j \in About(t, f, what) : j <= i

Gapless(t) ==
    \A i, j \in DOMAIN t :
        /\ i < j /\ t[i].of = t[j].of /\ t[i].what = t[j].what
        /\ \A k \in i + 1 .. j - 1 : t[k].of # t[i].of \/ t[k].what # t[i].what
        => t[j].from = t[i].to

\* Every other field, told in t, is told the same in u.
OthersTold(t, u, f, what) ==
    \A g, w, x, now : (g # f \/ w # what) /\ Leads(t, g, w, x, now) => Leads(u, g, w, x, now)

LEMMA AppendLeads ==
  ASSUME NEW S, NEW t \in Seq(S), NEW f, NEW what, NEW first, NEW from, NEW to,
         Leads(t, f, what, first, from), Gapless(t),
         NEW u, u = Append(t, [of |-> f, what |-> what, from |-> from, to |-> to])
  PROVE  /\ Leads(u, f, what, first, to) /\ Gapless(u)
         /\ OthersTold(t, u, f, what)
<1> DEFINE n == Len(t) + 1
<1> DEFINE e == [of |-> f, what |-> what, from |-> from, to |-> to]
<1>1. /\ DOMAIN u = 1 .. n /\ DOMAIN t = 1 .. n - 1 /\ n \in Nat /\ u[n] = e
      /\ \A i \in DOMAIN t : u[i] = t[i]
  OBVIOUS
<1>2. e.of = f /\ e.what = what /\ e.from = from /\ e.to = to
  OBVIOUS
<1> HIDE DEF n, e
<1>3. About(u, f, what) = About(t, f, what) \cup {n}
  BY <1>1, <1>2 DEF About
<1>4. n \in About(u, f, what) /\ \A j \in About(u, f, what) : j <= n
  BY <1>1, <1>2 DEF About
<1>5. Leads(u, f, what, first, to)
  BY <1>1, <1>2, <1>4 DEF Leads
<1>6. ASSUME NEW i \in DOMAIN u, NEW j \in DOMAIN u, i < j, u[i].of = u[j].of, u[i].what = u[j].what,
             \A k \in i + 1 .. j - 1 : u[k].of # u[i].of \/ u[k].what # u[i].what
      PROVE  u[j].from = u[i].to
  <2>1. CASE j # n
    <3>1. i \in DOMAIN t /\ j \in DOMAIN t /\ \A k \in i + 1 .. j - 1 : k \in DOMAIN t
      BY <1>1, <1>6, <2>1
    <3>2. u[i] = t[i] /\ u[j] = t[j] /\ \A k \in i + 1 .. j - 1 : u[k] = t[k]
      BY <1>1, <3>1
    <3>3. \A k \in i + 1 .. j - 1 : t[k].of # t[i].of \/ t[k].what # t[i].what
      BY Zenon, <1>6, <3>2
    <3>4. t[j].from = t[i].to
      BY <1>6, <3>1, <3>2, <3>3 DEF Gapless
    <3> QED BY <3>2, <3>4
  <2>2. CASE j = n
    <3>1. i \in DOMAIN t /\ u[i] = t[i] /\ t[i].of = f /\ t[i].what = what
      BY <1>1, <1>2, <1>6, <2>2
    <3>2. i \in About(t, f, what)
      BY <3>1 DEF About
    <3>3. PICK l \in About(t, f, what) : t[l].to = from /\ \A m \in About(t, f, what) : m <= l
      BY <3>2 DEF Leads
    <3>4. l \in DOMAIN t /\ t[l].of = f /\ t[l].what = what /\ i <= l
      BY <3>2, <3>3 DEF About
    <3>5. ~(l \in i + 1 .. j - 1)
      BY <1>1, <1>6, <3>1, <3>4
    <3>6. l = i
      BY <1>1, <2>2, <3>1, <3>4, <3>5
    <3> QED BY <1>1, <1>2, <2>2, <3>1, <3>3, <3>6
  <2> QED BY <2>1, <2>2
<1>7. ASSUME NEW g, NEW w, NEW x, NEW now, g # f \/ w # what, Leads(t, g, w, x, now)
      PROVE  Leads(u, g, w, x, now)
  <2>1. About(u, g, w) = About(t, g, w)
    BY <1>1, <1>2, <1>7 DEF About
  <2>2. \A i \in About(t, g, w) : u[i] = t[i]
    BY <1>1 DEF About
  <2> QED BY Zenon, <1>7, <2>1, <2>2 DEF Leads
<1> QED BY Zenon, <1>5, <1>6, <1>7 DEF Gapless, OthersTold

Sequence(t) == \E S : t \in Seq(S)

(* No event is one that changes nothing. *)
LEMMA EventLeads ==
  ASSUME NEW S, NEW t \in Seq(S), NEW f, NEW what, NEW first, NEW from, NEW to,
         Leads(t, f, what, first, from), Gapless(t),
         NEW u, u = t \o Event(f, what, from, to)
  PROVE  /\ Leads(u, f, what, first, to) /\ Gapless(u) /\ Sequence(u)
         /\ OthersTold(t, u, f, what)
<1>1. CASE from = to
  <2>1. u = t
    BY <1>1 DEF Event
  <2>2. Sequence(t) /\ OthersTold(t, t, f, what)
    BY DEF Sequence, OthersTold
  <2> QED BY Zenon, <1>1, <2>1, <2>2
<1>2. CASE from # to
  <2> DEFINE e == [of |-> f, what |-> what, from |-> from, to |-> to]
  <2>1. u = t \o <<e>>
    BY <1>2 DEF Event
  <2>2. u = Append(t, e) /\ u \in Seq(S \cup {e})
    BY <2>1
  <2>3. Sequence(u)
    BY <2>2 DEF Sequence
  <2> QED BY Zenon, <2>2, <2>3, AppendLeads
<1> QED BY <1>1, <1>2
-----------------------------------------------------------------------------
(* What a request has become after a step of another one. *)
Alike(x, y) ==
    /\ y.phase = x.phase /\ y.by = x.by /\ y.action = x.action
    /\ y.job = x.job /\ y.work = x.work

LEMMA OthersAlike ==
  ASSUME RequestsFit, NEW r \in Requests, Request(r), NEW s \in Requests, s # r
  PROVE  Alike(req[s], req'[s])
<1>1. CASE \E y : req' = [req EXCEPT ![r] = y]
  BY <1>1 DEF Alike, RequestsFit
<1>2. CASE Commit(r)
  <2> DEFINE rs == [req EXCEPT ![r] = NoRequest]
  <2>1. req' = Witnessed(members', rs) /\ rs[s] = req[s]
    BY <1>2 DEF Commit
  <2>2. CASE req[s].phase = "idle"
    <3>1. req'[s] = req[s]
      BY <2>1, <2>2 DEF Witnessed
    <3> QED BY <3>1 DEF Alike
  <2>3. CASE req[s].phase # "idle"
    <3>1. Shaped(req[s])
      BY <2>3 DEF RequestsFit, Fits, NoRequest
    <3>2. \E b : req'[s] = [req[s] EXCEPT !.lawful = b]
      BY Zenon, <2>1, <2>3 DEF Witnessed
    <3> QED BY <3>1, <3>2 DEF Alike, Shaped
  <2> QED BY <2>2, <2>3
<1>3. CASE Administer(r) \/ OrderDataset(r) \/ OrderRun(r) \/ OrderIdea(r)
  BY <1>1, <1>3 DEF Administer, OrderDataset, OrderRun, OrderIdea, Arrive
<1>4. CASE Authorize(r) \/ Write(r) \/ RollBack(r)
  BY <1>1, <1>4 DEF Authorize, Write, RollBack, Goes, Ends
<1>5. CASE Handles(r)
  BY Zenon, <1>1, <1>5 DEF Handles, CreateFeatureRequest, CheckOwner, LockIdea, WriteIdea, IdeaDies,
     Throws, Stores, Goes, Ends
<1>6. CASE Transacts(r)
  BY Zenon, <1>1, <1>6 DEF Transacts, Pick, Look, Begin, Insert, Derive, ReadRecipe, Prepare,
     Refuse, Step, Ends
<1>7. CASE Calls(r)
  BY <1>1, <1>7 DEF Calls, Answer, TimesOut, Returns, Again, Finalize, FinalizeFails, Dies,
     Goes, Ends
<1> QED BY <1>2, <1>3, <1>4, <1>5, <1>6, <1>7 DEF Request

LEMMA BusyShaped ==
  ASSUME RequestsFit, NEW r \in Requests, req[r].phase # "idle" PROVE Shaped(req[r])
  BY DEF RequestsFit, Fits, NoRequest

(* What it has become after one of its own. *)
Onto(x, y, p) == y.phase = p /\ y.by = x.by /\ y.action = x.action /\ y.job = x.job

LEMMA GoesOnto ==
  ASSUME RequestsFit, NEW r \in Requests, req[r].phase # "idle", NEW p, NEW w,
         Goes(r, p) \/ req' = [req EXCEPT ![r].phase = p, ![r].work = w]
  PROVE  Onto(req[r], req'[r], p) /\ (Goes(r, p) => req'[r].work = req[r].work)
         /\ (~Goes(r, p) => req'[r].work = w)
<1>1. Shaped(req[r]) /\ DOMAIN req = Requests
  BY DEF RequestsFit, Fits, NoRequest
<1>2. req'[r] = [req[r] EXCEPT !.phase = p] \/ req'[r] = [req[r] EXCEPT !.phase = p, !.work = w]
  BY <1>1 DEF Goes
<1>3. CASE Goes(r, p)
  <2>1. req'[r] = [req[r] EXCEPT !.phase = p]
    BY <1>1, <1>3 DEF Goes
  <2> QED BY <1>1, <1>3, <2>1 DEF Shaped, Onto
<1>4. CASE ~Goes(r, p)
  <2>1. req'[r] = [req[r] EXCEPT !.phase = p, !.work = w]
    BY Zenon, <1>1, <1>4
  <2> QED BY <1>1, <1>4, <2>1 DEF Shaped, Onto
<1> QED BY <1>3, <1>4

(* An update is of a feature request that is there; whoever has locked its row *)
(* knows what it holds.                                                        *)
IdeaFits(x) ==
    x.phase # "idle" =>
        /\ x.job[1] = "update" => /\ x.job = <<"update", x.job[2], x.job[3], x.job[4]>>
                                  /\ x.job[2] \in Ideas /\ ideas[x.job[2]].there
        /\ x.phase \in {"checked", "holding"} => x.job[1] = "update"
        /\ x.phase = "holding" => x.work = ideas[x.job[2]]

OneHolds ==
    \A r, s \in Requests :
        r # s /\ At(r, "holding") /\ At(s, "holding") => req[r].job[2] # req[s].job[2]

IdeaShaped(x) == DOMAIN x = {"there", "status", "owner"} /\ (~x.there => x.status = "new" /\ x.owner = Nobody)

IdeasFit ==
    /\ DOMAIN ideas = Ideas /\ \A f \in Ideas : IdeaShaped(ideas[f])
    /\ \A u \in Members, f \in Ideas : shown[u][f].there => ideas[f].there
    /\ DOMAIN shown = Members
    /\ \A r \in Requests : IdeaFits(req[r])
    /\ OneHolds

TrailFits ==
    /\ Sequence(trail)
    /\ Gapless(trail)
    /\ \A f \in Ideas : /\ Leads(trail, f, "status", "new", ideas[f].status)
                        /\ Leads(trail, f, "owner", Nobody, ideas[f].owner)
                        /\ Leads(trail, f, "created", "", "")

LEMMA LeadsReplays ==
  ASSUME NEW f, NEW what, NEW first, NEW now, Leads(trail, f, what, first, now), Sequence(trail)
  PROVE  now = Replayed(f, what, first)
<1> DEFINE told == {i \in DOMAIN trail : trail[i].of = f /\ trail[i].what = what}
<1>1. told = About(trail, f, what) /\ told \subseteq Nat
  BY DEF About, Sequence
<1>2. CASE told = {}
  BY <1>1, <1>2 DEF Leads, Replayed
<1>3. CASE told # {}
  <2>1. PICK i \in told : trail[i].to = now /\ \A j \in told : j <= i
    BY <1>1, <1>3 DEF Leads
  <2> DEFINE c == CHOOSE x \in told : \A j \in told : j <= x
  <2>2. c \in told /\ \A j \in told : j <= c
    BY <2>1
  <2>3. c = i
    BY <1>1, <2>1, <2>2
  <2> HIDE DEF c
  <2>4. Replayed(f, what, first) = trail[c].to
    BY <1>3 DEF Replayed, c
  <2> QED BY <2>1, <2>3, <2>4
<1> QED BY <1>2, <1>3

LEMMA TrailTells == IdeasFit /\ TrailFits => TrailReplays
<1> SUFFICES ASSUME IdeasFit, TrailFits PROVE TrailReplays
  OBVIOUS
<1>1. ASSUME NEW f \in Ideas
      PROVE  /\ ideas[f].status = Replayed(f, "status", "new")
             /\ ideas[f].owner = Replayed(f, "owner", Nobody)
  BY Zenon, LeadsReplays DEF TrailFits
<1> QED BY Zenon, <1>1 DEF TrailReplays, TrailFits, Gapless

LEMMA IdeasInit == Init => IdeasFit /\ TrailFits
<1> SUFFICES ASSUME Init PROVE IdeasFit /\ TrailFits
  OBVIOUS
<1>1. IdeaShaped(NewIdea) /\ IdeaShaped(NoIdea) /\ ~NoIdea.there
  BY DEF IdeaShaped, NewIdea, NoIdea
<1>2. \A f \in Ideas : ideas[f].status = "new" /\ ideas[f].owner = Nobody
  BY DEF Init, FeatureRequestsInit, NewIdea, NoIdea
<1>3. IdeasFit
  <2>1. \A r \in Requests : req[r] = NoRequest
    BY DEF Init, MembershipInit
  <2>2. /\ ideas = [f \in Ideas |-> IF f \in Suggested THEN NewIdea ELSE NoIdea]
        /\ shown = [u \in Members |-> [f \in Ideas |-> NoIdea]]
    BY DEF Init, FeatureRequestsInit
  <2> QED BY <1>1, <2>1, <2>2 DEF IdeasFit, IdeaFits, OneHolds, At, NoRequest
<1>4. trail = <<>> /\ trail \in Seq({})
  BY DEF Init, FeatureRequestsInit
<1> QED BY <1>2, <1>3, <1>4 DEF TrailFits, Gapless, Leads, About, Sequence

(* The row's data stay, and the request takes no lock. *)
Unlocked(x, y) ==
    \/ y.phase = "idle"
    \/ y.job[1] # "update" /\ y.phase \notin {"checked", "holding"}
    \/ x.phase # "idle" /\ y.job = x.job /\ y.phase \notin {"checked", "holding"}

LEMMA IdeasStay ==
  ASSUME RequestsFit, IdeasFit, UNCHANGED ideaVars, NEW r \in Requests, Request(r),
         Unlocked(req[r], req'[r])
  PROVE  IdeasFit'
<1>1. \A s \in Requests : s # r => Alike(req[s], req'[s])
  BY OthersAlike
<1>2. UNCHANGED <<ideas, shown>>
  BY DEF ideaVars
<1>3. ASSUME NEW s \in Requests PROVE IdeaFits(req[s])'
  <2>1. IdeaFits(req[s])
    BY DEF IdeasFit
  <2>2. CASE s # r
    BY <1>1, <1>2, <2>1, <2>2 DEF IdeaFits, Alike
  <2>3. CASE s = r
    BY <1>2, <2>1, <2>3 DEF IdeaFits, Unlocked
  <2> QED BY <2>2, <2>3
<1>4. OneHolds'
  BY <1>1 DEF IdeasFit, OneHolds, At, Alike, Unlocked
<1> QED BY <1>2, <1>3, <1>4 DEF IdeasFit, IdeaShaped

LEMMA ArriveUnlocked ==
  ASSUME RequestsFit, NEW r \in Requests, NEW u, NEW action, NEW job, Arrive(r, u, action, job)
  PROVE  req'[r].job = job /\ req'[r].phase = "arrived"
  BY DEF Arrive, RequestsFit

LEMMA OrdersUnlocked ==
  ASSUME RequestsFit, NEW r \in Requests, Administer(r) \/ OrderDataset(r) \/ OrderRun(r)
  PROVE  Unlocked(req[r], req'[r])
<1>1. ASSUME NEW u, NEW action, NEW job, job[1] # "update", Arrive(r, u, action, job)
      PROVE  Unlocked(req[r], req'[r])
  BY <1>1, ArriveUnlocked DEF Unlocked
<1>2. CASE Administer(r)
  <2>1. PICK u, v, x, action : \E kind \in {"role", "state", "invite"} : Arrive(r, u, action, <<kind, v, x>>)
    BY Zenon, <1>2 DEF Administer
  <2> QED BY <1>1, <2>1
<1>3. CASE OrderDataset(r)
  <2>1. PICK u, s, k : \/ Arrive(r, u, "datasets.create", <<"build", s>>)
                       \/ Arrive(r, u, "datasets.create", <<"derive", s, k>>)
    BY Zenon, <1>3 DEF OrderDataset
  <2> QED BY <1>1, <2>1
<1>4. CASE OrderRun(r)
  <2>1. PICK u, name, k, recipe : \E kind \in {"run", "rerun"} :
          Arrive(r, u, "analytics.run", <<kind, name, k, recipe>>)
    BY Zenon, <1>4 DEF OrderRun
  <2> QED BY <1>1, <2>1
<1> QED BY <1>2, <1>3, <1>4

LEMMA EndsIdle ==
  ASSUME RequestsFit, NEW r \in Requests, Ends(r) PROVE req'[r] = NoRequest /\ req'[r].phase = "idle"
  BY DEF RequestsFit, Ends, NoRequest

LEMMA GoesUnlocked ==
  ASSUME RequestsFit, NEW r \in Requests, req[r].phase # "idle",
         \/ Ends(r)
         \/ \E p, w : p \notin {"checked", "holding"} /\ (Goes(r, p) \/ Step(r, p, w))
  PROVE  Unlocked(req[r], req'[r])
<1>1. CASE Ends(r)
  BY <1>1, EndsIdle DEF Unlocked
<1>2. ASSUME NEW p, NEW w, p \notin {"checked", "holding"}, Goes(r, p) \/ Step(r, p, w)
      PROVE  Unlocked(req[r], req'[r])
  <2>1. Onto(req[r], req'[r], p)
    BY <1>2, GoesOnto DEF Step
  <2> QED BY <1>2, <2>1 DEF Onto, Unlocked
<1> QED BY <1>1, <1>2

LEMMA TransactsUnlocked ==
  ASSUME RequestsFit, NEW r \in Requests,
         Authorize(r) \/ Write(r) \/ Commit(r) \/ RollBack(r) \/ Transacts(r) \/ Calls(r)
  PROVE  Unlocked(req[r], req'[r])
<1>1. CASE Authorize(r) \/ Write(r) \/ RollBack(r)
  <2>1. Ends(r) \/ Goes(r, "authorized") \/ Goes(r, "written")
    BY <1>1 DEF Authorize, Write, RollBack
  <2>2. req[r].phase # "idle"
    BY <1>1 DEF Authorize, Write, RollBack, At
  <2> QED BY Zenon, <2>1, <2>2, GoesUnlocked
<1>2. CASE Commit(r)
  <2>1. req'[r] = NoRequest
    BY <1>2 DEF Commit, Witnessed, RequestsFit, NoRequest
  <2> QED BY <2>1 DEF Unlocked, NoRequest
<1>3. CASE Pick(r) \/ Look(r) \/ Begin(r) \/ Insert(r) \/ Derive(r) \/ Prepare(r)
  <2>1. Ends(r) \/ \E p \in {"picked", "looked", "numbered", "calling"} : \E w : Step(r, p, w)
    BY Zenon, <1>3 DEF Pick, Look, Begin, Insert, Derive, Prepare, Refuse
  <2>2. req[r].phase # "idle"
    BY Zenon, <1>3 DEF Pick, Look, Begin, Insert, Derive, Prepare, Works, At
  <2> QED BY <2>1, <2>2, GoesUnlocked
<1>4. CASE Again(r) \/ Finalize(r) \/ FinalizeFails(r) \/ Dies(r)
  <2>1. Ends(r) \/ Goes(r, "finalizing")
    BY <1>4 DEF Again, Finalize, FinalizeFails, Dies
  <2>2. req[r].phase # "idle"
    BY <1>4 DEF Again, Finalize, FinalizeFails, Dies, Works, At
  <2> QED BY <2>1, <2>2, GoesUnlocked
<1>5. CASE ReadRecipe(r)
  <2>1. Shaped(req[r])
    <3>1. req[r].phase = "authorized"
      BY Zenon, <1>5 DEF ReadRecipe, Works, At
    <3> QED BY <3>1, BusyShaped
  <2>2. CASE Ends(r)
    BY <2>2, EndsIdle DEF Unlocked
  <2>3. CASE ~Ends(r)
    <3>1. req'[r] = [req[r] EXCEPT !.phase = "arrived", !.job[1] = "run",
                                   !.lawful = Allowed(req[r].by, req[r].action)]
      BY Zenon, <1>5, <2>3 DEF ReadRecipe, Refuse, RequestsFit
    <3> QED BY <2>1, <3>1 DEF Unlocked, Shaped
  <2> QED BY <2>2, <2>3
<1>6. CASE \E verdict : Returns(r, verdict)
  <2>1. Shaped(req[r]) /\ req[r].phase = "calling"
    BY <1>6, BusyShaped DEF Returns, Works, At
  <2>2. req'[r] = [req[r] EXCEPT !.phase = "answered", !.lawful = Allowed(req[r].by, req[r].action)]
    BY <1>6 DEF Returns, RequestsFit
  <2> QED BY <2>1, <2>2 DEF Unlocked, Shaped
<1> QED BY <1>1, <1>2, <1>3, <1>4, <1>5, <1>6 DEF Transacts, Calls, Answer, TimesOut

(* One request moves, and the rows change with it. *)
LEMMA IdeasBecome ==
  ASSUME RequestsFit, IdeasFit, NEW r \in Requests, Request(r), IdeaFits(req[r])',
         DOMAIN ideas' = Ideas, \A f \in Ideas : IdeaShaped(ideas'[f]),
         \A f \in Ideas : ideas[f].there => ideas'[f].there,
         DOMAIN shown' = Members, \A u \in Members, f \in Ideas : shown'[u][f].there => ideas'[f].there,
         \A s \in Requests : s # r /\ At(s, "holding") => ideas'[req[s].job[2]] = ideas[req[s].job[2]],
         req'[r].phase = "holding" =>
            \A s \in Requests : s # r /\ At(s, "holding") => req[s].job[2] # req'[r].job[2]
  PROVE  IdeasFit'
<1>1. \A s \in Requests : s # r => Alike(req[s], req'[s])
  BY OthersAlike
<1>2. ASSUME NEW s \in Requests PROVE IdeaFits(req[s])'
  <2>1. IdeaFits(req[s])
    BY DEF IdeasFit
  <2>2. CASE s # r
    BY <1>1, <2>1, <2>2 DEF IdeaFits, Alike, At
  <2> QED BY <2>2
<1>3. OneHolds'
  BY <1>1 DEF IdeasFit, OneHolds, At, Alike
<1> QED BY <1>2, <1>3 DEF IdeasFit, IdeaShaped

LEMMA OrderIdeaKeeps ==
  ASSUME RequestsFit, IdeasFit, NEW r \in Requests, OrderIdea(r), UNCHANGED ideaVars, Request(r)
  PROVE  IdeasFit'
<1>1. PICK u \in Members :
        \/ Arrive(r, u, "feature_requests.create", <<"suggest">>)
        \/ \E f \in Ideas : \E status, owner :
              /\ shown[u][f].there
              /\ Arrive(r, u, "feature_requests.manage", <<"update", f, status, owner>>)
  BY Zenon DEF OrderIdea
<1>2. CASE Arrive(r, u, "feature_requests.create", <<"suggest">>)
  BY <1>2, ArriveUnlocked, IdeasStay DEF Unlocked
<1>3. ASSUME NEW f \in Ideas, NEW status, NEW owner, shown[u][f].there,
             Arrive(r, u, "feature_requests.manage", <<"update", f, status, owner>>)
      PROVE  IdeasFit'
  <2>1. req'[r].job = <<"update", f, status, owner>> /\ req'[r].phase = "arrived"
    BY <1>3, ArriveUnlocked
  <2>2. ideas[f].there /\ UNCHANGED <<ideas, shown>>
    BY <1>3 DEF IdeasFit, ideaVars
  <2>3. IdeaFits(req[r])'
    BY <2>1, <2>2 DEF IdeaFits
  <2> QED BY <2>1, <2>2, <2>3, IdeasBecome DEF IdeasFit
<1> QED BY Zenon, <1>1, <1>2, <1>3

(* What a feature request's own transaction does. *)
LEMMA LockKeeps ==
  ASSUME RequestsFit, IdeasFit, NEW r \in Requests, Request(r),
         CheckOwner(r) \/ LockIdea(r) \/ IdeaDies(r)
  PROVE  IdeasFit' /\ UNCHANGED ideaVars
<1>1. UNCHANGED ideaVars
  BY DEF CheckOwner, LockIdea, IdeaDies, Throws
<1>2. CASE Ends(r)
  BY <1>1, <1>2, EndsIdle, IdeasStay DEF Unlocked
<1>3. IdeaFits(req[r])
  BY DEF IdeasFit
<1>4. CASE CheckOwner(r) /\ Goes(r, "checked")
  <2>1. req[r].phase = "authorized" /\ req[r].job[1] = "update"
    BY <1>4 DEF CheckOwner, Works, At
  <2>2. Onto(req[r], req'[r], "checked")
    BY Zenon, <1>4, <2>1, GoesOnto
  <2>3. IdeaFits(req[r])' /\ req'[r].phase = "checked"
    BY <1>1, <1>3, <2>1, <2>2 DEF IdeaFits, Onto, ideaVars
  <2> QED BY <1>1, <2>3, IdeasBecome DEF IdeasFit, ideaVars
<1>5. CASE LockIdea(r) /\ ~Ends(r)
  <2>1. /\ req[r].phase = "checked" /\ RowFree(r)
        /\ req' = [req EXCEPT ![r].phase = "holding", ![r].work = ideas[req[r].job[2]]]
    BY <1>5 DEF LockIdea, Works, At, Throws
  <2>2. Shaped(req[r]) /\ req'[r] = [req[r] EXCEPT !.phase = "holding", !.work = ideas[req[r].job[2]]]
    BY <2>1, BusyShaped DEF RequestsFit
  <2>3. req'[r].phase = "holding" /\ req'[r].job = req[r].job /\ req'[r].work = ideas[req[r].job[2]]
    BY <2>2 DEF Shaped
  <2>4. IdeaFits(req[r])'
    BY Zenon, <1>1, <1>3, <2>1, <2>3 DEF IdeaFits, ideaVars
  <2>5. \A s \in Requests : s # r /\ At(s, "holding") => req[s].job[2] # req'[r].job[2]
    BY <2>1, <2>3 DEF RowFree
  <2> QED BY <1>1, <2>4, <2>5, IdeasBecome DEF IdeasFit, ideaVars
<1>6. Ends(r) \/ (CheckOwner(r) /\ Goes(r, "checked")) \/ (LockIdea(r) /\ ~Ends(r))
  BY DEF CheckOwner, IdeaDies, Throws
<1> QED BY <1>1, <1>2, <1>4, <1>5, <1>6

LEMMA StoresKeeps ==
  ASSUME RequestsFit, IdeasFit, NEW r \in Requests, Request(r), NEW now, Stores(r, now),
         DOMAIN now = Ideas, \A f \in Ideas : IdeaShaped(now[f]) /\ (ideas[f].there => now[f].there),
         \A s \in Requests : s # r /\ At(s, "holding") => now[req[s].job[2]] = ideas[req[s].job[2]]
  PROVE  IdeasFit'
<1>1. ideas' = now /\ shown' = [shown EXCEPT ![req[r].by] = now]
  BY DEF Stores
<1>2. req'[r].phase = "idle" /\ IdeaFits(req[r])'
  BY EndsIdle DEF Stores, IdeaFits
<1>3. DOMAIN shown' = Members /\ \A u \in Members, f \in Ideas : shown'[u][f].there => ideas'[f].there
  BY <1>1 DEF IdeasFit
<1> QED BY <1>1, <1>2, <1>3, IdeasBecome

LEMMA EventSeq ==
  ASSUME NEW f, NEW what, NEW from, NEW to
  PROVE  \E T : Event(f, what, from, to) \in Seq(T)
<1> DEFINE e == [of |-> f, what |-> what, from |-> from, to |-> to]
<1>1. Event(f, what, from, to) = <<>> \/ Event(f, what, from, to) = <<e>>
  BY DEF Event
<1> HIDE DEF e
<1>2. <<>> \in Seq({e}) /\ <<e>> \in Seq({e})
  OBVIOUS
<1> QED BY Zenon, <1>1, <1>2

LEMMA Joined ==
  ASSUME NEW A, NEW B, NEW C, NEW a \in Seq(A), NEW b \in Seq(B), NEW c \in Seq(C)
  PROVE  a \o (b \o c) = (a \o b) \o c
<1> DEFINE S == A \cup B \cup C
<1>1. a \in Seq(S) /\ b \in Seq(S) /\ c \in Seq(S)
  OBVIOUS
<1> QED BY <1>1

(* The two events of one change of a row. *)
BothTold(t, u, f) ==
    \A g, w, x, now :
        (g # f \/ w \notin {"status", "owner"}) /\ Leads(t, g, w, x, now) => Leads(u, g, w, x, now)

LEMMA BothLead ==
  ASSUME NEW S, NEW t \in Seq(S), NEW f, NEW was, NEW status, NEW had, NEW owner,
         Leads(t, f, "status", "new", was), Leads(t, f, "owner", Nobody, had), Gapless(t),
         NEW u, u = t \o (Event(f, "status", was, status) \o Event(f, "owner", had, owner))
  PROVE  /\ Leads(u, f, "status", "new", status) /\ Leads(u, f, "owner", Nobody, owner)
         /\ Gapless(u) /\ Sequence(u)
         /\ BothTold(t, u, f)
<1> DEFINE m == t \o Event(f, "status", was, status)
<1>1. /\ Leads(m, f, "status", "new", status) /\ Gapless(m) /\ Sequence(m)
      /\ OthersTold(t, m, f, "status")
  BY Zenon, EventLeads
<1>2. Leads(m, f, "owner", Nobody, had)
  BY <1>1 DEF OthersTold
<1>3. u = m \o Event(f, "owner", had, owner)
  BY EventSeq, Joined
<1>5. PICK T : m \in Seq(T)
  BY <1>1 DEF Sequence
<1> HIDE DEF m
<1>4. /\ Leads(u, f, "owner", Nobody, owner) /\ Gapless(u) /\ Sequence(u)
      /\ OthersTold(m, u, f, "owner")
  BY Zenon, <1>1, <1>2, <1>3, <1>5, EventLeads
<1> QED BY <1>1, <1>4 DEF OthersTold, BothTold

LEMMA TrailWrites ==
  ASSUME TrailFits, NEW f \in Ideas, NEW status, NEW owner,
         trail' = trail \o (Event(f, "status", ideas[f].status, status) \o
                            Event(f, "owner", ideas[f].owner, owner)),
         ideas'[f].status = status, ideas'[f].owner = owner,
         \A g \in Ideas : g # f => ideas'[g] = ideas[g]
  PROVE  TrailFits'
<1>1. PICK S : trail \in Seq(S)
  BY Zenon DEF TrailFits, Sequence
<1>2. /\ Leads(trail, f, "status", "new", ideas[f].status)
      /\ Leads(trail, f, "owner", Nobody, ideas[f].owner) /\ Gapless(trail)
  BY Zenon DEF TrailFits
<1>3. ASSUME NEW t, t = trail, NEW u, u = trail', NEW was, was = ideas[f].status,
             NEW had, had = ideas[f].owner
      PROVE  /\ Leads(u, f, "status", "new", status) /\ Leads(u, f, "owner", Nobody, owner)
             /\ Gapless(u) /\ Sequence(u) /\ BothTold(t, u, f)
  <2>1. /\ t \in Seq(S) /\ Leads(t, f, "status", "new", was) /\ Leads(t, f, "owner", Nobody, had)
        /\ Gapless(t)
        /\ u = t \o (Event(f, "status", was, status) \o Event(f, "owner", had, owner))
    BY <1>1, <1>2, <1>3
  <2> QED BY Zenon, <2>1, BothLead
<1>4. /\ Leads(trail', f, "status", "new", status) /\ Leads(trail', f, "owner", Nobody, owner)
      /\ Gapless(trail') /\ Sequence(trail') /\ BothTold(trail, trail', f)
  BY Zenon, <1>3
<1>5. ASSUME NEW g \in Ideas
      PROVE  /\ Leads(trail', g, "status", "new", ideas'[g].status)
             /\ Leads(trail', g, "owner", Nobody, ideas'[g].owner)
             /\ Leads(trail', g, "created", "", "")
  <2>1. /\ Leads(trail, g, "status", "new", ideas[g].status)
        /\ Leads(trail, g, "owner", Nobody, ideas[g].owner)
        /\ Leads(trail, g, "created", "", "")
    BY Zenon DEF TrailFits
  <2>2. CASE g = f
    BY Zenon, <1>4, <2>1, <2>2 DEF BothTold
  <2>3. CASE g # f
    BY Zenon, <1>4, <2>1, <2>3 DEF BothTold
  <2> QED BY Zenon, <2>2, <2>3
<1> QED BY Zenon, <1>4, <1>5 DEF TrailFits

LEMMA WriteKeeps ==
  ASSUME RequestsFit, IdeasFit, TrailFits, NEW r \in Requests, Request(r), WriteIdea(r)
  PROVE  IdeasFit' /\ TrailFits'
<1> DEFINE f == req[r].job[2]
<1> DEFINE before == req[r].work
<1> DEFINE status == req[r].job[3]
<1> DEFINE owner == req[r].job[4]
<1> DEFINE told == Event(f, "status", before.status, status)
<1> DEFINE tells == Event(f, "owner", before.owner, owner)
<1> DEFINE now == [ideas EXCEPT ![f].status = status, ![f].owner = owner]
<1>1. req[r].phase = "holding" /\ IdeaFits(req[r])
  BY Zenon DEF WriteIdea, Works, At, IdeasFit
<1>2. f \in Ideas /\ ideas[f].there /\ before = ideas[f]
  BY <1>1 DEF IdeaFits
<1>3. CASE Throws(r)
  <2>1. IdeasFit'
    BY <1>3, EndsIdle, IdeasStay DEF Throws, Unlocked
  <2> QED BY Zenon, <1>3, <2>1 DEF Throws, ideaVars, TrailFits
<1>4. CASE Stores(r, now) /\ trail' = trail \o (told \o tells)
  <2>1. /\ DOMAIN now = Ideas /\ now[f] = [ideas[f] EXCEPT !.status = status, !.owner = owner]
        /\ \A g \in Ideas : g # f => now[g] = ideas[g]
    BY Zenon, <1>2 DEF IdeasFit
  <2>2. /\ DOMAIN now[f] = {"there", "status", "owner"} /\ now[f].there
        /\ now[f].status = status /\ now[f].owner = owner
    BY <1>2, <2>1 DEF IdeasFit, IdeaShaped
  <2>3. \A s \in Requests : s # r /\ At(s, "holding") => req[s].job[2] # f /\ req[s].job[2] \in Ideas
    BY <1>1 DEF IdeasFit, OneHolds, At, IdeaFits
  <2>4. IdeasFit'
    <3> HIDE DEF now, f
    <3>1. \A g \in Ideas : IdeaShaped(now[g]) /\ (ideas[g].there => now[g].there)
      BY Zenon, <2>1, <2>2 DEF IdeasFit, IdeaShaped
    <3> QED BY <1>4, <2>1, <2>3, <3>1, StoresKeeps
  <2>5. ideas' = now
    BY Zenon, <1>4 DEF Stores
  <2>6. trail' = trail \o (Event(f, "status", ideas[f].status, status) \o
                           Event(f, "owner", ideas[f].owner, owner))
    BY Zenon, <1>2, <1>4
  <2>7. ideas'[f].status = status /\ ideas'[f].owner = owner /\ \A g \in Ideas : g # f => ideas'[g] = ideas[g]
    BY Zenon, <2>1, <2>2, <2>5
  <2>8. TrailFits'
    <3> HIDE DEF f, status, owner, now
    <3> QED BY Zenon, <1>2, <2>6, <2>7, TrailWrites
  <2> QED BY <2>4, <2>8
<1> QED BY Zenon, <1>3, <1>4 DEF WriteIdea

LEMMA CreateKeeps ==
  ASSUME RequestsFit, IdeasFit, TrailFits, NEW r \in Requests, Request(r), CreateFeatureRequest(r)
  PROVE  IdeasFit' /\ TrailFits'
<1>1. CASE Throws(r)
  <2>1. IdeasFit'
    BY <1>1, EndsIdle, IdeasStay DEF Throws, Unlocked
  <2> QED BY Zenon, <1>1, <2>1 DEF Throws, ideaVars, TrailFits
<1>2. ASSUME NEW f \in Ideas, ~ideas[f].there, Stores(r, [ideas EXCEPT ![f] = NewIdea]),
             trail' = Append(trail, [of |-> f, what |-> "created", from |-> "", to |-> ""])
      PROVE  IdeasFit' /\ TrailFits'
  <2> DEFINE now == [ideas EXCEPT ![f] = NewIdea]
  <2>1. /\ DOMAIN now = Ideas /\ now[f] = NewIdea /\ \A g \in Ideas : g # f => now[g] = ideas[g]
    BY DEF IdeasFit
  <2>2. IdeaShaped(NewIdea) /\ NewIdea.there /\ NewIdea.status = "new" /\ NewIdea.owner = Nobody
    BY DEF IdeaShaped, NewIdea
  <2>3. ideas' = now
    BY Zenon, <1>2 DEF Stores
  <2>4. \A s \in Requests : At(s, "holding") => req[s].job[2] # f /\ req[s].job[2] \in Ideas
    BY Zenon, <1>2 DEF IdeasFit, At, IdeaFits
  <2> HIDE DEF now
  <2>5. IdeasFit'
    <3>1. \A g \in Ideas : IdeaShaped(now[g]) /\ (ideas[g].there => now[g].there)
      BY <2>1, <2>2 DEF IdeasFit
    <3>2. Stores(r, now)
      BY Zenon, <1>2 DEF now
    <3>3. \A s \in Requests : s # r /\ At(s, "holding") => now[req[s].job[2]] = ideas[req[s].job[2]]
      BY <2>1, <2>4
    <3> QED BY <2>1, <3>1, <3>2, <3>3, StoresKeeps
  <2>6. PICK S : trail \in Seq(S)
    BY Zenon DEF TrailFits, Sequence
  <2>7. Gapless(trail) /\ Leads(trail, f, "created", "", "")
    BY Zenon DEF TrailFits
  <2>8. Gapless(trail') /\ Leads(trail', f, "created", "", "") /\ OthersTold(trail, trail', f, "created")
    BY Zenon, <1>2, <2>6, <2>7, AppendLeads
  <2>9. ideas[f].status = "new" /\ ideas[f].owner = Nobody
    BY Zenon, <1>2 DEF IdeasFit, IdeaShaped
  <2>10. ASSUME NEW g \in Ideas
         PROVE  /\ Leads(trail', g, "status", "new", ideas'[g].status)
                /\ Leads(trail', g, "owner", Nobody, ideas'[g].owner)
                /\ Leads(trail', g, "created", "", "")
    <3>1. /\ Leads(trail, g, "status", "new", ideas[g].status)
          /\ Leads(trail, g, "owner", Nobody, ideas[g].owner)
          /\ Leads(trail, g, "created", "", "")
      BY Zenon DEF TrailFits
    <3>2. ideas'[g].status = ideas[g].status /\ ideas'[g].owner = ideas[g].owner
      BY <2>1, <2>2, <2>3, <2>9
    <3>3. Leads(trail', g, "status", "new", ideas[g].status) /\ Leads(trail', g, "owner", Nobody, ideas[g].owner)
      BY Zenon, <2>8, <3>1 DEF OthersTold
    <3>4. Leads(trail', g, "created", "", "")
      BY Zenon, <2>8, <3>1 DEF OthersTold
    <3> QED BY Zenon, <3>2, <3>3, <3>4
  <2>11. Sequence(trail')
    <3>1. ASSUME NEW e PROVE Append(trail, e) \in Seq(S \cup {e})
      BY <2>6
    <3> QED BY Zenon, <1>2, <3>1 DEF Sequence
  <2> QED BY Zenon, <2>5, <2>8, <2>10, <2>11 DEF TrailFits
<1>3. Throws(r) \/ \E f \in Ideas :
        /\ ~ideas[f].there /\ Stores(r, [ideas EXCEPT ![f] = NewIdea])
        /\ trail' = Append(trail, [of |-> f, what |-> "created", from |-> "", to |-> ""])
  BY Zenon DEF CreateFeatureRequest
<1> QED BY Zenon, <1>1, <1>2, <1>3

LEMMA IdeasRest ==
  ASSUME IdeasFit, TrailFits, req' = req, UNCHANGED <<ideas, trail>>,
         DOMAIN shown' = Members, \A u \in Members, f \in Ideas : shown'[u][f].there => ideas[f].there
  PROVE  IdeasFit' /\ TrailFits'
  BY Zenon DEF IdeasFit, TrailFits, IdeaFits, OneHolds, At, IdeaShaped

LEMMA IdeasStep == RequestsFit /\ IdeasFit /\ TrailFits /\ [Next]_vars => (IdeasFit /\ TrailFits)'
<1> SUFFICES ASSUME RequestsFit, IdeasFit, TrailFits, [Next]_vars PROVE (IdeasFit /\ TrailFits)'
  OBVIOUS
<1>1. ASSUME UNCHANGED <<ideaVars, memberVars>> PROVE (IdeasFit /\ TrailFits)'
  BY <1>1, IdeasRest DEF ideaVars, memberVars, IdeasFit
<1>2. ASSUME NEW u \in Members, (SignIn(u) \/ SignOut(u)) /\ UNCHANGED ideaVars PROVE (IdeasFit /\ TrailFits)'
  BY <1>2, IdeasRest DEF SignIn, SignOut, ideaVars, IdeasFit
<1>3. ASSUME NEW u \in Members, Render(u) PROVE (IdeasFit /\ TrailFits)'
  <2>1. shown' = [shown EXCEPT ![u] = ideas] /\ req' = req /\ UNCHANGED <<ideas, trail>>
    BY <1>3 DEF Render, memberVars
  <2>2. DOMAIN shown' = Members /\ \A w \in Members, f \in Ideas : shown'[w][f].there => ideas[f].there
    BY <2>1 DEF IdeasFit
  <2> QED BY <2>1, <2>2, IdeasRest
<1>4. ASSUME NEW r \in Requests, Request(r) PROVE (IdeasFit /\ TrailFits)'
  <2>1. CASE UNCHANGED ideaVars /\ Unlocked(req[r], req'[r])
    <3>1. IdeasFit'
      BY <1>4, <2>1, IdeasStay
    <3> QED BY Zenon, <2>1, <3>1 DEF TrailFits, ideaVars
  <2>2. CASE UNCHANGED ideaVars /\ OrderIdea(r)
    <3>1. IdeasFit'
      BY <1>4, <2>2, OrderIdeaKeeps
    <3> QED BY Zenon, <2>2, <3>1 DEF TrailFits, ideaVars
  <2>3. CASE CheckOwner(r) \/ LockIdea(r) \/ IdeaDies(r)
    <3>1. IdeasFit' /\ UNCHANGED ideaVars
      BY <1>4, <2>3, LockKeeps
    <3> QED BY Zenon, <3>1 DEF TrailFits, ideaVars
  <2>4. CASE CreateFeatureRequest(r) \/ WriteIdea(r)
    BY <1>4, <2>4, CreateKeeps, WriteKeeps
  <2> QED BY <1>4, <2>1, <2>2, <2>3, <2>4, OrdersUnlocked, TransactsUnlocked DEF Request, Handles
<1>5. CASE \E s \in Requests : Request(s)
  BY <1>4, <1>5
<1>6. CASE UNCHANGED <<ideaVars, memberVars>>
  BY <1>1, <1>6
<1>7. CASE \E u \in Members : Render(u)
  BY <1>3, <1>7
<1>8. CASE Sessions /\ UNCHANGED ideaVars
  BY <1>2, <1>8 DEF Sessions
<1> QED BY <1>5, <1>6, <1>7, <1>8 DEF Next, vars

\* The trail of a feature request leads step by step, with no gap, to the status
\* and the owner it has: an update compares with what it locked, and nobody
\* locks the row before it has written (feature-requests/actions.ts:44-52).
THEOREM TrailCorrect == Spec => []TrailReplays
<1> QED BY InitFits, StepKeeps, IdeasInit, IdeasStep, TrailTells, PTL DEF Spec
-----------------------------------------------------------------------------
(* A finite set of positions can be put in order. *)
Listed(S) == \E s \in [1 .. Cardinality(S) -> S] : \A i, j \in DOMAIN s : i < j => s[i] < s[j]

LEMMA NoneListed == Cardinality({}) = 0 /\ Listed({})
<1>1. Cardinality({}) = 0
  BY FS_EmptySet
<1>2. <<>> \in [1 .. 0 -> {}] /\ \A i, j \in DOMAIN <<>> : i < j => <<>>[i] < <<>>[j]
  OBVIOUS
<1> QED BY <1>1, <1>2 DEF Listed

LEMMA OneMoreListed ==
  ASSUME NEW n \in Nat, NEW S, S \subseteq 1 .. n, n \in S, Listed(S \ {n})
  PROVE  Listed(S)
<1> DEFINE T == S \ {n}
<1>1. IsFiniteSet(S)
  <2>1. IsFiniteSet(1 .. n) /\ S \in SUBSET (1 .. n)
    BY FS_Interval
  <2> QED BY <2>1, FS_Subset
<1>2. /\ Cardinality(S) \in Nat /\ Cardinality(T) \in Nat /\ Cardinality(S) = Cardinality(T) + 1
  BY <1>1, FS_CardinalityType, FS_RemoveElement, FS_Subset
<1> DEFINE c == Cardinality(T)
<1>3. PICK s \in [1 .. c -> T] : \A i, j \in DOMAIN s : i < j => s[i] < s[j]
  BY DEF Listed
<1> HIDE DEF c
<1> DEFINE u == [i \in 1 .. c + 1 |-> IF i = c + 1 THEN n ELSE s[i]]
<1>4. c \in Nat /\ Cardinality(S) = c + 1
  BY <1>2 DEF c
<1>8. \A x \in S : x \in Nat /\ (x # n => x < n)
  OBVIOUS
<1>5. ASSUME NEW i \in 1 .. c PROVE s[i] \in S /\ s[i] # n /\ s[i] \in Nat /\ s[i] < n
  <2>1. s[i] \in S \ {n}
    BY <1>3
  <2>2. s[i] \in S /\ s[i] # n
    BY <2>1
  <2> QED BY <1>8, <2>2
<1>6. u \in [1 .. c + 1 -> S]
  BY <1>4, <1>5
<1>7. ASSUME NEW i \in DOMAIN u, NEW j \in DOMAIN u, i < j PROVE u[i] < u[j]
  <2>1. i \in 1 .. c
    BY <1>4, <1>7
  <2>2. CASE j = c + 1
    BY <1>4, <1>5, <2>1, <2>2
  <2>3. CASE j # c + 1
    BY <1>3, <1>4, <1>7, <2>1, <2>3
  <2> QED BY <2>2, <2>3
<1> QED BY <1>4, <1>6, <1>7 DEF Listed

LEMMA IntervalListed == \A n \in Nat : \A S \in SUBSET (1 .. n) : Listed(S)
<1> DEFINE Bad == {n \in Nat : \E S \in SUBSET (1 .. n) : ~Listed(S)}
<1>1. SUFFICES ASSUME Bad # {} PROVE FALSE
  OBVIOUS
<1>2. PICK n \in Bad : \A m \in Bad : <<m, n>> \notin OpToRel(<, Nat)
  BY <1>1, NatLessThanWellFounded, WFMin
<1>3. n \in Nat /\ \A m \in Nat : m < n => m \notin Bad
  BY <1>2 DEF OpToRel
<1>4. PICK S \in SUBSET (1 .. n) : ~Listed(S)
  BY <1>2
<1>5. CASE n = 0
  <2>1. S = {}
    BY <1>4, <1>5
  <2> QED BY <1>4, <2>1, NoneListed
<1>6. CASE n # 0
  <2>1. n - 1 \in Nat /\ n - 1 < n
    BY <1>3, <1>6
  <2>2. \A T \in SUBSET (1 .. n - 1) : Listed(T)
    BY <1>3, <2>1
  <2>3. CASE n \notin S
    <3>1. S \subseteq 1 .. n - 1
      BY <1>3, <2>1, <2>3
    <3> QED BY <1>4, <2>2, <3>1
  <2>4. CASE n \in S
    <3>1. S \ {n} \subseteq 1 .. n - 1
      BY <1>3, <2>1
    <3> QED BY <1>3, <1>4, <2>2, <2>4, <3>1, OneMoreListed
  <2> QED BY <2>3, <2>4
<1> QED BY <1>5, <1>6

LEMMA InOrderLists ==
  ASSUME NEW n \in Nat, NEW S, S \subseteq 1 .. n
  PROVE  /\ InOrder(S) \in [1 .. Cardinality(S) -> S] /\ Cardinality(S) \in Nat
         /\ \A i, j \in 1 .. Cardinality(S) : i # j => InOrder(S)[i] # InOrder(S)[j]
<1>1. Listed(S)
  BY IntervalListed
<1>2. IsFiniteSet(S)
  <2>1. IsFiniteSet(1 .. n) /\ S \in SUBSET (1 .. n)
    BY FS_Interval
  <2> QED BY <2>1, FS_Subset
<1>3. Cardinality(S) \in Nat
  BY <1>2, FS_CardinalityType
<1> DEFINE s == InOrder(S)
<1>4. s \in [1 .. Cardinality(S) -> S] /\ \A i, j \in DOMAIN s : i < j => s[i] < s[j]
  BY <1>1 DEF Listed, InOrder
<1> HIDE DEF s
<1>5. ASSUME NEW i \in 1 .. Cardinality(S), NEW j \in 1 .. Cardinality(S), i # j PROVE s[i] # s[j]
  <2>1. i < j \/ j < i
    BY <1>3, <1>5
  <2>2. s[i] \in S /\ s[j] \in S /\ DOMAIN s = 1 .. Cardinality(S)
    BY <1>4
  <2>3. \A x \in S : ~(x < x)
    OBVIOUS
  <2> QED BY <1>4, <2>1, <2>2, <2>3
<1> QED BY <1>3, <1>4, <1>5 DEF s
-----------------------------------------------------------------------------
(* What a build makes of the responses there are.                              *)
Chosen(s, n, given) == InOrder({i \in DOMAIN given : Included(given[i], s, n)})

ResponseFits(x) ==
    /\ DOMAIN x = {"study", "version", "status", "answer"}
    /\ x.study \in Studies /\ x.version \in DOMAIN Instrument[x.study]
    /\ x.status = "in_progress" \/ Ended(x)

GivenFits(given) == Sequence(given) /\ \A i \in DOMAIN given : ResponseFits(given[i])

VersionFields == {"kind", "study", "of", "parent", "question", "variables", "columns", "rows"}

\* The version a derived one comes from is there, and has its rows.
DerivedOf(v, store) ==
    /\ v.parent[1] \in Names_ /\ v.parent[2] \in DOMAIN store[v.parent[1]]
    /\ \A x \in DOMAIN v.rows : \E y \in DOMAIN store[v.parent[1]][v.parent[2]].rows :
          v.rows[x] = Project(store[v.parent[1]][v.parent[2]].rows[y], DOMAIN v.rows[x])

VersionFits(name, v, store, given) ==
    /\ DOMAIN v = VersionFields /\ Sequence(v.rows)
    /\ v.kind = IF name = <<Derived, 0>> THEN "derived" ELSE "built"
    /\ v.kind = "built" => RowsOf(v, given)
    /\ v.kind = "derived" => DerivedOf(v, store)

Tells(v, given) == v.kind = "built" => ToldApart(v, given)

DatasetsFit(store, given) ==
    /\ DOMAIN store = Names_
    /\ \A name \in Names_ : /\ Sequence(store[name])
                            /\ \A k \in DOMAIN store[name] : /\ VersionFits(name, store[name][k], store, given)
                                                             /\ Tells(store[name][k], given)

(* The store and the responses grow; what is done stays. *)
StoreGrows(old, new) ==
    /\ DOMAIN new = Names_
    /\ \A name \in Names_ : \A k \in DOMAIN old[name] : k \in DOMAIN new[name] /\ new[name][k] = old[name][k]

GivenGrows(old, new) ==
    \A i \in DOMAIN old : i \in DOMAIN new /\ (old[i].status = "completed" => new[i] = old[i])

LEMMA RowsLast ==
  ASSUME NEW v, NEW old, NEW new, RowsOf(v, old), GivenGrows(old, new)
  PROVE  RowsOf(v, new) /\ (ToldApart(v, old) => ToldApart(v, new))
<1>1. \A i \in Responses(v) : i \in DOMAIN new /\ new[i] = old[i]
  BY DEF RowsOf, GivenGrows
<1>2. RowsOf(v, new)
  BY <1>1 DEF RowsOf
<1>3. \A x \in DOMAIN v.rows : new[v.rows[x][Key].num] = old[v.rows[x][Key].num]
  BY <1>1 DEF Responses
<1>4. ToldApart(v, old) => ToldApart(v, new)
  BY <1>3 DEF ToldApart
<1> QED BY <1>2, <1>4

LEMMA VersionLasts ==
  ASSUME NEW name, NEW v, NEW s1, NEW s2, NEW g1, NEW g2, StoreGrows(s1, s2), GivenGrows(g1, g2),
         VersionFits(name, v, s1, g1)
  PROVE  VersionFits(name, v, s2, g2) /\ (Tells(v, g1) => Tells(v, g2))
<1>1. v.kind = "built" => RowsOf(v, g2) /\ (ToldApart(v, g1) => ToldApart(v, g2))
  BY RowsLast DEF VersionFits
<1>2. v.kind = "derived" => DerivedOf(v, s2)
  BY DEF VersionFits, DerivedOf, StoreGrows
<1> QED BY <1>1, <1>2 DEF VersionFits, Tells

LEMMA GivenSame == ASSUME NEW g PROVE GivenGrows(g, g)
  BY DEF GivenGrows
LEMMA StoreSame == ASSUME NEW s, DOMAIN s = Names_ PROVE StoreGrows(s, s)
  BY DEF StoreGrows

LEMMA StoreLasts ==
  ASSUME NEW s, NEW g1, NEW g2, GivenGrows(g1, g2), DatasetsFit(s, g1)
  PROVE  DatasetsFit(s, g2)
<1>1. StoreGrows(s, s)
  BY StoreSame DEF DatasetsFit
<1>2. ASSUME NEW name \in Names_, NEW k \in DOMAIN s[name]
      PROVE  VersionFits(name, s[name][k], s, g2) /\ Tells(s[name][k], g2)
  BY <1>1, VersionLasts DEF DatasetsFit
<1> QED BY <1>2 DEF DatasetsFit

(* One more version of a dataset. *)
Longer(store, new, name, given) ==
    /\ DatasetsFit(new, given) /\ StoreGrows(store, new)
    /\ \A other \in Names_ : other # name => new[other] = store[other]

LEMMA OneMore ==
  ASSUME NEW store, NEW given, DatasetsFit(store, given), NEW name \in Names_, NEW v,
         VersionFits(name, v, store, given), Tells(v, given),
         NEW new, new = [store EXCEPT ![name] = Append(store[name], v)]
  PROVE  Longer(store, new, name, given)
<1>1. PICK S : store[name] \in Seq(S)
  BY DEF DatasetsFit, Sequence
<1>2. /\ DOMAIN new = Names_ /\ new[name] = Append(store[name], v)
      /\ \A other \in Names_ : other # name => new[other] = store[other]
  BY DEF DatasetsFit
<1> DEFINE longer == Append(store[name], v)
<1>3. /\ longer \in Seq(S \cup {v}) /\ Len(longer) = Len(store[name]) + 1
      /\ DOMAIN longer = DOMAIN store[name] \cup {Len(store[name]) + 1}
      /\ longer[Len(store[name]) + 1] = v
      /\ \A k \in DOMAIN store[name] : longer[k] = store[name][k]
  BY <1>1
<1> HIDE DEF longer
<1>4. StoreGrows(store, new)
  BY <1>2, <1>3 DEF StoreGrows, longer
<1>5. ASSUME NEW other \in Names_
      PROVE  /\ Sequence(new[other])
             /\ \A k \in DOMAIN new[other] : /\ VersionFits(other, new[other][k], new, given)
                                             /\ Tells(new[other][k], given)
  <2>1. Sequence(new[other])
    BY <1>2, <1>3 DEF DatasetsFit, Sequence, longer
  <2>2. ASSUME NEW k \in DOMAIN new[other]
        PROVE  VersionFits(other, new[other][k], store, given) /\ Tells(new[other][k], given)
    BY <1>2, <1>3 DEF DatasetsFit, longer
  <2>3. ASSUME NEW k \in DOMAIN new[other] PROVE VersionFits(other, new[other][k], new, given)
    BY <1>4, <2>2, VersionLasts, GivenSame
  <2> QED BY <2>1, <2>2, <2>3
<1> QED BY <1>2, <1>3, <1>4, <1>5 DEF DatasetsFit, Longer, longer
-----------------------------------------------------------------------------
(* What a build from the responses of one study version makes.                 *)
RowsFrom(q, found, given) ==
    [k \in DOMAIN found |->
        [c \in {Key} \cup ToSet(Columns(q)) |->
            IF c = Key THEN Num(found[k])
            ELSE Cells(q, given[found[k]].answer)[CHOOSE j \in DOMAIN Columns(q) : Columns(q)[j] = c]]]

LEMMA ChosenFits ==
  ASSUME NEW given, Sequence(given), NEW s, NEW n,
         NEW found, found = Chosen(s, n, given)
  PROVE  /\ \E m \in Nat : DOMAIN found = 1 .. m
         /\ \A k \in DOMAIN found : found[k] \in DOMAIN given /\ Included(given[found[k]], s, n)
         /\ \A j, k \in DOMAIN found : j # k => found[j] # found[k]
<1> DEFINE S == {i \in DOMAIN given : Included(given[i], s, n)}
<1>1. PICK m \in Nat : DOMAIN given = 1 .. m
  BY DEF Sequence
<1>2. S \subseteq 1 .. m
  BY <1>1
<1>3. /\ found \in [1 .. Cardinality(S) -> S] /\ Cardinality(S) \in Nat
      /\ \A i, j \in 1 .. Cardinality(S) : i # j => found[i] # found[j]
  BY <1>2, InOrderLists DEF Chosen
<1>4. \A k \in DOMAIN found : found[k] \in S
  BY <1>3
<1>5. \A k \in DOMAIN found : found[k] \in DOMAIN given /\ Included(given[found[k]], s, n)
  BY <1>4
<1> HIDE DEF S
<1> QED BY <1>3, <1>5

LEMMA RowsFromRows ==
  ASSUME NEW q, NEW found, NEW given, NEW m \in Nat, DOMAIN found = 1 .. m,
         \A j, k \in DOMAIN found : j # k => found[j] # found[k],
         NEW s, NEW n, \A k \in DOMAIN found : found[k] \in DOMAIN given /\ Included(given[found[k]], s, n),
         NEW v, v.rows = RowsFrom(q, found, given), v.study = s, v.of = n
  PROVE  RowsOf(v, given) /\ Sequence(v.rows)
<1>1. DOMAIN v.rows = 1 .. m /\ \A k \in 1 .. m : v.rows[k][Key] = Num(found[k])
  BY DEF RowsFrom
<1>2. Sequence(v.rows)
  <2> DEFINE row(k) == [c \in {Key} \cup ToSet(Columns(q)) |->
            IF c = Key THEN Num(found[k])
            ELSE Cells(q, given[found[k]].answer)[CHOOSE j \in DOMAIN Columns(q) : Columns(q)[j] = c]]
  <2>1. v.rows = [k \in 1 .. m |-> row(k)]
    BY DEF RowsFrom
  <2> HIDE DEF row
  <2>2. v.rows \in Seq({row(k) : k \in 1 .. m})
    BY <2>1
  <2> QED BY <2>2 DEF Sequence
<1>3. \A k \in 1 .. m : v.rows[k][Key].num = found[k]
  <2>1. \A x : Num(x).num = x
    BY DEF Num
  <2> QED BY <1>1, <2>1
<1>4. Responses(v) = {found[k] : k \in 1 .. m}
  BY <1>1, <1>3 DEF Responses
<1>5. Len(v.rows) = m
  BY <1>1, <1>2 DEF Sequence
<1>6. ExistsBijection(1 .. m, Responses(v))
  <2> DEFINE f == [k \in 1 .. m |-> found[k]]
  <2>1. f \in [1 .. m -> Responses(v)] /\ \A j, k \in 1 .. m : j # k => f[j] # f[k]
    BY <1>4
  <2>2. \A i \in Responses(v) : \E k \in 1 .. m : f[k] = i
    BY <1>4
  <2>3. f \in Bijection(1 .. m, Responses(v))
    BY <2>1, <2>2 DEF Bijection, Injection, Surjection, IsInjective
  <2> QED BY <2>3 DEF ExistsBijection
<1>7. Cardinality(Responses(v)) = Len(v.rows)
  BY <1>5, <1>6, FS_CountingElements
<1>8. \A i \in Responses(v) : i \in DOMAIN given /\ Included(given[i], s, n)
  BY <1>4
<1> QED BY <1>2, <1>7, <1>8 DEF RowsOf, Included
-----------------------------------------------------------------------------
(* What a request on the datasets knows.                                       *)
WorkFits(x, store, given) ==
    /\ x.phase # "idle" =>
          /\ x.job[1] = "build" => x.job[2] \in Studies
          /\ x.job[1] = "derive" => x.job[2] \in Names_ /\ x.job[3] \in DOMAIN store[x.job[2]]
    /\ x.phase = "picked" => x.job[1] = "build" /\ x.work.of \in DOMAIN Instrument[x.job[2]]
    /\ x.phase \in {"looked", "numbered"} =>
          /\ x.work.name \in Names_ /\ VersionFits(x.work.name, x.work.content, store, given)
          /\ DOMAIN x.work = {"name", "seen", "number", "content"}
    /\ x.phase = "looked" => (IsInjective(x.work.content.variables) => Tells(x.work.content, given))
    /\ x.phase = "numbered" => /\ Tells(x.work.content, given)
                               /\ x.work.number = Len(store[x.work.name]) + 1

OneNumbers ==
    \A r, s \in Requests :
        r # s /\ At(r, "numbered") /\ At(s, "numbered") => req[r].work.name # req[s].work.name

DataFits ==
    /\ DOMAIN published = Studies /\ \A s \in Studies : published[s] \in DOMAIN Instrument[s]
    /\ GivenFits(responses)
    /\ DatasetsFit(datasets, responses)
    /\ \A r \in Requests : WorkFits(req[r], datasets, responses)
    /\ OneNumbers
    /\ "number" \notin refused

(* The run of a request that waits for the service. *)
Waits(x) == x.phase \in {"calling", "answered", "finalizing"}

WaitFits(x, told) ==
    Waits(x) => /\ x.work.run \in DOMAIN told /\ told[x.work.run].status = "running"
                /\ x.phase # "calling" => told[x.work.run].verdict \in {"ok", "error", "timeout"}

RunFits(x) ==
    /\ DOMAIN x = {"of", "recipe", "status", "verdict"}
    /\ x.status \in {"running", "succeeded", "failed"} /\ x.verdict \in {"none", "ok", "error", "timeout"}
    /\ x.status = "failed" => x.verdict \in {"error", "timeout"}
    /\ x.status = "succeeded" => x.verdict = "ok"

OneWaits ==
    \A r, s \in Requests :
        r # s /\ Waits(req[r]) /\ Waits(req[s]) => req[r].work.run # req[s].work.run

RunsFit ==
    /\ Sequence(runs) /\ \A i \in DOMAIN runs : RunFits(runs[i])
    /\ \A r \in Requests : WaitFits(req[r], runs)
    /\ OneWaits
-----------------------------------------------------------------------------
(* What stays for a request while others work. *)
LEMMA WorkLasts ==
  ASSUME NEW x, NEW y, Alike(x, y), NEW s1, NEW s2, NEW g1, NEW g2, DOMAIN s1 = Names_,
         StoreGrows(s1, s2), GivenGrows(g1, g2), WorkFits(x, s1, g1),
         x.phase = "numbered" => Len(s2[x.work.name]) = Len(s1[x.work.name])
  PROVE  WorkFits(y, s2, g2)
<1>1. x.phase \in {"looked", "numbered"} =>
        /\ VersionFits(x.work.name, x.work.content, s2, g2)
        /\ Tells(x.work.content, g1) => Tells(x.work.content, g2)
  BY VersionLasts DEF WorkFits
<1>2. x.job[1] = "derive" /\ x.phase # "idle" => x.job[3] \in DOMAIN s2[x.job[2]]
  BY DEF WorkFits, StoreGrows
<1> QED BY <1>1, <1>2 DEF WorkFits, Alike

(* One request moves, and neither the datasets nor the responses. *)
LEMMA WorkStays ==
  ASSUME RequestsFit, DataFits, NEW r \in Requests, Request(r),
         UNCHANGED <<published, responses, datasets>>, "number" \notin refused',
         WorkFits(req'[r], datasets, responses),
         req'[r].phase = "numbered" =>
            \A s \in Requests : At(s, "numbered") => req[s].work.name # req'[r].work.name
  PROVE  DataFits'
<1>1. \A s \in Requests : s # r => Alike(req[s], req'[s])
  BY OthersAlike
<1>2. ASSUME NEW s \in Requests PROVE WorkFits(req'[s], datasets, responses)
  <2>1. CASE s # r
    <3>1. DOMAIN datasets = Names_
      BY DEF DataFits, DatasetsFit
    <3>2. StoreGrows(datasets, datasets) /\ GivenGrows(responses, responses)
      BY <3>1, StoreSame, GivenSame
    <3>3. WorkFits(req[s], datasets, responses)
      BY DEF DataFits
    <3> QED BY <1>1, <2>1, <3>1, <3>2, <3>3, WorkLasts
  <2> QED BY <2>1
<1>3. OneNumbers'
  BY <1>1 DEF DataFits, OneNumbers, At, Alike
<1> QED BY <1>2, <1>3 DEF DataFits

(* It touches no dataset. *)
Unworked(x, y) ==
    \/ y.phase = "idle"
    \/ y.job[1] \notin {"build", "derive"} /\ y.phase \notin {"picked", "looked", "numbered"}
    \/ x.phase # "idle" /\ y.job = x.job /\ y.phase \notin {"picked", "looked", "numbered"}

LEMMA UnworkedStays ==
  ASSUME RequestsFit, DataFits, NEW r \in Requests, Request(r),
         UNCHANGED <<published, responses, datasets, refused>>, Unworked(req[r], req'[r])
  PROVE  DataFits'
<1>1. WorkFits(req[r], datasets, responses) /\ "number" \notin refused
  BY DEF DataFits
<1>2. WorkFits(req'[r], datasets, responses) /\ req'[r].phase # "numbered"
  BY <1>1 DEF WorkFits, Unworked
<1> QED BY <1>1, <1>2, WorkStays

LEMMA GoesUnworked ==
  ASSUME RequestsFit, NEW r \in Requests, req[r].phase # "idle",
         \/ Ends(r)
         \/ \E p, w : p \notin {"picked", "looked", "numbered"} /\ (Goes(r, p) \/ Step(r, p, w))
  PROVE  Unworked(req[r], req'[r])
<1>1. CASE Ends(r)
  BY <1>1, EndsIdle DEF Unworked
<1>2. ASSUME NEW p, NEW w, p \notin {"picked", "looked", "numbered"}, Goes(r, p) \/ Step(r, p, w)
      PROVE  Unworked(req[r], req'[r])
  <2>1. Onto(req[r], req'[r], p)
    BY <1>2, GoesOnto DEF Step
  <2> QED BY <1>2, <2>1 DEF Onto, Unworked
<1> QED BY <1>1, <1>2

LEMMA OrdersUnworked ==
  ASSUME RequestsFit, NEW r \in Requests, Administer(r) \/ OrderIdea(r) \/ OrderRun(r)
  PROVE  Unworked(req[r], req'[r])
<1>1. ASSUME NEW u, NEW action, NEW job, job[1] \notin {"build", "derive"}, Arrive(r, u, action, job)
      PROVE  Unworked(req[r], req'[r])
  BY <1>1, ArriveUnlocked DEF Unworked
<1>2. CASE Administer(r)
  <2>1. PICK u, v, x, action : \E kind \in {"role", "state", "invite"} : Arrive(r, u, action, <<kind, v, x>>)
    BY Zenon, <1>2 DEF Administer
  <2> QED BY <1>1, <2>1
<1>3. CASE OrderIdea(r)
  <2>1. PICK u, f, x, y, action : \/ Arrive(r, u, action, <<"suggest">>)
                                  \/ Arrive(r, u, action, <<"update", f, x, y>>)
    BY Zenon, <1>3 DEF OrderIdea
  <2> QED BY <1>1, <2>1
<1>4. CASE OrderRun(r)
  <2>1. PICK u, name, k, recipe : \E kind \in {"run", "rerun"} :
          Arrive(r, u, "analytics.run", <<kind, name, k, recipe>>)
    BY Zenon, <1>4 DEF OrderRun
  <2> QED BY <1>1, <2>1
<1> QED BY <1>2, <1>3, <1>4

LEMMA HandlesUnworked ==
  ASSUME RequestsFit, NEW r \in Requests,
         \/ Authorize(r) \/ Write(r) \/ Commit(r) \/ RollBack(r) \/ Handles(r)
         \/ ReadRecipe(r) \/ Prepare(r) \/ Calls(r)
  PROVE  Unworked(req[r], req'[r])
<1>1. CASE Authorize(r) \/ Write(r) \/ RollBack(r)
  <2>1. Ends(r) \/ Goes(r, "authorized") \/ Goes(r, "written")
    BY <1>1 DEF Authorize, Write, RollBack
  <2>2. req[r].phase # "idle"
    BY <1>1 DEF Authorize, Write, RollBack, At
  <2> QED BY Zenon, <2>1, <2>2, GoesUnworked
<1>2. CASE Commit(r)
  <2>1. req'[r] = NoRequest
    BY <1>2 DEF Commit, Witnessed, RequestsFit, NoRequest
  <2> QED BY <2>1 DEF Unworked, NoRequest
<1>3. CASE Handles(r) \/ Prepare(r)
  <2>1. Ends(r) \/ \E p \in {"checked", "holding", "calling"} : Goes(r, p) \/ \E w : Step(r, p, w)
    BY Zenon, <1>3 DEF Handles, CreateFeatureRequest, CheckOwner, LockIdea, WriteIdea, IdeaDies, Prepare,
       Refuse, Throws, Stores, Step
  <2>2. req[r].phase # "idle"
    BY Zenon, <1>3 DEF Handles, CreateFeatureRequest, CheckOwner, LockIdea, WriteIdea, IdeaDies, Prepare,
       Works, At
  <2> QED BY <2>1, <2>2, GoesUnworked
<1>4. CASE Again(r) \/ Finalize(r) \/ FinalizeFails(r) \/ Dies(r)
  <2>1. Ends(r) \/ Goes(r, "finalizing")
    BY <1>4 DEF Again, Finalize, FinalizeFails, Dies
  <2>2. req[r].phase # "idle"
    BY <1>4 DEF Again, Finalize, FinalizeFails, Dies, Works, At
  <2> QED BY <2>1, <2>2, GoesUnworked
<1>5. CASE ReadRecipe(r)
  <2>1. Shaped(req[r])
    <3>1. req[r].phase = "authorized"
      BY Zenon, <1>5 DEF ReadRecipe, Works, At
    <3> QED BY <3>1, BusyShaped
  <2>2. CASE Ends(r)
    BY <2>2, EndsIdle DEF Unworked
  <2>3. CASE ~Ends(r)
    <3>1. req'[r] = [req[r] EXCEPT !.phase = "arrived", !.job[1] = "run",
                                   !.lawful = Allowed(req[r].by, req[r].action)]
      BY Zenon, <1>5, <2>3 DEF ReadRecipe, Refuse, RequestsFit
    <3> QED BY <2>1, <3>1 DEF Unworked, Shaped
  <2> QED BY <2>2, <2>3
<1>6. CASE \E verdict : Returns(r, verdict)
  <2>1. Shaped(req[r]) /\ req[r].phase = "calling"
    BY <1>6, BusyShaped DEF Returns, Works, At
  <2>2. req'[r] = [req[r] EXCEPT !.phase = "answered", !.lawful = Allowed(req[r].by, req[r].action)]
    BY <1>6 DEF Returns, RequestsFit
  <2> QED BY <2>1, <2>2 DEF Unworked, Shaped
<1> QED BY <1>1, <1>2, <1>3, <1>4, <1>5, <1>6 DEF Calls, Answer, TimesOut
-----------------------------------------------------------------------------
(* What the cells of two answers say.                                         *)
CellsTell(q, a, b) == \E k \in DOMAIN Columns(q) : Cells(q, a)[k] # Cells(q, b)[k]

LEMMA ListDomain == ASSUME NEW f, IsList(f) PROVE Len(f) \in Nat /\ DOMAIN f = 1 .. Len(f)
  BY DEF IsList

LEMMA NotEmpty == ASSUME NEW f, IsList(f), f # <<>> PROVE 1 \in DOMAIN f
<1>1. Len(f) \in Nat /\ f = [k \in 1 .. Len(f) |-> f[k]]
  BY DEF IsList
<1>2. Len(f) # 0
  <2>1. ASSUME Len(f) = 0 PROVE FALSE
    <3>1. f = [k \in {} |-> f[k]]
      BY <1>1, <2>1
    <3>2. f = <<>>
      BY <3>1
    <3> QED BY <3>2
  <2> QED BY <2>1
<1> QED BY <1>1, <1>2

LEMMA Containing == ASSUME NEW f, IsList(f) PROVE \A e : Contains(f, e) <=> e \in ToSet(f)
  BY ListDomain DEF Contains, ToSet

LEMMA ListsAgree ==
  ASSUME NEW f, NEW g, IsList(f), IsList(g), \A i \in DOMAIN f : i \in DOMAIN g /\ g[i] = f[i],
         \A i \in DOMAIN g : i \in DOMAIN f
  PROVE  f = g
<1>1. DOMAIN f = DOMAIN g
  OBVIOUS
<1>2. f = [i \in DOMAIN f |-> f[i]] /\ g = [i \in DOMAIN g |-> g[i]]
  BY ListDomain DEF IsList
<1> QED BY <1>1, <1>2

LEMMA NullIsNone ==
  /\ \A x : Num(x) # Null /\ Word(x) # Null
  /\ \A x, y : (Num(x) = Num(y) => x = y) /\ (Word(x) = Word(y) => x = y) /\ Num(x) # Word(y)
  BY DEF Num, Word, Null

LEMMA NumberStays == \A x : ToNumber(Num(x)) = Num(x)
  BY DEF ToNumber, Num

LEMMA Singular ==
  ASSUME NEW q, q.type \in {"scale", "likert", "choice", "consent", "text"}
  PROVE  DOMAIN Columns(q) = {1} /\ Cells(q, Null) = [k \in {1} |-> Null]
<1>1. Columns(q) = << <<q.code>> >>
  BY DEF Columns
<1>2. DOMAIN Columns(q) = {1}
  BY <1>1
<1> QED BY <1>2 DEF Cells

LEMMA ScaleTells ==
  ASSUME NEW q, q.type = "scale", NEW a, NEW b, AnswerTo(q, a), AnswerTo(q, b),
         Meaning(q, a) # Meaning(q, b)
  PROVE  CellsTell(q, a, b)
<1>1. ASSUME NEW x, AnswerTo(q, x) PROVE Meaning(q, x) = x /\ Cells(q, x)[1] = x
  <2>1. Meaning(q, x) = x
    BY DEF Meaning
  <2>2. CASE x = Null
    BY <2>1, <2>2, Singular
  <2>3. CASE x # Null
    <3>1. x = Num(x.num)
      BY <1>1, <2>3 DEF AnswerTo
    <3>2. Cells(q, x) = <<ToNumber(x)>>
      BY <2>3 DEF Cells
    <3> QED BY <2>1, <3>1, <3>2, NumberStays
  <2> QED BY <2>2, <2>3
<1> QED BY <1>1, Singular DEF CellsTell

LEMMA LikertTells ==
  ASSUME NEW q, q.type = "likert", Faithful(q), NEW a, NEW b, AnswerTo(q, a), AnswerTo(q, b),
         Meaning(q, a) # Meaning(q, b)
  PROVE  CellsTell(q, a, b)
<1>1. ASSUME NEW x, AnswerTo(q, x) PROVE Meaning(q, x) = x /\ Cells(q, x)[1] = x
  <2>1. Meaning(q, x) = x
    BY DEF Meaning
  <2>2. CASE x = Null
    BY <2>1, <2>2, Singular
  <2>3. CASE x # Null
    <3>1. PICK k \in DOMAIN q.options : x = OptionAnswer(q.options[k])
      BY <1>1, <2>3 DEF AnswerTo
    <3>2. x = Num(q.options[k].value)
      BY <3>1 DEF Faithful, Valued, OptionAnswer
    <3>3. Cells(q, x) = <<ToNumber(x)>>
      BY <2>3 DEF Cells
    <3> QED BY <2>1, <3>2, <3>3, NumberStays
  <2> QED BY <2>2, <2>3
<1> QED BY <1>1, Singular DEF CellsTell

LEMMA ChoiceTells ==
  ASSUME NEW q, q.type \in {"choice", "text"}, NEW a, NEW b, AnswerTo(q, a), AnswerTo(q, b),
         Meaning(q, a) # Meaning(q, b)
  PROVE  CellsTell(q, a, b)
<1>1. ASSUME NEW x PROVE Meaning(q, x) = x /\ Cells(q, x)[1] = x
  <2>1. Meaning(q, x) = x
    BY DEF Meaning
  <2>2. CASE x = Null
    BY <2>1, <2>2, Singular
  <2>3. CASE x # Null
    <3>1. Cells(q, x) = <<x>>
      BY <2>3 DEF Cells
    <3> QED BY <2>1, <3>1
  <2> QED BY <2>2, <2>3
<1> QED BY <1>1, Singular DEF CellsTell

LEMMA ConsentTells ==
  ASSUME NEW q, q.type = "consent", NEW a, NEW b, AnswerTo(q, a), AnswerTo(q, b),
         Meaning(q, a) # Meaning(q, b)
  PROVE  CellsTell(q, a, b)
<1>1. ASSUME NEW x, AnswerTo(q, x)
      PROVE  /\ Meaning(q, x) = x
             /\ \/ x = Null /\ Cells(q, x)[1] = Null
                \/ /\ x = [given |-> x.given] /\ x.given \in BOOLEAN
                   /\ Cells(q, x)[1] = Num(IF x.given THEN 1 ELSE 0)
  <2>1. Meaning(q, x) = x
    BY DEF Meaning
  <2>2. CASE x = Null
    BY <2>1, <2>2, Singular
  <2>3. CASE x # Null
    <3>1. x = [given |-> x.given] /\ x.given \in BOOLEAN
      BY <1>1, <2>3 DEF AnswerTo
    <3>2. Cells(q, x) = <<Num(IF x.given THEN 1 ELSE 0)>>
      BY <2>3 DEF Cells
    <3> QED BY <2>1, <3>1, <3>2
  <2> QED BY <2>2, <2>3
<1>2. Cells(q, a)[1] # Cells(q, b)[1]
  <2>1. \A x, y : Num(x) # Null /\ (Num(x) = Num(y) => x = y)
    BY NullIsNone
  <2>2. CASE a = Null \/ b = Null
    BY <1>1, <2>1, <2>2
  <2>3. CASE a # Null /\ b # Null
    <3>1. a.given # b.given /\ a.given \in BOOLEAN /\ b.given \in BOOLEAN
      BY <1>1, <2>3
    <3>2. Cells(q, a)[1] = Num(IF a.given THEN 1 ELSE 0) /\ Cells(q, b)[1] = Num(IF b.given THEN 1 ELSE 0)
      BY <1>1, <2>3
    <3>3. CASE a.given = TRUE
      <4>1. Cells(q, a)[1] = Num(1) /\ Cells(q, b)[1] = Num(0)
        BY <3>1, <3>2, <3>3
      <4> QED BY <2>1, <4>1
    <3>4. CASE a.given = FALSE
      <4>1. Cells(q, a)[1] = Num(0) /\ Cells(q, b)[1] = Num(1)
        BY <3>1, <3>2, <3>4
      <4> QED BY <2>1, <4>1
    <3> QED BY <3>1, <3>3, <3>4
  <2> QED BY <2>2, <2>3
<1> QED BY <1>2, Singular DEF CellsTell

LEMMA PreferenceTells ==
  ASSUME NEW q, q.type = "preference_test", NEW a, NEW b, AnswerTo(q, a), AnswerTo(q, b),
         Meaning(q, a) # Meaning(q, b)
  PROVE  CellsTell(q, a, b)
<1>1. DOMAIN Columns(q) = 1 .. 3
  BY DEF Columns
<1>2. ASSUME NEW x, AnswerTo(q, x)
      PROVE  /\ Meaning(q, x) = x
             /\ \/ x = Null /\ Cells(q, x)[1] = Null
                \/ /\ x = [pick |-> x.pick, asset |-> x.asset, order |-> x.order]
                   /\ Cells(q, x)[1] = Word(x.pick) /\ Cells(q, x)[2] = Word(x.asset)
                   /\ Cells(q, x)[3] = Word(x.order)
  <2>1. Meaning(q, x) = x
    BY DEF Meaning
  <2>2. CASE x = Null
    BY <1>1, <2>1, <2>2 DEF Cells
  <2>3. CASE x # Null
    <3>1. x = [pick |-> x.pick, asset |-> x.asset, order |-> x.order]
      BY <1>2, <2>3 DEF AnswerTo
    <3>2. Cells(q, x) = <<Word(x.pick), Word(x.asset), Word(x.order)>>
      BY <2>3 DEF Cells
    <3> QED BY <2>1, <3>1, <3>2
  <2> QED BY <2>2, <2>3
<1>3. \E k \in 1 .. 3 : Cells(q, a)[k] # Cells(q, b)[k]
  <2>1. \A x, y : Word(x) # Null /\ (Word(x) = Word(y) => x = y)
    BY NullIsNone
  <2>2. CASE a = Null \/ b = Null
    BY <1>2, <2>1, <2>2
  <2>3. CASE a # Null /\ b # Null
    <3>1. a.pick # b.pick \/ a.asset # b.asset \/ a.order # b.order
      BY <1>2, <2>3
    <3> QED BY <1>2, <2>1, <2>3, <3>1
  <2> QED BY <2>2, <2>3
<1> QED BY <1>1, <1>3 DEF CellsTell

LEMMA ChoicesTell ==
  ASSUME NEW q, q.type = "multiple_choice", Askable(q), NEW a, NEW b, AnswerTo(q, a), AnswerTo(q, b),
         Meaning(q, a) # Meaning(q, b)
  PROVE  CellsTell(q, a, b)
<1>1. DOMAIN Columns(q) = DOMAIN q.options
  BY DEF Columns
<1>2. 1 \in DOMAIN q.options
  BY NotEmpty DEF Askable
<1>3. ASSUME NEW x, AnswerTo(q, x)
      PROVE  \/ x = Null /\ Meaning(q, x) = Null /\ \A k \in DOMAIN q.options : Cells(q, x)[k] = Null
             \/ /\ x # Null /\ Meaning(q, x) = [chosen |-> ToSet(x.list)]
                /\ ToSet(x.list) \subseteq {q.options[k].id : k \in DOMAIN q.options}
                /\ \A k \in DOMAIN q.options :
                      Cells(q, x)[k] = Num(IF q.options[k].id \in ToSet(x.list) THEN 1 ELSE 0)
  <2>1. CASE x = Null
    BY <1>1, <2>1 DEF Meaning, Cells
  <2>2. CASE x # Null
    <3>1. IsList(x.list) /\ ToSet(x.list) \subseteq {q.options[k].id : k \in DOMAIN q.options}
      BY <1>3, <2>2 DEF AnswerTo
    <3>2. \A e : Contains(x.list, e) <=> e \in ToSet(x.list)
      BY <3>1, Containing
    <3>3. Meaning(q, x) = [chosen |-> ToSet(x.list)]
      BY <2>2 DEF Meaning
    <3>4. Cells(q, x) = [k \in DOMAIN q.options |->
                            Num(IF Contains(x.list, q.options[k].id) THEN 1 ELSE 0)]
      BY <2>2 DEF Cells
    <3>5. \A k \in DOMAIN q.options :
             Cells(q, x)[k] = Num(IF q.options[k].id \in ToSet(x.list) THEN 1 ELSE 0)
      BY <3>2, <3>4
    <3> QED BY <2>2, <3>1, <3>3, <3>5
  <2> QED BY <2>1, <2>2
<1>4. \A x, y : Num(x) # Null /\ (Num(x) = Num(y) => x = y)
  BY NullIsNone
<1>5. CASE a = Null \/ b = Null
  <2>1. Cells(q, a)[1] # Cells(q, b)[1]
    BY <1>2, <1>3, <1>4, <1>5
  <2> QED BY <1>1, <1>2, <2>1 DEF CellsTell
<1>6. CASE a # Null /\ b # Null
  <2>1. ToSet(a.list) # ToSet(b.list)
    BY <1>3, <1>6
  <2>2. PICK e : ~(e \in ToSet(a.list) <=> e \in ToSet(b.list))
    BY <2>1
  <2>3. PICK k \in DOMAIN q.options : q.options[k].id = e
    BY <1>3, <1>6, <2>2
  <2>4. Cells(q, a)[k] # Cells(q, b)[k]
    BY <1>3, <1>4, <1>6, <2>2, <2>3
  <2> QED BY <1>1, <2>4 DEF CellsTell
<1> QED BY <1>5, <1>6

LEMMA MatrixTells ==
  ASSUME NEW q, q.type = "matrix", Askable(q), Faithful(q), NEW a, NEW b, AnswerTo(q, a), AnswerTo(q, b),
         Meaning(q, a) # Meaning(q, b)
  PROVE  CellsTell(q, a, b)
<1> DEFINE grid(x) == IF x = Null THEN [row \in {} |-> Null] ELSE x.grid
<1>1. DOMAIN Columns(q) = DOMAIN q.rows
  BY DEF Columns
<1>2. ASSUME NEW x, AnswerTo(q, x)
      PROVE  /\ Meaning(q, x) = IF DOMAIN grid(x) = {} THEN Null ELSE [grid |-> grid(x)]
             /\ DOMAIN grid(x) \subseteq ToSet(q.rows)
             /\ grid(x) = [row \in DOMAIN grid(x) |-> grid(x)[row]]
             /\ \A row \in DOMAIN grid(x) : grid(x)[row] # Null
             /\ \A k \in DOMAIN q.rows :
                   Cells(q, x)[k] = IF q.rows[k] \in DOMAIN grid(x) THEN grid(x)[q.rows[k]] ELSE Null
  <2>1. CASE x = Null
    BY <1>1, <2>1 DEF Meaning, Cells
  <2>2. CASE x # Null
    <3>1. /\ x = [grid |-> x.grid] /\ DOMAIN x.grid \subseteq ToSet(q.rows)
          /\ x.grid = [row \in DOMAIN x.grid |-> x.grid[row]]
          /\ \A row \in DOMAIN x.grid : x.grid[row] \in {OptionAnswer(q.options[k]) : k \in DOMAIN q.options}
      BY <1>2, <2>2 DEF AnswerTo
    <3>2. \A k \in DOMAIN q.options : OptionAnswer(q.options[k]) = Num(q.options[k].value)
      BY DEF Faithful, Valued, OptionAnswer
    <3>3. \A row \in DOMAIN x.grid : \E n : x.grid[row] = Num(n)
      BY <3>1, <3>2
    <3>4. \A row \in DOMAIN x.grid : ToNumber(x.grid[row]) = x.grid[row] /\ x.grid[row] # Null
      BY <3>3, NumberStays, NullIsNone
    <3>5. Meaning(q, x) = IF DOMAIN x.grid = {} THEN Null ELSE x
      BY <2>2 DEF Meaning
    <3>6. Cells(q, x) = [k \in DOMAIN q.rows |->
                IF q.rows[k] \in DOMAIN x.grid THEN ToNumber(x.grid[q.rows[k]]) ELSE Null]
      BY <2>2 DEF Cells
    <3>7. \A k \in DOMAIN q.rows :
             Cells(q, x)[k] = IF q.rows[k] \in DOMAIN x.grid THEN x.grid[q.rows[k]] ELSE Null
      BY <3>4, <3>6
    <3> QED BY <2>2, <3>1, <3>4, <3>5, <3>7
  <2> QED BY <2>1, <2>2
<1> HIDE DEF grid
<1>3. PICK row : \/ ~(row \in DOMAIN grid(a) <=> row \in DOMAIN grid(b))
                 \/ row \in DOMAIN grid(a) /\ row \in DOMAIN grid(b) /\ grid(a)[row] # grid(b)[row]
  <2> DEFINE f == grid(a)
  <2> DEFINE g == grid(b)
  <2>1. f # g
    BY <1>2
  <2>2. f = [r \in DOMAIN f |-> f[r]] /\ g = [r \in DOMAIN g |-> g[r]]
    BY <1>2
  <2> HIDE DEF f, g
  <2>3. \/ DOMAIN f # DOMAIN g \/ \E r \in DOMAIN f : f[r] # g[r]
    BY <2>1, <2>2
  <2> QED BY <2>3 DEF f, g
<1>4. PICK k \in DOMAIN q.rows : q.rows[k] = row
  <2>1. row \in DOMAIN grid(a) \/ row \in DOMAIN grid(b)
    BY <1>3
  <2>2. row \in ToSet(q.rows)
    BY <1>2, <2>1
  <2> QED BY <2>2 DEF ToSet
<1>5. Cells(q, a)[k] # Cells(q, b)[k]
  BY <1>2, <1>3, <1>4
<1> QED BY <1>1, <1>5 DEF CellsTell

LEMMA RankingTells ==
  ASSUME NEW q, q.type = "ranking", Askable(q), NEW a, NEW b, AnswerTo(q, a), AnswerTo(q, b),
         Meaning(q, a) # Meaning(q, b)
  PROVE  CellsTell(q, a, b)
<1> DEFINE ids == {q.options[k].id : k \in DOMAIN q.options}
<1>1. DOMAIN Columns(q) = DOMAIN q.options /\ 1 \in DOMAIN q.options
  BY NotEmpty DEF Columns, Askable
<1>2. ASSUME NEW x, AnswerTo(q, x)
      PROVE  /\ Meaning(q, x) = x
             /\ \/ x = Null /\ \A k \in DOMAIN q.options : Cells(q, x)[k] = Null
                \/ /\ x # Null /\ x = [list |-> x.list] /\ IsList(x.list) /\ ToSet(x.list) = ids
                   /\ \A k \in DOMAIN q.options : \E i \in DOMAIN x.list :
                         x.list[i] = q.options[k].id /\ Cells(q, x)[k] = Num(i)
  <2>1. Meaning(q, x) = x
    BY DEF Meaning
  <2>2. CASE x = Null
    BY <1>1, <2>1, <2>2 DEF Cells
  <2>3. CASE x # Null
    <3>1. x = [list |-> x.list] /\ IsList(x.list) /\ IsInjective(x.list) /\ ToSet(x.list) = ids
      BY <1>2, <2>3 DEF AnswerTo
    <3>2. Cells(q, x) = [k \in DOMAIN q.options |-> RankOf(q, x.list, k)]
      BY <2>3 DEF Cells
    <3>3. ASSUME NEW k \in DOMAIN q.options
          PROVE  \E i \in DOMAIN x.list : x.list[i] = q.options[k].id /\ Cells(q, x)[k] = Num(i)
      <4>1. q.options[k].id \in ToSet(x.list)
        BY <3>1
      <4>2. Contains(x.list, q.options[k].id)
        BY <3>1, <4>1, Containing
      <4> DEFINE i == CHOOSE j \in DOMAIN x.list : x.list[j] = q.options[k].id
      <4>3. i \in DOMAIN x.list /\ x.list[i] = q.options[k].id
        BY <4>1 DEF ToSet
      <4>4. Cells(q, x)[k] = Num(i)
        BY <3>2, <4>2 DEF RankOf
      <4> QED BY <4>3, <4>4
    <3> QED BY <2>1, <2>3, <3>1, <3>3
  <2> QED BY <2>2, <2>3
<1>3. \A x, y : Num(x) # Null /\ (Num(x) = Num(y) => x = y)
  BY NullIsNone
<1>4. CASE a = Null \/ b = Null
  <2>1. Cells(q, a)[1] # Cells(q, b)[1]
    BY <1>1, <1>2, <1>3, <1>4
  <2> QED BY <1>1, <2>1 DEF CellsTell
<1>5. CASE a # Null /\ b # Null
  <2>1. a.list # b.list /\ IsList(a.list) /\ IsList(b.list)
    BY <1>2, <1>5
  <2>2. SUFFICES ASSUME \A k \in DOMAIN q.options : Cells(q, a)[k] = Cells(q, b)[k] PROVE FALSE
    BY <1>1 DEF CellsTell
  <2>3. ASSUME NEW k \in DOMAIN q.options
        PROVE  \E i : /\ i \in DOMAIN a.list /\ i \in DOMAIN b.list
                      /\ a.list[i] = q.options[k].id /\ b.list[i] = q.options[k].id
    BY <1>2, <1>3, <1>5, <2>2
  <2>4. ToSet(a.list) = ids /\ ToSet(b.list) = ids
    BY <1>2, <1>5
  <2>5. IsInjective(a.list) /\ IsInjective(b.list)
    BY <1>5 DEF AnswerTo
  <2>6. \A i \in DOMAIN a.list : \E k \in DOMAIN q.options : a.list[i] = q.options[k].id
    BY <2>4 DEF ToSet
  <2>7. \A i \in DOMAIN b.list : \E k \in DOMAIN q.options : b.list[i] = q.options[k].id
    BY <2>4 DEF ToSet
  <2>8. \A i \in DOMAIN a.list : i \in DOMAIN b.list /\ b.list[i] = a.list[i]
    BY <2>3, <2>5, <2>6 DEF IsInjective
  <2>9. \A i \in DOMAIN b.list : i \in DOMAIN a.list
    BY <2>3, <2>5, <2>7 DEF IsInjective
  <2>10. a.list = b.list
    BY <2>1, <2>8, <2>9, ListsAgree
  <2> QED BY <2>1, <2>10
<1> QED BY <1>4, <1>5

LEMMA ColumnsTell ==
  ASSUME NEW q, Askable(q), Faithful(q), NEW a, NEW b, AnswerTo(q, a), AnswerTo(q, b),
         Meaning(q, a) # Meaning(q, b)
  PROVE  CellsTell(q, a, b)
<1>1. q.type \in {"scale", "likert", "choice", "consent", "text", "multiple_choice", "matrix",
                  "ranking", "preference_test"}
  BY DEF Askable, Faithful
<1> QED BY <1>1, ScaleTells, LikertTells, ChoiceTells, ConsentTells, PreferenceTells, ChoicesTell,
           MatrixTells, RankingTells
-----------------------------------------------------------------------------
(* The columns of a question, among the variables of a dataset. *)
LEMMA MiddleInjective ==
  ASSUME NEW S, NEW u \in Seq(S), NEW v \in Seq(S), NEW w \in Seq(S), IsInjective(u \o v \o w)
  PROVE  IsInjective(v) /\ \A i \in DOMAIN u, k \in DOMAIN v : u[i] # v[k]
<1> DEFINE all == u \o v \o w
<1>1. /\ \A i \in DOMAIN u : i \in DOMAIN all /\ all[i] = u[i]
      /\ \A k \in DOMAIN v : Len(u) + k \in DOMAIN all /\ all[Len(u) + k] = v[k]
  OBVIOUS
<1>2. \A i \in DOMAIN u, k \in DOMAIN v : i # Len(u) + k
  OBVIOUS
<1>3. \A j, k \in DOMAIN v : Len(u) + j = Len(u) + k => j = k
  OBVIOUS
<1> HIDE DEF all
<1>4. \A i, j \in DOMAIN all : all[i] = all[j] => i = j
  BY DEF IsInjective, all
<1>5. ASSUME NEW j \in DOMAIN v, NEW k \in DOMAIN v, v[j] = v[k] PROVE j = k
  BY <1>1, <1>3, <1>4, <1>5
<1>6. ASSUME NEW i \in DOMAIN u, NEW k \in DOMAIN v PROVE u[i] # v[k]
  BY <1>1, <1>2, <1>4
<1> QED BY <1>5, <1>6 DEF IsInjective

LEMMA ColumnsList ==
  ASSUME NEW q, Askable(q) PROVE Sequence(Columns(q))
<1>1. Len(q.options) \in Nat /\ DOMAIN q.options = 1 .. Len(q.options)
  BY ListDomain DEF Askable
<1>2. Len(q.rows) \in Nat /\ DOMAIN q.rows = 1 .. Len(q.rows)
  BY ListDomain DEF Askable
<1>3. ASSUME NEW n \in Nat, DOMAIN Columns(q) = 1 .. n, Columns(q) = [k \in 1 .. n |-> Columns(q)[k]]
      PROVE  Sequence(Columns(q))
  <2> DEFINE c == Columns(q)
  <2>1. c = [k \in 1 .. n |-> c[k]]
    BY <1>3
  <2> HIDE DEF c
  <2>2. c \in Seq({c[k] : k \in 1 .. n})
    BY <2>1
  <2> QED BY <2>2 DEF Sequence, c
<1>4. CASE q.type \in {"scale", "likert", "choice", "consent", "text"}
  <2>1. Columns(q) = << <<q.code>> >>
    BY <1>4 DEF Columns
  <2>2. << <<q.code>> >> \in Seq({<<q.code>>})
    OBVIOUS
  <2> QED BY <2>1, <2>2 DEF Sequence
<1>5. CASE q.type \in {"multiple_choice", "ranking"}
  <2>1. DOMAIN Columns(q) = 1 .. Len(q.options) /\ Columns(q) = [k \in 1 .. Len(q.options) |-> Columns(q)[k]]
    BY <1>1, <1>5 DEF Columns
  <2> QED BY <1>1, <1>3, <2>1
<1>6. CASE q.type = "matrix"
  <2>1. DOMAIN Columns(q) = 1 .. Len(q.rows) /\ Columns(q) = [k \in 1 .. Len(q.rows) |-> Columns(q)[k]]
    BY <1>2, <1>6 DEF Columns
  <2> QED BY <1>2, <1>3, <2>1
<1>7. CASE q.type = "preference_test"
  <2>1. Columns(q) = << <<q.code, "selected">>, <<q.code, "asset">>, <<q.code, "order">> >>
    BY <1>7 DEF Columns
  <2>2. << <<q.code, "selected">>, <<q.code, "asset">>, <<q.code, "order">> >>
          \in Seq({<<q.code, "selected">>, <<q.code, "asset">>, <<q.code, "order">>})
    OBVIOUS
  <2> QED BY <2>1, <2>2 DEF Sequence
<1>8. CASE q.type \in {"first_click", "prototype_test"}
  <2>1. Columns(q) = <<>> /\ <<>> \in Seq({})
    BY <1>8 DEF Columns
  <2> QED BY <2>1 DEF Sequence
<1> QED BY <1>4, <1>5, <1>6, <1>7, <1>8 DEF Askable

LEMMA VariablesTell ==
  ASSUME NEW q, Askable(q), IsInjective(Variables(q))
  PROVE  IsInjective(Columns(q)) /\ \A k \in DOMAIN Columns(q) : Columns(q)[k] # Key
<1>1. PICK S : Columns(q) \in Seq(S)
  BY ColumnsList DEF Sequence
<1> DEFINE c == Columns(q)
<1> DEFINE T == S \cup ToSet(BaseVars) \cup ToSet(PanelistVars)
<1>2. BaseVars \in Seq(T) /\ PanelistVars \in Seq(T) /\ DOMAIN BaseVars = 1 .. 4 /\ BaseVars[1] = Key
  BY DEF BaseVars, PanelistVars, ToSet, Key
<1>3. c \in Seq(T)
  BY <1>1
<1>4. IsInjective(BaseVars \o c \o PanelistVars)
  BY DEF Variables
<1> HIDE DEF c, T
<1>5. IsInjective(c) /\ \A i \in DOMAIN BaseVars, k \in DOMAIN c : BaseVars[i] # c[k]
  BY <1>2, <1>3, <1>4, MiddleInjective
<1>6. \A k \in DOMAIN c : c[k] # Key
  BY <1>2, <1>5
<1> QED BY <1>5, <1>6 DEF c

LEMMA RowsTell ==
  ASSUME NEW q, Askable(q), IsInjective(Variables(q)),
         NEW found, NEW given, \A k \in DOMAIN found : AnswerTo(q, given[found[k]].answer),
         NEW v, v.rows = RowsFrom(q, found, given), v.question = q
  PROVE  ToldApart(v, given)
<1> DEFINE said(x) == given[found[x]].answer
<1>1. IsInjective(Columns(q)) /\ \A k \in DOMAIN Columns(q) : Columns(q)[k] # Key
  BY VariablesTell
<1>2. DOMAIN v.rows = DOMAIN found
  BY DEF RowsFrom
<1>3. ASSUME NEW x \in DOMAIN found
      PROVE  /\ v.rows[x][Key].num = found[x]
             /\ \A k \in DOMAIN Columns(q) : v.rows[x][Columns(q)[k]] = Cells(q, said(x))[k]
  <2>1. v.rows[x] = [c \in {Key} \cup ToSet(Columns(q)) |->
            IF c = Key THEN Num(found[x])
            ELSE Cells(q, said(x))[CHOOSE j \in DOMAIN Columns(q) : Columns(q)[j] = c]]
    BY DEF RowsFrom
  <2> HIDE DEF said
  <2>2. v.rows[x][Key] = Num(found[x])
    BY <2>1
  <2>3. ASSUME NEW k \in DOMAIN Columns(q) PROVE v.rows[x][Columns(q)[k]] = Cells(q, said(x))[k]
    <3> DEFINE j == CHOOSE i \in DOMAIN Columns(q) : Columns(q)[i] = Columns(q)[k]
    <3>1. j = k
      BY <1>1 DEF IsInjective
    <3>2. Columns(q)[k] # Key /\ Columns(q)[k] \in ToSet(Columns(q))
      BY <1>1 DEF ToSet
    <3>3. v.rows[x][Columns(q)[k]] = Cells(q, said(x))[j]
      BY <2>1, <3>2
    <3> QED BY <3>1, <3>3
  <2> QED BY <2>2, <2>3 DEF Num
<1>4. ASSUME Faithful(q), NEW x \in DOMAIN v.rows, NEW y \in DOMAIN v.rows,
             Meaning(q, given[v.rows[x][Key].num].answer) # Meaning(q, given[v.rows[y][Key].num].answer)
      PROVE  \E c \in ToSet(Columns(q)) : v.rows[x][c] # v.rows[y][c]
  <2>1. Meaning(q, said(x)) # Meaning(q, said(y)) /\ AnswerTo(q, said(x)) /\ AnswerTo(q, said(y))
    BY <1>2, <1>3, <1>4
  <2> HIDE DEF said
  <2>2. PICK k \in DOMAIN Columns(q) : Cells(q, said(x))[k] # Cells(q, said(y))[k]
    BY <1>4, <2>1, ColumnsTell DEF CellsTell
  <2>3. v.rows[x][Columns(q)[k]] # v.rows[y][Columns(q)[k]]
    BY <1>2, <1>3, <2>2
  <2> QED BY <2>3 DEF ToSet
<1> QED BY <1>4 DEF ToldApart
-----------------------------------------------------------------------------
LEMMA InstrumentFits ==
  ASSUME NEW s \in Studies
  PROVE  /\ \E m \in Nat : m > 0 /\ Len(Instrument[s]) = m /\ DOMAIN Instrument[s] = 1 .. m
         /\ \A n \in DOMAIN Instrument[s] : /\ Askable(Instrument[s][n]) /\ NameOf(s, n) \in Names_
                                            /\ NameOf(s, n) # <<Derived, 0>>
                                            /\ \A a \in Answers[Instrument[s][n].type] : AnswerTo(Instrument[s][n], a)
<1>1. IsList(Instrument[s]) /\ Instrument[s] # <<>>
  BY InstrumentAssumption
<1> DEFINE f == Instrument[s]
<1>2. Len(f) \in Nat /\ f = [k \in 1 .. Len(f) |-> f[k]] /\ f # <<>>
  BY <1>1 DEF IsList
<1> HIDE DEF f
<1>3. DOMAIN f = 1 .. Len(f)
  BY <1>2
<1>4. Len(f) # 0
  <2>1. ASSUME Len(f) = 0 PROVE FALSE
    <3>1. f = [k \in {} |-> f[k]]
      BY <1>2, <2>1
    <3>2. f = <<>>
      BY <3>1
    <3> QED BY <1>2, <3>2
  <2> QED BY <2>1
<1>5. \A n \in DOMAIN f : n # 0
  BY <1>2, <1>3
<1>6. \A n \in DOMAIN f : /\ NameOf(s, n) \in Names_ /\ NameOf(s, n) # <<Derived, 0>>
  <2> SUFFICES ASSUME NEW n \in DOMAIN f PROVE NameOf(s, n) \in Names_ /\ NameOf(s, n) # <<Derived, 0>>
    OBVIOUS
  <2>1. NameOf(s, n) # <<Derived, 0>>
    BY <1>5 DEF NameOf
  <2> DEFINE T == {NameOf(s, m) : m \in DOMAIN Instrument[s]}
  <2>2. NameOf(s, n) \in T /\ T \in {{NameOf(x, m) : m \in DOMAIN Instrument[x]} : x \in Studies}
    BY DEF f
  <2>3. NameOf(s, n) \in Names_
    BY <2>2 DEF Names_
  <2> QED BY <2>1, <2>3
<1>7. \A n \in DOMAIN f : Askable(f[n]) /\ \A a \in Answers[f[n].type] : AnswerTo(f[n], a)
  BY InstrumentAssumption DEF f
<1>8. Len(f) \in Nat /\ Len(f) > 0
  BY <1>2, <1>4
<1> HIDE DEF f
<1>9. \E m \in Nat : m > 0 /\ Len(f) = m /\ DOMAIN f = 1 .. m
  BY <1>3, <1>8
<1> QED BY <1>6, <1>7, <1>9 DEF f

LEMMA ListSequence == ASSUME NEW f, IsList(f) PROVE Sequence(f)
<1>1. Len(f) \in Nat /\ f = [k \in 1 .. Len(f) |-> f[k]]
  BY DEF IsList
<1>2. f \in Seq({f[k] : k \in 1 .. Len(f)})
  BY <1>1
<1> QED BY <1>2 DEF Sequence

LEMMA DataInit == Init => DataFits
<1> SUFFICES ASSUME Init PROVE DataFits
  OBVIOUS
<1>1. /\ published = [s \in Studies |-> 1] /\ responses \in Started /\ datasets \in Built /\ refused = {}
      /\ \A r \in Requests : req[r] = NoRequest
  BY DEF Init, AnalysesInit, MembershipInit
<1>2. \A s \in Studies : published[s] \in DOMAIN Instrument[s]
  <2> SUFFICES ASSUME NEW s \in Studies PROVE 1 \in DOMAIN Instrument[s]
    BY <1>1
  <2> QED BY InstrumentFits
<1>3. GivenFits(responses)
  BY <1>1, StartedAssumption, ListSequence DEF GivenFits, ResponseFits
<1>4. DatasetsFit(datasets, responses)
  <2>1. DOMAIN datasets = Names_ /\ datasets[<<Derived, 0>>] = <<>>
    BY <1>1, BuiltAssumption
  <2>2. ASSUME NEW name \in Names_
        PROVE  /\ Sequence(datasets[name])
               /\ \A k \in DOMAIN datasets[name] : /\ VersionFits(name, datasets[name][k], datasets, responses)
                                                   /\ Tells(datasets[name][k], responses)
    <3>1. Sequence(datasets[name])
      BY <1>1, BuiltAssumption, ListSequence
    <3>2. ASSUME NEW k \in DOMAIN datasets[name]
          PROVE  /\ VersionFits(name, datasets[name][k], datasets, responses)
                 /\ Tells(datasets[name][k], responses)
      <4> DEFINE v == datasets[name][k]
      <4>1. /\ DOMAIN v = VersionFields /\ v.kind = "built" /\ IsList(v.rows)
            /\ RowsOf(v, responses) /\ ToldApart(v, responses)
        BY <1>1, BuiltAssumption DEF VersionFields
      <4>2. name # <<Derived, 0>>
        BY <2>1
      <4>3. Sequence(v.rows)
        BY <4>1, ListSequence
      <4> QED BY <4>1, <4>2, <4>3 DEF VersionFits, Tells
    <3> QED BY <3>1, <3>2
  <2> QED BY <2>1, <2>2 DEF DatasetsFit
<1>5. \A r \in Requests : WorkFits(req[r], datasets, responses)
  BY <1>1 DEF WorkFits, NoRequest
<1>6. OneNumbers
  BY <1>1 DEF OneNumbers, At, NoRequest
<1> QED BY <1>1, <1>2, <1>3, <1>4, <1>5, <1>6 DEF DataFits
-----------------------------------------------------------------------------
LEMMA OrderDatasetStays ==
  ASSUME RequestsFit, DataFits, NEW r \in Requests, Request(r), OrderDataset(r), UNCHANGED dataVars
  PROVE  DataFits'
<1>1. PICK u, job : /\ Arrive(r, u, "datasets.create", job)
                    /\ \/ job[1] = "build" /\ job[2] \in Studies
                       \/ job[1] = "derive" /\ job[2] \in Names_ /\ job[3] \in DOMAIN datasets[job[2]]
  <2>1. CASE \E u \in Members, s \in Studies : Arrive(r, u, "datasets.create", <<"build", s>>)
    BY <2>1
  <2>2. CASE \E u \in Members, name \in Names_ : \E k \in Versions(name) :
              Arrive(r, u, "datasets.create", <<"derive", name, k>>)
    BY <2>2 DEF Versions
  <2> QED BY Zenon, <2>1, <2>2 DEF OrderDataset
<1>2. req'[r].job = job /\ req'[r].phase = "arrived"
  BY <1>1, ArriveUnlocked
<1>3. WorkFits(req'[r], datasets, responses)
  BY <1>1, <1>2 DEF WorkFits
<1> QED BY <1>2, <1>3, WorkStays DEF dataVars, DataFits

(* A transaction that is refused or hands on what it knows. *)
LEMMA EndsUnworked ==
  ASSUME RequestsFit, DataFits, NEW r \in Requests, Request(r), NEW why, Refuse(r, why), why # "number"
  PROVE  DataFits'
<1>1. req'[r].phase = "idle" /\ req'[r].phase # "numbered"
  BY EndsIdle DEF Refuse
<1>2. WorkFits(req'[r], datasets, responses)
  BY <1>1 DEF WorkFits
<1>3. UNCHANGED <<published, responses, datasets>> /\ "number" \notin refused'
  BY DEF Refuse, DataFits
<1> QED BY Zenon, <1>1, <1>2, <1>3, WorkStays

LEMMA StepStays ==
  ASSUME RequestsFit, DataFits, NEW r \in Requests, Request(r), req[r].phase # "idle",
         NEW p, NEW w, Step(r, p, w), UNCHANGED dataVars,
         NEW y, Onto(req[r], y, p) /\ y.work = w => WorkFits(y, datasets, responses),
         y = req'[r],
         p = "numbered" => \A s \in Requests : At(s, "numbered") => req[s].work.name # w.name
  PROVE  DataFits'
<1>1. Onto(req[r], req'[r], p) /\ (~Goes(r, p) => req'[r].work = w)
  BY GoesOnto DEF Step
<1>2. req'[r].work = w
  <2>1. Shaped(req[r]) /\ DOMAIN req = Requests
    BY BusyShaped DEF RequestsFit
  <2> QED BY Zenon, <2>1 DEF Step, Shaped
<1>3. req'[r].phase = p
  BY <1>1 DEF Onto
<1>4. WorkFits(req'[r], datasets, responses)
  BY <1>1, <1>2
<1> QED BY <1>2, <1>3, <1>4, WorkStays DEF dataVars, DataFits

LEMMA PickStays ==
  ASSUME RequestsFit, DataFits, NEW r \in Requests, Request(r), Pick(r)
  PROVE  DataFits'
<1>1. req[r].phase = "authorized" /\ req[r].job[1] = "build"
  BY Zenon DEF Pick, Works, At
<1>2. CASE Refuse(r, "not found")
  BY <1>2, EndsUnworked
<1>3. CASE Step(r, "picked", [of |-> published[req[r].job[2]]]) /\ UNCHANGED dataVars
  <2> DEFINE w == [of |-> published[req[r].job[2]]]
  <2>1. req[r].job[2] \in Studies
    BY <1>1 DEF DataFits, WorkFits
  <2>2. w.of \in DOMAIN Instrument[req[r].job[2]]
    BY <2>1 DEF DataFits
  <2> HIDE DEF w
  <2>3. ASSUME NEW y, Onto(req[r], y, "picked"), y.work = w PROVE WorkFits(y, datasets, responses)
    BY <1>1, <2>1, <2>2, <2>3 DEF WorkFits, Onto
  <2> QED BY <1>1, <1>3, <2>3, StepStays DEF w
<1> QED BY Zenon, <1>2, <1>3 DEF Pick
-----------------------------------------------------------------------------
(* A build is of the responses that are there.                                 *)
LEMMA DerivedNamed == <<Derived, 0>> \in Names_
  BY DEF Names_

LEMMA BuildFits ==
  ASSUME NEW given, GivenFits(given), NEW store, NEW s \in Studies, NEW n \in DOMAIN Instrument[s],
         NEW v, DOMAIN v = VersionFields, v.kind = "built", v.study = s, v.of = n,
         v.question = Instrument[s][n], v.variables = Variables(Instrument[s][n]),
         v.rows = RowsFrom(Instrument[s][n], Chosen(s, n, given), given)
  PROVE  /\ VersionFits(NameOf(s, n), v, store, given)
         /\ IsInjective(v.variables) => Tells(v, given)
<1> DEFINE found == Chosen(s, n, given)
<1> DEFINE q == Instrument[s][n]
<1>1. found = Chosen(s, n, given)
  OBVIOUS
<1> HIDE DEF found
<1>2. /\ \E m \in Nat : DOMAIN found = 1 .. m
      /\ \A k \in DOMAIN found : found[k] \in DOMAIN given /\ Included(given[found[k]], s, n)
      /\ \A j, k \in DOMAIN found : j # k => found[j] # found[k]
  <2>1. Sequence(given)
    BY DEF GivenFits
  <2> QED BY <1>1, <2>1, ChosenFits
<1>3. PICK m \in Nat : DOMAIN found = 1 .. m
  BY <1>2
<1>4. v.rows = RowsFrom(q, found, given)
  BY DEF found
<1>5. Askable(q) /\ NameOf(s, n) # <<Derived, 0>>
  BY InstrumentFits
<1> HIDE DEF q
<1>6. RowsOf(v, given) /\ Sequence(v.rows)
  BY <1>2, <1>3, <1>4, RowsFromRows
<1>7. VersionFits(NameOf(s, n), v, store, given)
  BY <1>5, <1>6 DEF VersionFits
<1>8. \A k \in DOMAIN found : AnswerTo(q, given[found[k]].answer)
  <2> SUFFICES ASSUME NEW k \in DOMAIN found PROVE AnswerTo(q, given[found[k]].answer)
    OBVIOUS
  <2>1. Included(given[found[k]], s, n) /\ ResponseFits(given[found[k]])
    BY <1>2 DEF GivenFits
  <2>2. Ended(given[found[k]])
    BY <2>1 DEF Included, ResponseFits
  <2> QED BY <2>1, <2>2 DEF Included, Ended, q
<1>9. ASSUME IsInjective(v.variables) PROVE ToldApart(v, given)
  <2>1. IsInjective(Variables(q)) /\ v.question = q
    BY <1>9 DEF q
  <2> QED BY <1>4, <1>5, <1>8, <2>1, RowsTell
<1> QED BY <1>7, <1>9 DEF Tells

LEMMA LookStays ==
  ASSUME RequestsFit, DataFits, NEW r \in Requests, Request(r), Look(r)
  PROVE  DataFits'
<1> DEFINE s == req[r].job[2]
<1> DEFINE n == req[r].work.of
<1> DEFINE q == Instrument[s][n]
<1> DEFINE found == InOrder({i \in DOMAIN responses : Included(responses[i], s, n)})
<1> DEFINE v == [kind |-> "built", study |-> s, of |-> n, parent |-> <<>>, question |-> q,
                 variables |-> Variables(q), columns |-> Columns(q),
                 rows |-> [k \in DOMAIN found |-> RowOf(q, found[k])]]
<1> DEFINE w == [name |-> NameOf(s, n), seen |-> Len(datasets[NameOf(s, n)]), number |-> 0, content |-> v]
<1>1. req[r].phase = "picked"
  BY Zenon DEF Look, Works, At
<1>2. s \in Studies /\ n \in DOMAIN Instrument[s]
  BY <1>1 DEF DataFits, WorkFits
<1>3. CASE Refuse(r, "not found")
  BY <1>3, EndsUnworked
<1>4. CASE Step(r, "looked", w) /\ UNCHANGED dataVars
  <2>1. v.rows = RowsFrom(q, found, responses)
    BY DEF RowsFrom, RowOf
  <2>2. found = Chosen(s, n, responses)
    BY DEF Chosen
  <2>3. /\ DOMAIN v = VersionFields /\ v.kind = "built" /\ v.study = s /\ v.of = n
        /\ v.question = q /\ v.variables = Variables(q)
    BY DEF VersionFields
  <2>4. w.name = NameOf(s, n) /\ w.content = v /\ DOMAIN w = {"name", "seen", "number", "content"}
    OBVIOUS
  <2>5. NameOf(s, n) \in Names_
    BY <1>2, InstrumentFits
  <2> HIDE DEF v, w, found, n, s
  <2>6. VersionFits(NameOf(s, n), v, datasets, responses) /\ (IsInjective(v.variables) => Tells(v, responses))
    BY <1>2, <2>1, <2>2, <2>3, BuildFits DEF DataFits
  <2>7. /\ req[r].job[1] = "build" => req[r].job[2] \in Studies
        /\ req[r].job[1] = "derive" => req[r].job[2] \in Names_ /\ req[r].job[3] \in DOMAIN datasets[req[r].job[2]]
    BY <1>1 DEF DataFits, WorkFits
  <2>8. ASSUME NEW y, Onto(req[r], y, "looked"), y.work = w PROVE WorkFits(y, datasets, responses)
    BY <2>4, <2>5, <2>6, <2>7, <2>8 DEF WorkFits, Onto
  <2> QED BY <1>1, <1>4, <2>8, StepStays
<1> QED BY Zenon, <1>3, <1>4 DEF Look

LEMMA BeginStays ==
  ASSUME RequestsFit, DataFits, NEW r \in Requests, Request(r), Begin(r)
  PROVE  DataFits'
<1> DEFINE old == req[r].work
<1> DEFINE w == [old EXCEPT !.number = Number(old)]
<1>1. /\ req[r].phase = "looked"
      /\ \A s \in Requests : At(s, "numbered") => req[s].work.name # old.name
  BY Zenon DEF Begin, Works, At
<1>2. CASE \E why \in {"not found", "name", "variable"} : Refuse(r, why)
  BY <1>2, EndsUnworked
<1>3. CASE IsInjective(old.content.variables) /\ Step(r, "numbered", w) /\ UNCHANGED dataVars
  <2>1. WorkFits(req[r], datasets, responses)
    BY DEF DataFits
  <2>2. /\ old.name \in Names_ /\ VersionFits(old.name, old.content, datasets, responses)
        /\ DOMAIN old = {"name", "seen", "number", "content"} /\ Tells(old.content, responses)
    BY <1>1, <1>3, <2>1 DEF WorkFits
  <2>3. /\ w.name = old.name /\ w.content = old.content /\ DOMAIN w = DOMAIN old
        /\ w.number = Number(old)
    BY <2>2
  <2>4. Number(old) = Len(datasets[old.name]) + 1
    BY DEF Number
  <2> HIDE DEF w, old
  <2>5. ASSUME NEW y, Onto(req[r], y, "numbered"), y.work = w PROVE WorkFits(y, datasets, responses)
    BY <1>1, <2>1, <2>2, <2>3, <2>4, <2>5 DEF WorkFits, Onto
  <2> QED BY <1>1, <1>3, <2>3, <2>5, StepStays
<1> QED BY Zenon, <1>2, <1>3 DEF Begin

LEMMA InsertStays ==
  ASSUME RequestsFit, DataFits, NEW r \in Requests, Request(r), Insert(r)
  PROVE  DataFits'
<1> DEFINE w == req[r].work
<1> DEFINE name == w.name
<1> DEFINE v == w.content
<1>1. req[r].phase = "numbered"
  BY Zenon DEF Insert, Works, At
<1>2. WorkFits(req[r], datasets, responses)
  BY DEF DataFits
<1>3. /\ name \in Names_ /\ VersionFits(name, v, datasets, responses) /\ Tells(v, responses)
      /\ w.number = Len(datasets[name]) + 1
  BY <1>1, <1>2 DEF WorkFits
<1>4. w.number \notin Versions(name)
  <2>1. PICK S : datasets[name] \in Seq(S)
    BY <1>3 DEF DataFits, DatasetsFit, Sequence
  <2> QED BY <1>3, <2>1 DEF Versions
<1>5. CASE Refuse(r, "not found")
  BY <1>5, EndsUnworked
<1>6. CASE /\ datasets' = [datasets EXCEPT ![name] = Append(@, v)]
           /\ Ends(r) /\ UNCHANGED <<published, responses, recipes, runs, refused>>
  <2>1. /\ DatasetsFit(datasets', responses) /\ StoreGrows(datasets, datasets')
        /\ \A other \in Names_ : other # name => datasets'[other] = datasets[other]
    <3>1. DatasetsFit(datasets, responses)
      BY DEF DataFits
    <3>2. datasets' = [datasets EXCEPT ![name] = Append(datasets[name], v)]
      BY <1>6
    <3> HIDE DEF name, v
    <3>3. Longer(datasets, datasets', name, responses)
      BY <1>3, <3>1, <3>2, OneMore
    <3> QED BY <3>3 DEF Longer
  <2>2. \A s \in Requests : s # r => Alike(req[s], req'[s])
    BY OthersAlike
  <2>3. ASSUME NEW s \in Requests PROVE WorkFits(req'[s], datasets', responses)
    <3>1. CASE s = r
      <4>1. req'[s].phase = "idle"
        BY <1>6, <3>1, EndsIdle
      <4> QED BY <4>1 DEF WorkFits
    <3>2. CASE s # r
      <4>1. req[s].phase = "numbered" => req[s].work.name # name /\ req[s].work.name \in Names_
        BY <1>1, <3>2 DEF DataFits, OneNumbers, At, WorkFits
      <4>2. DOMAIN datasets = Names_ /\ WorkFits(req[s], datasets, responses)
        BY DEF DataFits, DatasetsFit
      <4> HIDE DEF name, w, v
      <4> QED BY <2>1, <2>2, <3>2, <4>1, <4>2, WorkLasts, GivenSame
    <3> QED BY <3>1, <3>2
  <2>4. req'[r].phase = "idle"
    BY <1>6, EndsIdle
  <2>5. OneNumbers'
    BY <2>2, <2>4 DEF DataFits, OneNumbers, At, Alike
  <2> QED BY <1>6, <2>1, <2>3, <2>5 DEF DataFits
<1> QED BY Zenon, <1>4, <1>5, <1>6 DEF Insert

LEMMA DeriveStays ==
  ASSUME RequestsFit, DataFits, NEW r \in Requests, Request(r), Derive(r)
  PROVE  DataFits'
<1> DEFINE from == Source(req[r].job[2], req[r].job[3])
<1>1. req[r].phase = "authorized" /\ req[r].job[1] = "derive"
  BY Zenon DEF Derive, Works, At
<1>2. req[r].job[2] \in Names_ /\ req[r].job[3] \in DOMAIN datasets[req[r].job[2]]
  BY <1>1 DEF DataFits, WorkFits
<1>3. VersionFits(req[r].job[2], from, datasets, responses)
  BY <1>2 DEF DataFits, DatasetsFit, Source
<1>4. CASE Refuse(r, "not found")
  BY <1>4, EndsUnworked
<1>5. ASSUME NEW rows \in SUBSET DOMAIN from.rows, NEW left, NEW columns, NEW kept1, NEW kept2,
             NEW w, UNCHANGED dataVars,
             w = [name |-> <<Derived, 0>>, seen |-> 0, number |-> 0,
                  content |-> [from EXCEPT
                       !.kind = "derived", !.parent = <<req[r].job[2], req[r].job[3]>>,
                       !.variables = kept1, !.columns = kept2,
                       !.rows = [k \in DOMAIN InOrder(rows) |->
                                    Project(from.rows[InOrder(rows)[k]], columns)]]],
             Step(r, "looked", w)
      PROVE  DataFits'
  <2> DEFINE picks == InOrder(rows)
  <2> DEFINE v == w.content
  <2>1. PICK m \in Nat : DOMAIN from.rows = 1 .. m
    BY <1>3 DEF VersionFits, Sequence
  <2>2. PICK c \in Nat : picks \in [1 .. c -> rows]
    <3>1. rows \subseteq 1 .. m
      BY <2>1
    <3> QED BY <3>1, InOrderLists
  <2> HIDE DEF picks
  <2>3. /\ DOMAIN v = VersionFields /\ v.kind = "derived"
        /\ v.parent = <<req[r].job[2], req[r].job[3]>>
        /\ v.rows = [k \in 1 .. c |-> Project(from.rows[picks[k]], columns)]
    BY <1>3, <1>5, <2>2 DEF VersionFits, VersionFields, picks
  <2>4. w.name = <<Derived, 0>> /\ DOMAIN w = {"name", "seen", "number", "content"}
    BY <1>5
  <2> HIDE DEF v
  <2>5. Sequence(v.rows)
    <3> DEFINE row(k) == Project(from.rows[picks[k]], columns)
    <3>1. v.rows = [k \in 1 .. c |-> row(k)]
      BY <2>3
    <3> HIDE DEF row
    <3>2. v.rows \in Seq({row(k) : k \in 1 .. c})
      BY <3>1
    <3> QED BY <3>2 DEF Sequence
  <2>6. DerivedOf(v, datasets)
    <3>1. \A x \in DOMAIN v.rows :
            picks[x] \in DOMAIN from.rows /\ v.rows[x] = Project(from.rows[picks[x]], DOMAIN v.rows[x])
      BY <2>2, <2>3 DEF Project
    <3>2. v.parent[1] = req[r].job[2] /\ v.parent[2] = req[r].job[3]
      BY <2>3
    <3> QED BY <1>2, <3>1, <3>2 DEF DerivedOf, Source
  <2>7. VersionFits(<<Derived, 0>>, v, datasets, responses) /\ Tells(v, responses)
    BY <2>3, <2>5, <2>6 DEF VersionFits, Tells
  <2>8. <<Derived, 0>> \in Names_
    BY DerivedNamed
  <2>9. ASSUME NEW y, Onto(req[r], y, "looked"), y.work = w PROVE WorkFits(y, datasets, responses)
    <3>1. y.job[1] = "derive" /\ y.job[2] \in Names_ /\ y.job[3] \in DOMAIN datasets[y.job[2]] /\ y.phase = "looked"
      BY <1>1, <1>2, <2>9 DEF Onto
    <3> QED BY <2>4, <2>7, <2>8, <2>9, <3>1 DEF WorkFits, v
  <2>10. req[r].phase # "idle" /\ Step(r, "looked", w) /\ UNCHANGED dataVars
    BY <1>1, <1>5
  <2> HIDE DEF from
  <2> QED BY <2>9, <2>10, StepStays
<1>6. CASE ~Hidden(r)
  <2> DEFINE without(l, s) == SelectSeq(s, LAMBDA c : c # l)
  <2>1. PICK rows \in SUBSET DOMAIN from.rows, left \in ToSet(from.columns) :
          /\ Step(r, "looked",
                  [name |-> <<Derived, 0>>, seen |-> 0, number |-> 0,
                   content |-> [from EXCEPT
                       !.kind = "derived", !.parent = <<req[r].job[2], req[r].job[3]>>,
                       !.variables = without(left, @), !.columns = without(left, @),
                       !.rows = [k \in DOMAIN InOrder(rows) |->
                                    Project(from.rows[InOrder(rows)[k]],
                                            ({Key} \cup ToSet(from.columns)) \ {left})]]])
          /\ UNCHANGED dataVars
    BY Zenon, <1>6 DEF Derive
  <2> HIDE DEF without
  <2> QED BY Zenon, <1>5, <2>1
<1> QED BY Zenon, <1>4, <1>6 DEF Derive
-----------------------------------------------------------------------------
(* Studies are published and respondents answer. *)
LEMMA FieldworkStays ==
  ASSUME DataFits, req' = req, UNCHANGED <<datasets, refused>>,
         DOMAIN published' = Studies, \A s \in Studies : published'[s] \in DOMAIN Instrument[s],
         GivenFits(responses'), GivenGrows(responses, responses')
  PROVE  DataFits'
<1>1. DatasetsFit(datasets, responses')
  BY StoreLasts DEF DataFits
<1>2. ASSUME NEW r \in Requests PROVE WorkFits(req[r], datasets, responses')
  <2>1. Alike(req[r], req[r])
    BY DEF Alike
  <2>2. DOMAIN datasets = Names_
    BY DEF DataFits, DatasetsFit
  <2>3. StoreGrows(datasets, datasets)
    BY <2>2, StoreSame
  <2>4. WorkFits(req[r], datasets, responses)
    BY DEF DataFits
  <2> QED BY <2>1, <2>2, <2>3, <2>4, WorkLasts
<1>3. OneNumbers'
  BY DEF DataFits, OneNumbers, At
<1> QED BY <1>1, <1>2, <1>3 DEF DataFits

LEMMA PublishStays == ASSUME DataFits, NEW s \in Studies, PublishNext(s), req' = req PROVE DataFits'
<1>1. /\ published[s] < Len(Instrument[s]) /\ published' = [published EXCEPT ![s] = @ + 1]
      /\ UNCHANGED <<responses, datasets, refused>>
  BY DEF PublishNext
<1>2. DOMAIN published = Studies /\ \A t \in Studies : published[t] \in DOMAIN Instrument[t]
  BY DEF DataFits
<1>3. published[s] + 1 \in DOMAIN Instrument[s]
  <2>1. PICK m \in Nat : Len(Instrument[s]) = m /\ DOMAIN Instrument[s] = 1 .. m
    BY InstrumentFits
  <2>2. \A x \in 1 .. m : x < m => x + 1 \in 1 .. m
    OBVIOUS
  <2> QED BY <1>1, <1>2, <2>1, <2>2
<1>4. DOMAIN published' = Studies /\ \A t \in Studies : published'[t] \in DOMAIN Instrument[t]
  BY <1>1, <1>2, <1>3
<1>5. GivenFits(responses) /\ GivenGrows(responses, responses)
  BY GivenSame DEF DataFits
<1>6. responses' = responses
  BY <1>1
<1>7. GivenFits(responses') /\ GivenGrows(responses, responses')
  BY <1>5, <1>6
<1> QED BY <1>1, <1>4, <1>7, FieldworkStays

LEMMA OneMoreGiven ==
  ASSUME NEW given, GivenFits(given), NEW x, ResponseFits(x), NEW now, now = Append(given, x)
  PROVE  GivenFits(now) /\ GivenGrows(given, now)
<1>1. PICK S : given \in Seq(S)
  BY DEF GivenFits, Sequence
<1>2. now \in Seq(S \cup {x})
  BY <1>1
<1>3. /\ DOMAIN now = DOMAIN given \cup {Len(given) + 1}
      /\ now[Len(given) + 1] = x /\ \A i \in DOMAIN given : now[i] = given[i]
  BY <1>1
<1>4. Sequence(now)
  BY <1>2 DEF Sequence
<1>5. ASSUME NEW i \in DOMAIN now PROVE ResponseFits(now[i])
  BY <1>3 DEF GivenFits
<1> QED BY <1>3, <1>4, <1>5 DEF GivenFits, GivenGrows

LEMMA StartStays == ASSUME DataFits, NEW s \in Studies, StartResponse(s), req' = req PROVE DataFits'
<1> DEFINE x == [study |-> s, version |-> published[s], status |-> "in_progress", answer |-> Null]
<1>1. responses' = Append(responses, x) /\ UNCHANGED <<published, datasets, refused>>
  BY DEF StartResponse
<1>2. ResponseFits(x)
  BY DEF DataFits, ResponseFits
<1> HIDE DEF x
<1>3. GivenFits(responses') /\ GivenGrows(responses, responses')
  BY <1>1, <1>2, OneMoreGiven DEF DataFits
<1>4. DOMAIN published' = Studies /\ \A t \in Studies : published'[t] \in DOMAIN Instrument[t]
  BY <1>1 DEF DataFits
<1> QED BY <1>1, <1>3, <1>4, FieldworkStays

LEMMA EndStays == ASSUME DataFits, NEW i \in DOMAIN responses, EndResponse(i), req' = req PROVE DataFits'
<1> DEFINE q == Instrument[responses[i].study][responses[i].version]
<1>1. GivenFits(responses)
  BY DEF DataFits
<1>2. ResponseFits(responses[i]) /\ responses[i].status = "in_progress"
  BY <1>1 DEF EndResponse, GivenFits
<1>3. PICK a \in Answers[q.type], status \in {"completed", "disqualified"} :
        responses' = [responses EXCEPT ![i].status = status, ![i].answer = a]
  BY Zenon DEF EndResponse
<1> DEFINE x == [responses[i] EXCEPT !.status = status, !.answer = a]
<1>4. AnswerTo(q, a)
  <2>1. responses[i].study \in Studies /\ responses[i].version \in DOMAIN Instrument[responses[i].study]
    BY <1>2 DEF ResponseFits
  <2> QED BY <2>1, InstrumentFits
<1>5. /\ x.study = responses[i].study /\ x.version = responses[i].version
      /\ x.status = status /\ x.answer = a /\ DOMAIN x = DOMAIN responses[i]
  BY <1>2 DEF ResponseFits
<1>6. responses' = [responses EXCEPT ![i] = x]
  BY Zenon, <1>2, <1>3 DEF ResponseFits
<1> HIDE DEF x
<1>7. ResponseFits(x)
  BY <1>2, <1>4, <1>5 DEF ResponseFits, Ended
<1>8. GivenFits(responses')
  <2>1. PICK S : responses \in Seq(S)
    BY <1>1 DEF GivenFits, Sequence
  <2>2. responses' \in Seq(S \cup {x})
    BY <1>6, <2>1
  <2>3. Sequence(responses')
    BY <2>2 DEF Sequence
  <2>4. \A j \in DOMAIN responses' : ResponseFits(responses'[j])
    BY <1>1, <1>6, <1>7 DEF GivenFits
  <2> QED BY <2>3, <2>4 DEF GivenFits
<1>9. GivenGrows(responses, responses')
  BY <1>2, <1>6 DEF GivenGrows
<1>10. UNCHANGED <<published, datasets, refused>>
  BY DEF EndResponse
<1>11. DOMAIN published' = Studies /\ \A t \in Studies : published'[t] \in DOMAIN Instrument[t]
  BY <1>10 DEF DataFits
<1> QED BY <1>8, <1>9, <1>10, <1>11, FieldworkStays

LEMMA DataRests == ASSUME DataFits, req' = req, UNCHANGED dataVars PROVE DataFits'
<1>1. UNCHANGED <<published, datasets, responses, refused>>
  BY DEF dataVars
<1>2. GivenFits(responses') /\ GivenGrows(responses, responses')
  BY <1>1, GivenSame DEF DataFits
<1>3. DOMAIN published' = Studies /\ \A t \in Studies : published'[t] \in DOMAIN Instrument[t]
  BY <1>1 DEF DataFits
<1> QED BY <1>1, <1>2, <1>3, FieldworkStays

LEMMA RequestStays == ASSUME RequestsFit, DataFits, NEW r \in Requests, Request(r) PROVE DataFits'
<1>1. CASE UNCHANGED dataVars /\ (Administer(r) \/ OrderIdea(r) \/ OrderRun(r))
  BY <1>1, OrdersUnworked, UnworkedStays DEF dataVars
<1>2. CASE UNCHANGED dataVars /\ OrderDataset(r)
  BY <1>2, OrderDatasetStays
<1>3. CASE /\ UNCHANGED dataVars
           /\ Authorize(r) \/ Write(r) \/ Commit(r) \/ RollBack(r) \/ Handles(r)
  BY <1>3, HandlesUnworked, UnworkedStays DEF dataVars
<1>4. CASE Pick(r) \/ Look(r) \/ Begin(r) \/ Insert(r) \/ Derive(r)
  BY <1>4, PickStays, LookStays, BeginStays, InsertStays, DeriveStays
<1>5. CASE ReadRecipe(r) \/ Prepare(r)
  <2>1. CASE \E why \in {"not found"} : Refuse(r, why)
    BY <2>1, EndsUnworked
  <2>2. CASE UNCHANGED <<published, responses, datasets, refused>>
    BY <1>5, <2>2, HandlesUnworked, UnworkedStays
  <2> QED BY Zenon, <1>5, <2>1, <2>2 DEF ReadRecipe, Prepare, dataVars
<1>6. CASE Calls(r)
  <2>1. UNCHANGED <<published, responses, datasets, refused>>
    BY <1>6 DEF Calls, Answer, TimesOut, Returns, Again, Finalize, FinalizeFails, Dies, dataVars
  <2> QED BY <1>6, <2>1, HandlesUnworked, UnworkedStays
<1> QED BY <1>1, <1>2, <1>3, <1>4, <1>5, <1>6 DEF Request, Transacts

LEMMA DataStep == RequestsFit /\ DataFits /\ [Next]_vars => DataFits'
<1> SUFFICES ASSUME RequestsFit, DataFits, [Next]_vars PROVE DataFits'
  OBVIOUS
<1>1. CASE \E r \in Requests : Request(r)
  BY <1>1, RequestStays
<1>2. CASE Sessions /\ UNCHANGED dataVars
  BY <1>2, DataRests DEF Sessions, SignIn, SignOut
<1>3. CASE Fieldwork /\ UNCHANGED memberVars
  BY <1>3, PublishStays, StartStays, EndStays DEF Fieldwork, memberVars
<1>4. CASE \E u \in Members : Render(u) /\ UNCHANGED dataVars
  BY <1>4, DataRests DEF Render, memberVars
<1>5. CASE UNCHANGED <<memberVars, dataVars>>
  BY <1>5, DataRests DEF memberVars
<1> QED BY <1>1, <1>2, <1>3, <1>4, <1>5 DEF Next, vars
-----------------------------------------------------------------------------
(* One request moves, and its run with it. *)
LEMMA RunsBecome ==
  ASSUME RequestsFit, RunsFit, NEW r \in Requests, Request(r),
         Sequence(runs'), \A i \in DOMAIN runs' : RunFits(runs'[i]), WaitFits(req'[r], runs'),
         \A i \in DOMAIN runs : /\ i \in DOMAIN runs'
                                /\ runs'[i] = runs[i] \/ (Waits(req[r]) /\ i = req[r].work.run),
         Waits(req'[r]) => \/ Waits(req[r]) /\ req'[r].work.run = req[r].work.run
                           \/ req'[r].work.run \notin DOMAIN runs
  PROVE  RunsFit'
<1>1. \A s \in Requests : s # r => Alike(req[s], req'[s])
  BY OthersAlike
<1>2. ASSUME NEW s \in Requests PROVE WaitFits(req'[s], runs')
  <2>1. CASE s # r
    <3>1. WaitFits(req[s], runs) /\ (Waits(req[s]) /\ Waits(req[r]) => req[s].work.run # req[r].work.run)
      BY <2>1 DEF RunsFit, OneWaits
    <3>2. Alike(req[s], req'[s])
      BY <1>1, <2>1
    <3> QED BY <3>1, <3>2 DEF WaitFits, Waits, Alike
  <2> QED BY <2>1
<1>3. ASSUME NEW s \in Requests, s # r, Waits(req'[s]), Waits(req'[r])
      PROVE  req'[s].work.run # req'[r].work.run
  <2>1. Alike(req[s], req'[s])
    BY <1>1, <1>3
  <2>2. Waits(req[s]) /\ req'[s].work.run = req[s].work.run
    BY <1>3, <2>1 DEF Alike, Waits
  <2>3. req[s].work.run \in DOMAIN runs /\ (Waits(req[r]) => req[s].work.run # req[r].work.run)
    BY <1>3, <2>2 DEF RunsFit, WaitFits, OneWaits
  <2> QED BY <1>3, <2>2, <2>3
<1>4. ASSUME NEW s \in Requests, NEW t \in Requests, s # t, Waits(req'[s]), Waits(req'[t])
      PROVE  req'[s].work.run # req'[t].work.run
  <2>1. CASE s # r /\ t # r
    <3>1. Alike(req[s], req'[s]) /\ Alike(req[t], req'[t])
      BY <1>1, <2>1
    <3> QED BY <1>4, <3>1 DEF RunsFit, OneWaits, Alike, Waits
  <2> QED BY <1>3, <1>4, <2>1
<1> QED BY <1>2, <1>4 DEF RunsFit, OneWaits

(* It has no run, or ends. *)
LEMMA RunsStay ==
  ASSUME RequestsFit, RunsFit, NEW r \in Requests, Request(r), runs' = runs,
         Waits(req'[r]) => Waits(req[r]) /\ req'[r].work = req[r].work /\ req[r].phase # "calling"
  PROVE  RunsFit'
<1>1. WaitFits(req[r], runs) /\ Sequence(runs) /\ \A i \in DOMAIN runs : RunFits(runs[i])
  BY DEF RunsFit
<1>2. WaitFits(req'[r], runs)
  BY <1>1 DEF WaitFits, Waits
<1> QED BY <1>1, <1>2, RunsBecome

LEMMA ArrivesIdle ==
  ASSUME RequestsFit, NEW r \in Requests,
         Administer(r) \/ OrderDataset(r) \/ OrderRun(r) \/ OrderIdea(r)
  PROVE  ~Waits(req'[r])
<1>1. ASSUME NEW u, NEW action, NEW job, Arrive(r, u, action, job) PROVE ~Waits(req'[r])
  BY <1>1, ArriveUnlocked DEF Waits
<1>2. \E u, action, job : Arrive(r, u, action, job)
  BY Zenon DEF Administer, OrderDataset, OrderRun, OrderIdea
<1> QED BY <1>1, <1>2

LEMMA WorksOnto ==
  ASSUME RequestsFit, NEW r \in Requests, req[r].phase # "idle",
         Ends(r) \/ \E p, w : p \notin {"calling", "answered", "finalizing"} /\ (Goes(r, p) \/ Step(r, p, w))
  PROVE  ~Waits(req'[r])
<1>1. CASE Ends(r)
  BY <1>1, EndsIdle DEF Waits
<1>2. ASSUME NEW p, NEW w, p \notin {"calling", "answered", "finalizing"}, Goes(r, p) \/ Step(r, p, w)
      PROVE  ~Waits(req'[r])
  <2>1. Onto(req[r], req'[r], p)
    BY <1>2, GoesOnto DEF Step
  <2> QED BY <1>2, <2>1 DEF Onto, Waits
<1> QED BY <1>1, <1>2

LEMMA TransactsRun ==
  ASSUME RequestsFit, NEW r \in Requests,
         \/ Authorize(r) \/ Write(r) \/ Commit(r) \/ RollBack(r) \/ Handles(r)
         \/ Pick(r) \/ Look(r) \/ Begin(r) \/ Insert(r) \/ Derive(r) \/ ReadRecipe(r)
  PROVE  ~Waits(req'[r])
<1>1. CASE Authorize(r) \/ Write(r) \/ RollBack(r)
  <2>1. Ends(r) \/ Goes(r, "authorized") \/ Goes(r, "written")
    BY <1>1 DEF Authorize, Write, RollBack
  <2>2. req[r].phase # "idle"
    BY <1>1 DEF Authorize, Write, RollBack, At
  <2> QED BY Zenon, <2>1, <2>2, WorksOnto
<1>2. CASE Commit(r)
  <2>1. req'[r] = NoRequest
    BY <1>2 DEF Commit, Witnessed, RequestsFit, NoRequest
  <2> QED BY <2>1 DEF Waits, NoRequest
<1>3. CASE Handles(r)
  <2>1. Ends(r) \/ \E p \in {"checked", "holding"} : Goes(r, p) \/ \E w : Step(r, p, w)
    BY Zenon, <1>3 DEF Handles, CreateFeatureRequest, CheckOwner, LockIdea, WriteIdea, IdeaDies,
       Throws, Stores, Step
  <2>2. req[r].phase # "idle"
    BY Zenon, <1>3 DEF Handles, CreateFeatureRequest, CheckOwner, LockIdea, WriteIdea, IdeaDies,
       Works, At
  <2> QED BY <2>1, <2>2, WorksOnto
<1>4. CASE Pick(r) \/ Look(r) \/ Begin(r) \/ Insert(r) \/ Derive(r)
  <2>1. Ends(r) \/ \E p \in {"picked", "looked", "numbered"} : \E w : Step(r, p, w)
    BY Zenon, <1>4 DEF Pick, Look, Begin, Insert, Derive, Refuse
  <2>2. req[r].phase # "idle"
    BY Zenon, <1>4 DEF Pick, Look, Begin, Insert, Derive, Works, At
  <2> QED BY <2>1, <2>2, WorksOnto
<1>5. CASE ReadRecipe(r)
  <2>1. Shaped(req[r])
    <3>1. req[r].phase = "authorized"
      BY Zenon, <1>5 DEF ReadRecipe, Works, At
    <3> QED BY <3>1, BusyShaped
  <2>2. CASE Ends(r)
    BY <2>2, EndsIdle DEF Waits
  <2>3. CASE ~Ends(r)
    <3>1. req'[r] = [req[r] EXCEPT !.phase = "arrived", !.job[1] = "run",
                                   !.lawful = Allowed(req[r].by, req[r].action)]
      BY Zenon, <1>5, <2>3 DEF ReadRecipe, Refuse, RequestsFit
    <3> QED BY <2>1, <3>1 DEF Waits, Shaped
  <2> QED BY <2>2, <2>3
<1> QED BY <1>1, <1>2, <1>3, <1>4, <1>5

LEMMA PrepareRuns ==
  ASSUME RequestsFit, RunsFit, NEW r \in Requests, Request(r), Prepare(r) PROVE RunsFit'
<1>1. req[r].phase = "authorized"
  BY Zenon DEF Prepare, Works, At
<1>2. CASE Refuse(r, "not found")
  <2>1. ~Waits(req'[r])
    BY <1>2, EndsIdle DEF Refuse, Waits
  <2> QED BY <1>2, <2>1, RunsStay DEF Refuse
<1>3. ASSUME NEW name, NEW recipe, Step(r, "calling", [run |-> Len(runs) + 1]),
             runs' = Append(runs, [of |-> name, recipe |-> recipe, status |-> "running", verdict |-> "none"])
      PROVE  RunsFit'
  <2> DEFINE x == [of |-> name, recipe |-> recipe, status |-> "running", verdict |-> "none"]
  <2> DEFINE w == [run |-> Len(runs) + 1]
  <2>1. PICK S : runs \in Seq(S)
    BY DEF RunsFit, Sequence
  <2>2. RunFits(x) /\ x.status = "running" /\ w.run = Len(runs) + 1
    BY DEF RunFits
  <2>3. Onto(req[r], req'[r], "calling") /\ req'[r].work = w
    <3>1. Onto(req[r], req'[r], "calling")
      BY <1>1, <1>3, GoesOnto DEF Step
    <3>2. Shaped(req[r]) /\ DOMAIN req = Requests
      BY <1>1, BusyShaped DEF RequestsFit
    <3> QED BY Zenon, <1>3, <3>1, <3>2 DEF Step, Shaped
  <2> HIDE DEF x, w
  <2>4. runs' = Append(runs, x)
    BY <1>3 DEF x
  <2>5. runs' \in Seq(S \cup {x})
    BY <2>1, <2>4
  <2>6. /\ Sequence(runs') /\ DOMAIN runs' = DOMAIN runs \cup {Len(runs) + 1}
        /\ runs'[Len(runs) + 1] = x /\ \A i \in DOMAIN runs : runs'[i] = runs[i]
        /\ Len(runs) + 1 \notin DOMAIN runs
    BY <2>1, <2>4, <2>5 DEF Sequence
  <2>7. \A i \in DOMAIN runs' : RunFits(runs'[i])
    BY <2>2, <2>6 DEF RunsFit
  <2>8. WaitFits(req'[r], runs')
    BY <2>2, <2>3, <2>6 DEF WaitFits, Onto
  <2> QED BY <2>2, <2>3, <2>6, <2>7, <2>8, RunsBecome
<1> QED BY Zenon, <1>2, <1>3 DEF Prepare

LEMMA OneItemChanges ==
  ASSUME NEW S, NEW s \in Seq(S), NEW i \in DOMAIN s, NEW x
  PROVE  [s EXCEPT ![i] = x] \in Seq(S \cup {x})
  OBVIOUS

(* The run of the request is the only one that changes. *)
LEMMA RunChanges ==
  ASSUME RequestsFit, RunsFit, NEW r \in Requests, Request(r), Waits(req[r]),
         NEW x, RunFits(x), runs' = [runs EXCEPT ![req[r].work.run] = x],
         Waits(req'[r]) => /\ req'[r].work = req[r].work /\ x.status = "running"
                           /\ x.verdict \in {"ok", "error", "timeout"}
  PROVE  RunsFit'
<1> DEFINE n == req[r].work.run
<1>1. PICK S : runs \in Seq(S)
  BY DEF RunsFit, Sequence
<1>2. n \in DOMAIN runs
  BY DEF RunsFit, WaitFits
<1>3. runs' = [runs EXCEPT ![n] = x]
  OBVIOUS
<1> HIDE DEF n
<1>4. runs' \in Seq(S \cup {x})
  <2>1. [runs EXCEPT ![n] = x] \in Seq(S \cup {x})
    BY <1>1, <1>2, OneItemChanges
  <2> QED BY Zenon, <1>3, <2>1
<1>5. /\ DOMAIN runs' = DOMAIN runs /\ runs'[n] = x
      /\ \A i \in DOMAIN runs : i # n => runs'[i] = runs[i]
  BY <1>2, <1>3
<1>6. Sequence(runs') /\ \A i \in DOMAIN runs' : RunFits(runs'[i])
  BY <1>4, <1>5 DEF Sequence, RunsFit
<1>7. WaitFits(req'[r], runs')
  BY <1>2, <1>5 DEF WaitFits, n
<1> QED BY <1>5, <1>6, <1>7, RunsBecome DEF n

LEMMA ReturnRuns ==
  ASSUME RequestsFit, RunsFit, NEW r \in Requests, Request(r),
         NEW verdict \in {"ok", "error", "timeout"}, Returns(r, verdict) PROVE RunsFit'
<1> DEFINE x == [runs[req[r].work.run] EXCEPT !.verdict = verdict]
<1>1. req[r].phase = "calling" /\ Waits(req[r])
  BY DEF Returns, Works, At, Waits
<1>2. /\ req[r].work.run \in DOMAIN runs /\ RunFits(runs[req[r].work.run])
      /\ runs[req[r].work.run].status = "running"
  BY <1>1 DEF RunsFit, WaitFits
<1>3. RunFits(x) /\ x.status = "running" /\ x.verdict = verdict
  BY <1>2 DEF RunFits
<1>4. runs' = [runs EXCEPT ![req[r].work.run] = x]
  BY Zenon, <1>2 DEF Returns
<1>5. req'[r].work = req[r].work
  <2>1. Shaped(req[r]) /\ DOMAIN req = Requests
    BY <1>1, BusyShaped DEF RequestsFit
  <2>2. req'[r] = [req[r] EXCEPT !.phase = "answered", !.lawful = Allowed(req[r].by, req[r].action)]
    BY Zenon, <2>1 DEF Returns
  <2> QED BY <2>1, <2>2 DEF Shaped
<1> HIDE DEF x
<1> QED BY <1>1, <1>3, <1>4, <1>5, RunChanges

LEMMA FinalizeRuns ==
  ASSUME RequestsFit, RunsFit, NEW r \in Requests, Request(r), Finalize(r) PROVE RunsFit'
<1> DEFINE old == runs[req[r].work.run]
<1> DEFINE x == [old EXCEPT !.status = IF old.verdict = "ok" THEN "succeeded" ELSE "failed"]
<1>1. req[r].phase = "finalizing" /\ Waits(req[r]) /\ Ends(r)
  BY DEF Finalize, Works, At, Waits
<1>2. req'[r].phase = "idle" /\ ~Waits(req'[r])
  BY <1>1, EndsIdle DEF Waits
<1>3. CASE runs' = runs
  BY <1>2, <1>3, RunsStay
<1>4. CASE runs' # runs
  <2>1. req[r].work.run \in DOMAIN runs /\ RunFits(old) /\ old.verdict \in {"ok", "error", "timeout"}
    BY <1>1 DEF RunsFit, WaitFits
  <2>2. RunFits(x)
    BY <2>1 DEF RunFits
  <2>3. runs' = [runs EXCEPT ![req[r].work.run] = x]
    BY Zenon, <1>4, <2>1 DEF Finalize, Abandoned
  <2> HIDE DEF x
  <2> QED BY <1>1, <1>2, <2>2, <2>3, RunChanges
<1> QED BY <1>3, <1>4

LEMMA CallsRun ==
  ASSUME RequestsFit, RunsFit, NEW r \in Requests, Request(r),
         Again(r) \/ FinalizeFails(r) \/ Dies(r) PROVE RunsFit'
<1>1. runs' = runs
  BY DEF Again, FinalizeFails, Dies, Abandoned, dataVars
<1>2. CASE Ends(r)
  <2>1. ~Waits(req'[r])
    BY <1>2, EndsIdle DEF Waits
  <2> QED BY <1>1, <2>1, RunsStay
<1>3. CASE ~Ends(r)
  <2>1. req[r].phase = "answered" /\ Goes(r, "finalizing")
    BY <1>3 DEF Again, FinalizeFails, Dies, Works, At
  <2>2. req'[r].work = req[r].work
    BY <2>1, GoesOnto
  <2> QED BY <1>1, <2>1, <2>2, RunsStay DEF Waits
<1> QED BY <1>2, <1>3

LEMMA RunsRest == ASSUME RunsFit, req' = req, runs' = runs PROVE RunsFit'
  BY DEF RunsFit, OneWaits

LEMMA RunsInit == Init => RunsFit
<1> SUFFICES ASSUME Init PROVE RunsFit
  OBVIOUS
<1>1. runs = <<>> /\ \A r \in Requests : req[r] = NoRequest
  BY DEF Init, AnalysesInit, MembershipInit
<1>2. <<>> \in Seq({}) /\ DOMAIN <<>> = {}
  OBVIOUS
<1> QED BY <1>1, <1>2 DEF RunsFit, Sequence, WaitFits, Waits, OneWaits, NoRequest

LEMMA RequestRuns == ASSUME RequestsFit, RunsFit, NEW r \in Requests, Request(r) PROVE RunsFit'
<1>1. CASE UNCHANGED dataVars /\ (Administer(r) \/ OrderDataset(r) \/ OrderIdea(r) \/ OrderRun(r))
  BY <1>1, ArrivesIdle, RunsStay DEF dataVars
<1>2. CASE /\ runs' = runs
           /\ \/ Authorize(r) \/ Write(r) \/ Commit(r) \/ RollBack(r) \/ Handles(r)
              \/ Pick(r) \/ Look(r) \/ Begin(r) \/ Insert(r) \/ Derive(r) \/ ReadRecipe(r)
  BY <1>2, TransactsRun, RunsStay
<1>3. CASE Prepare(r)
  BY <1>3, PrepareRuns
<1>4. CASE Calls(r)
  BY <1>4, ReturnRuns, FinalizeRuns, CallsRun DEF Calls, Answer, TimesOut
<1>5. Pick(r) \/ Look(r) \/ Begin(r) \/ Insert(r) \/ Derive(r) \/ ReadRecipe(r) => runs' = runs
  BY Zenon DEF Pick, Look, Begin, Insert, Derive, ReadRecipe, Refuse, dataVars
<1> QED BY <1>1, <1>2, <1>3, <1>4, <1>5 DEF Request, Transacts, dataVars

LEMMA RunsStep == RequestsFit /\ RunsFit /\ [Next]_vars => RunsFit'
<1> SUFFICES ASSUME RequestsFit, RunsFit, [Next]_vars PROVE RunsFit'
  OBVIOUS
<1>1. CASE \E r \in Requests : Request(r)
  BY <1>1, RequestRuns
<1>2. CASE req' = req /\ runs' = runs
  BY <1>2, RunsRest
<1>3. \/ \E r \in Requests : Request(r) \/ (req' = req /\ runs' = runs)
      \/ req' = req /\ runs' = runs
  BY DEF Next, vars, Sessions, SignIn, SignOut, Fieldwork, PublishNext, StartResponse, EndResponse,
     Render, memberVars, dataVars
<1> QED BY <1>1, <1>2, <1>3
-----------------------------------------------------------------------------
LEMMA DataTells == DataFits /\ RunsFit => AnalyticsSound /\ AnswersToldApart
<1> SUFFICES ASSUME DataFits, RunsFit PROVE AnalyticsSound /\ AnswersToldApart
  OBVIOUS
<1>1. \A name \in Names_ : \A k \in DOMAIN datasets[name] :
        VersionFits(name, datasets[name][k], datasets, responses) /\ Tells(datasets[name][k], responses)
  BY DEF DataFits, DatasetsFit
<1>2. RowsOfStudyVersion
  BY <1>1 DEF RowsOfStudyVersion, Versions, VersionFits
<1>3. AnswersToldApart
  BY <1>1 DEF AnswersToldApart, Versions, Tells
<1>4. DerivedFromSource
  <2> SUFFICES ASSUME NEW k \in Versions(<<Derived, 0>>)
               PROVE  DerivedOf(datasets[<<Derived, 0>>][k], datasets)
    BY DEF DerivedFromSource, DerivedOf
  <2> QED BY <1>1, DerivedNamed DEF Versions, VersionFits
<1>5. NumbersNeverClash /\ StatusIsVerdict
  BY DEF DataFits, RunsFit, RunFits, NumbersNeverClash, StatusIsVerdict
<1> QED BY <1>2, <1>3, <1>4, <1>5 DEF AnalyticsSound

\* What analytics shows is true: a built version holds completed responses to its
\* study version, each once; a derived one holds rows of its source; two builds
\* never take one number; and a run ends as the service said (analytics/actions.ts,
\* datasets.ts).
THEOREM AnalyticsCorrect == Spec => []AnalyticsSound
<1> QED BY InitFits, StepKeeps, DataInit, DataStep, RunsInit, RunsStep, DataTells, PTL DEF Spec

\* Different answers make different rows, whatever the type of the question: the
\* columns of each type tell its answers apart (dataset-build.ts:68-199), and a
\* dataset whose variables are not all different is not created.
THEOREM ToldApartCorrect == Spec => []AnswersToldApart
<1> QED BY InitFits, StepKeeps, DataInit, DataStep, RunsInit, RunsStep, DataTells, PTL DEF Spec
-----------------------------------------------------------------------------
(* What the log of submissions says of a person, and of a visitor. *)
Mine(l, a) == {i \in DOMAIN l : Address[l[i].by] = a}
Mentions(l, a, f) == {i \in Mine(l, a) : f \in DOMAIN l[i].said}
IsLatest(i, S) == i \in S /\ \A j \in S : j <= i

PersonFits(x, l, a) ==
    /\ Mine(l, a) = {} \/ \E i : IsLatest(i, Mine(l, a)) /\ x.name = l[i].name
    /\ \A f \in DOMAIN x.attrs : \E i : IsLatest(i, Mentions(l, a, f)) /\ x.attrs[f] = l[i].said[f]

EnteredBy(x, f) == IF f \in DOMAIN x.answers THEN x.answers[f] ELSE ""

Thanked(x, l, v) ==
    x.phase \in {"stored", "done"} =>
        \E i \in DOMAIN l :
            /\ l[i].by = v /\ l[i].name = x.name
            /\ \A f \in DOMAIN l[i].said : l[i].said[f] = Normalized(f, EnteredBy(x, f))

LogFits ==
    /\ DOMAIN persons = {Address[v] : v \in Visitors}
    /\ \A a \in DOMAIN persons : PersonFits(persons[a], log, a)
    /\ \A v \in Visitors : Thanked(visitors[v], log, v)

LEMMA LatestIsMax ==
  ASSUME NEW S, S \subseteq Nat, NEW n, IsLatest(n, S) PROVE Max(S) = n
<1>1. n \in S /\ \A j \in S : n >= j
  BY DEF IsLatest
<1>2. Max(S) \in S /\ \A j \in S : Max(S) >= j
  BY <1>1 DEF Max
<1>3. Max(S) \in Nat /\ n \in Nat /\ Max(S) >= n /\ n >= Max(S)
  BY <1>1, <1>2
<1> QED BY <1>3

(* One more submission. *)
Adds(l, m, n, y) ==
    /\ n \in Nat /\ DOMAIN m = DOMAIN l \cup {n} /\ DOMAIN l \subseteq Nat /\ n \notin DOMAIN l
    /\ m[n] = y /\ \A i \in DOMAIN l : m[i] = l[i] /\ i <= n

LEMMA AppendAdds ==
  ASSUME NEW T, NEW l \in Seq(T), NEW y
  PROVE  Adds(l, Append(l, y), Len(l) + 1, y)
  BY DEF Adds

LEMMA OthersFit ==
  ASSUME NEW l, NEW m, NEW n, NEW y, Adds(l, m, n, y), NEW x, NEW a, Address[y.by] # a, PersonFits(x, l, a)
  PROVE  PersonFits(x, m, a)
<1>1. Mine(m, a) = Mine(l, a)
  BY DEF Mine, Adds
<1>2. \A f : Mentions(m, a, f) = Mentions(l, a, f)
  BY <1>1 DEF Mentions, Mine, Adds
<1>3. \A i : i \in Mine(l, a) => m[i] = l[i]
  BY DEF Mine, Adds
<1>4. \A f, i : i \in Mentions(l, a, f) => m[i] = l[i]
  BY DEF Mine, Mentions, Adds
<1> QED BY <1>1, <1>2, <1>3, <1>4 DEF PersonFits, IsLatest

LEMMA OneFits ==
  ASSUME NEW l, NEW m, NEW n, NEW y, Adds(l, m, n, y), NEW x, NEW a, Address[y.by] = a, PersonFits(x, l, a),
         NEW z, z.name = y.name, DOMAIN z.attrs = DOMAIN x.attrs \cup DOMAIN y.said,
         \A f \in DOMAIN z.attrs : z.attrs[f] = IF f \in DOMAIN y.said THEN y.said[f] ELSE x.attrs[f]
  PROVE  PersonFits(z, m, a)
<1>1. IsLatest(n, Mine(m, a))
  BY DEF IsLatest, Mine, Adds
<1>2. ASSUME NEW f \in DOMAIN y.said PROVE IsLatest(n, Mentions(m, a, f)) /\ m[n].said[f] = y.said[f]
  BY <1>1, <1>2 DEF IsLatest, Mine, Mentions, Adds
<1>3. ASSUME NEW f \in DOMAIN x.attrs, f \notin DOMAIN y.said
      PROVE  \E i : IsLatest(i, Mentions(m, a, f)) /\ x.attrs[f] = m[i].said[f]
  <2>1. Mentions(m, a, f) = Mentions(l, a, f)
    BY <1>3 DEF Mentions, Mine, Adds
  <2>2. PICK i : IsLatest(i, Mentions(l, a, f)) /\ x.attrs[f] = l[i].said[f]
    BY DEF PersonFits
  <2>3. m[i] = l[i]
    BY <2>2 DEF IsLatest, Mentions, Mine, Adds
  <2> QED BY <2>1, <2>2, <2>3
<1>4. z.name = m[n].name
  BY DEF Adds
<1> QED BY <1>1, <1>2, <1>3, <1>4 DEF PersonFits

LEMMA StillThanked ==
  ASSUME NEW l, NEW m, NEW n, NEW y, Adds(l, m, n, y), NEW x, NEW v, Thanked(x, l, v)
  PROVE  Thanked(x, m, v)
  BY DEF Thanked, Adds

LEMMA StoreLogs ==
  ASSUME LocksHold, LogFits, NEW v \in Visitors, StoreSubmission(v) PROVE LogFits'
<1> DEFINE p == visitors[v].page
<1> DEFINE asked == pages[p].questions
<1> DEFINE given == {f \in DOMAIN asked : Entered(v, f) # ""}
<1> DEFINE said == [f \in given |-> Normalized(f, Entered(v, f))]
<1> DEFINE a == Address[v]
<1> DEFINE y == [page |-> p, by |-> v, name |-> visitors[v].name, said |-> said]
<1> DEFINE z == [name |-> visitors[v].name,
                 attrs |-> [f \in DOMAIN persons[a].attrs \cup given |-> Kept(persons[a], said, f)]]
<1>1. CASE Becomes(v, [visitors[v] EXCEPT !.phase = "form"]) /\ UNCHANGED <<persons, log>>
  <2>1. \A w \in Visitors : Thanked(visitors'[w], log, w)
    <3> SUFFICES ASSUME NEW w \in Visitors PROVE Thanked(visitors'[w], log, w)
      OBVIOUS
    <3>1. visitors'[w] = visitors[w] \/ visitors'[w].phase = "form"
      BY <1>1 DEF Becomes, LocksHold, VisitorFits
    <3> QED BY <3>1 DEF LogFits, Thanked
  <2>2. persons' = persons /\ log' = log
    BY <1>1
  <2> QED BY <2>1, <2>2 DEF LogFits
<1>2. CASE /\ persons' = [persons EXCEPT ![a] = z] /\ log' = Append(log, y)
           /\ Becomes(v, [visitors[v] EXCEPT !.phase = "stored"])
  <2> DEFINE n == Len(log) + 1
  <2>1. Adds(log, log', n, y)
    BY <1>2, AppendAdds DEF LocksHold
  <2>2. y.by = v /\ y.name = visitors[v].name /\ y.said = said /\ DOMAIN said = given
    OBVIOUS
  <2>3. a \in DOMAIN persons
    BY DEF LogFits
  <2>4. z.name = y.name /\ DOMAIN z.attrs = DOMAIN persons[a].attrs \cup DOMAIN y.said
    BY <2>2
  <2>5. \A f \in DOMAIN z.attrs : z.attrs[f] = IF f \in DOMAIN y.said THEN y.said[f] ELSE persons[a].attrs[f]
    BY <2>2 DEF Kept
  <2>6. \A f \in DOMAIN y.said : y.said[f] = Normalized(f, EnteredBy(visitors[v], f))
    BY <2>2 DEF EnteredBy, Entered
  <2>7. DOMAIN persons' = DOMAIN persons /\ persons'[a] = z
        /\ \A b \in DOMAIN persons : b # a => persons'[b] = persons[b]
    BY <1>2, <2>3
  <2>8. /\ visitors'[v].phase = "stored" /\ visitors'[v].name = visitors[v].name
        /\ visitors'[v].answers = visitors[v].answers
        /\ \A w \in Visitors : w # v => visitors'[w] = visitors[w]
    BY <1>2 DEF Becomes, LocksHold, VisitorFits
  <2> HIDE DEF y, z, said, given, n, asked
  <2>9. ASSUME NEW b \in DOMAIN persons PROVE PersonFits(persons'[b], log', b)
    <3>1. PersonFits(persons[b], log, b)
      BY DEF LogFits
    <3>2. CASE b = a
      BY <2>1, <2>2, <2>4, <2>5, <2>7, <3>1, <3>2, OneFits
    <3>3. CASE b # a
      BY <2>1, <2>2, <2>7, <3>1, <3>3, OthersFit
    <3> QED BY <3>2, <3>3
  <2>10. ASSUME NEW w \in Visitors PROVE Thanked(visitors'[w], log', w)
    <3>1. CASE w # v
      <4>1. Thanked(visitors[w], log, w)
        BY DEF LogFits
      <4> QED BY <2>1, <2>8, <3>1, <4>1, StillThanked
    <3>2. CASE w = v
      <4>1. n \in DOMAIN log' /\ log'[n] = y
        BY <2>1 DEF Adds
      <4>2. \A f \in DOMAIN y.said : y.said[f] = Normalized(f, EnteredBy(visitors'[v], f))
        BY <2>6, <2>8 DEF EnteredBy
      <4> QED BY <2>2, <2>8, <3>2, <4>1, <4>2 DEF Thanked
    <3> QED BY <3>1, <3>2
  <2> QED BY <2>7, <2>9, <2>10 DEF LogFits
<1> QED BY Zenon, <1>1, <1>2 DEF StoreSubmission, AfterRefusal, Missing

(* The others change nobody's data. *)
LEMMA VisitorMoves ==
  ASSUME LocksHold, LogFits, UNCHANGED <<persons, log>>,
         \A v \in Visitors : \/ visitors'[v] = visitors[v] \/ visitors'[v].phase \notin {"stored", "done"}
                             \/ /\ visitors[v].phase = "stored" /\ visitors'[v].name = visitors[v].name
                                /\ visitors'[v].answers = visitors[v].answers
  PROVE  LogFits'
<1>1. ASSUME NEW v \in Visitors PROVE Thanked(visitors'[v], log, v)
  <2>1. Thanked(visitors[v], log, v)
    BY DEF LogFits
  <2>2. CASE visitors'[v] = visitors[v]
    BY <2>1, <2>2
  <2>3. CASE visitors'[v].phase \notin {"stored", "done"}
    BY <2>3 DEF Thanked
  <2>4. CASE /\ visitors[v].phase = "stored" /\ visitors'[v].name = visitors[v].name
             /\ visitors'[v].answers = visitors[v].answers
    <3>1. \A f : EnteredBy(visitors'[v], f) = EnteredBy(visitors[v], f)
      BY <2>4 DEF EnteredBy
    <3>2. PICK i \in DOMAIN log :
            /\ log[i].by = v /\ log[i].name = visitors[v].name
            /\ \A f \in DOMAIN log[i].said : log[i].said[f] = Normalized(f, EnteredBy(visitors[v], f))
      BY <2>1, <2>4 DEF Thanked
    <3>3. \A f \in DOMAIN log[i].said : log[i].said[f] = Normalized(f, EnteredBy(visitors'[v], f))
      BY <3>1, <3>2
    <3> QED BY <2>4, <3>2, <3>3 DEF Thanked
  <2> QED BY <2>2, <2>3, <2>4
<1>2. persons' = persons /\ log' = log
  OBVIOUS
<1> QED BY <1>1, <1>2 DEF LogFits

LEMMA VisitsLog == ASSUME LocksHold, LogFits, NEW v \in Visitors, Visits(v) PROVE LogFits'
<1>1. CASE Visit(v) \/ LoadQuestions(v) \/ Submit(v) \/ AnswerScreening(v) \/ FindPage(v)
  <2>1. \E x : visitors' = [visitors EXCEPT ![v] = x] /\ x.phase \notin {"stored", "done"}
    <3>1. \A q, token, page : q \notin {"stored", "done"} =>
             [Away EXCEPT !.phase = q, !.token = token, !.page = page].phase \notin {"stored", "done"}
      BY DEF Away
    <3>2. \A q : q \notin {"stored", "done"} => [visitors[v] EXCEPT !.phase = q].phase \notin {"stored", "done"}
      BY DEF LocksHold, VisitorFits
    <3>3. \A q, name, answers : q \notin {"stored", "done"} =>
             [visitors[v] EXCEPT !.phase = q, !.name = name, !.answers = answers].phase \notin {"stored", "done"}
      BY DEF LocksHold, VisitorFits
    <3>4. \A q, page : q \notin {"stored", "done"} =>
             [visitors[v] EXCEPT !.phase = q, !.page = page].phase \notin {"stored", "done"}
      BY DEF LocksHold, VisitorFits
    <3>5. CASE Visit(v)
      <4>1. PICK p \in RPages :
              visitors' = [visitors EXCEPT ![v] =
                  [Away EXCEPT !.phase = Opening[IF pages[p].screening THEN "screening" ELSE "form"],
                               !.token = pages[p].token, !.page = p]]
        BY Zenon, <3>5 DEF Visit, Becomes
      <4>2. Opening[IF pages[p].screening THEN "screening" ELSE "form"] \notin {"stored", "done"}
        BY OpeningPhases
      <4> QED BY Zenon, <3>1, <4>1, <4>2
    <3>9. CASE LoadQuestions(v)
      <4>1. PICK q \in DOMAIN Opening :
              visitors' = [visitors EXCEPT ![v] = [visitors[v] EXCEPT !.phase = q, !.page = 0,
                                                     !.shown = pages[visitors[v].page].questions]]
        BY Zenon, <3>9 DEF LoadQuestions, Becomes
      <4>2. [visitors[v] EXCEPT !.phase = q, !.page = 0,
                                !.shown = pages[visitors[v].page].questions].phase \notin {"stored", "done"}
        BY <4>1, OpeningPhases DEF LocksHold, VisitorFits
      <4> QED BY Zenon, <4>1, <4>2
    <3>6. CASE Submit(v)
      <4>1. PICK name, answers :
              visitors' = [visitors EXCEPT ![v] = [visitors[v] EXCEPT !.phase = "sending", !.name = name,
                                                                     !.answers = answers]]
        BY Zenon, <3>6 DEF Submit, Becomes
      <4> QED BY <3>3, <4>1
    <3>7. CASE AnswerScreening(v)
      <4>1. PICK q \in {"form", "screened_out"} :
              visitors' = [visitors EXCEPT ![v] = [visitors[v] EXCEPT !.phase = q]]
        BY Zenon, <3>7 DEF AnswerScreening, Becomes
      <4> QED BY <3>2, <4>1
    <3>8. CASE FindPage(v)
      <4>1. \/ visitors' = [visitors EXCEPT ![v] = [visitors[v] EXCEPT !.phase = "form"]]
            \/ \E p : visitors' = [visitors EXCEPT ![v] = [visitors[v] EXCEPT !.phase = "locked", !.page = p]]
        BY Zenon, <3>8 DEF FindPage, Becomes, Locks, AfterRefusal
      <4> QED BY <3>2, <3>4, <4>1
    <3> QED BY <1>1, <3>5, <3>6, <3>7, <3>8, <3>9
  <2>2. UNCHANGED <<persons, log>>
    BY <1>1 DEF Visit, LoadQuestions, Submit, AnswerScreening, FindPage
  <2> QED BY <2>1, <2>2, VisitorMoves DEF LocksHold
<1>2. CASE Reply(v)
  <2>1. PICK q \in {"done", "form"} :
          /\ visitors' = [visitors EXCEPT ![v] = [visitors[v] EXCEPT !.phase = q]]
          /\ q = "done" => visitors[v].phase = "stored"
    BY Zenon, <1>2 DEF Reply, Becomes
  <2>2. /\ visitors'[v].phase = q /\ visitors'[v].name = visitors[v].name
        /\ visitors'[v].answers = visitors[v].answers
        /\ \A w \in Visitors : w # v => visitors'[w] = visitors[w]
    BY <2>1 DEF LocksHold, VisitorFits
  <2>3. UNCHANGED <<persons, log>>
    BY <1>2 DEF Reply
  <2> QED BY <2>1, <2>2, <2>3, VisitorMoves
<1> QED BY <1>1, <1>2, StoreLogs DEF Visits

LEMMA EditsLeavePersons ==
  ASSUME NEW e \in Editors, Edits(e) PROVE persons' = persons
<1>1. CASE (\E x \in RPages : Open(e, x)) \/ SetForm(e) \/ \E job \in Offers(e) : Send(e, job)
  BY <1>1 DEF Open, SetForm, Send
<1>2. CASE LookForClash(e) \/ LookForPosition(e) \/ JobDies(e)
  BY Zenon, <1>2 DEF LookForClash, LookForPosition, JobDies, Fails
<1>3. CASE UpdatePage(e) \/ SetLink(e) \/ DeletePage(e)
  BY Zenon, <1>3 DEF UpdatePage, SetLink, DeletePage, Commits, Fails
<1>4. CASE NewPage(e) \/ EditQuestion(e) \/ AddQuestion(e)
  BY Zenon, <1>4 DEF NewPage, EditQuestion, AddQuestion, Commits, Fails
<1> QED BY <1>1, <1>2, <1>3, <1>4 DEF Edits

LEMMA LocksInit == Init => LocksHold
<1>1. Init => \E S : log \in Seq(S)
  <2>1. <<>> \in Seq({0})
    OBVIOUS
  <2> QED BY Zenon, <2>1 DEF Init, RecruitmentInit
<1>2. VisitorFits(Away) /\ Away.phase = "away"
  BY DEF VisitorFits, Away
<1>3. Init => visitors = [v \in Visitors |-> Away]
  BY Zenon DEF Init, RecruitmentInit
<1> QED BY <1>1, <1>2, <1>3 DEF LocksHold

LEMMA EmptyLog == ASSUME NEW l, l = <<>> PROVE DOMAIN l = {}
<1>1. <<>> \in Seq({}) /\ Len(<<>>) = 0
  OBVIOUS
<1>2. l \in Seq({}) /\ Len(l) = 0
  BY Zenon, <1>1
<1> QED BY <1>2

LEMMA AttrsOf == ASSUME NEW x, NEW y, x = [name |-> "", attrs |-> y] PROVE x.attrs = y
  OBVIOUS

LEMMA LogInit == Init => LogFits
<1> SUFFICES ASSUME Init PROVE LogFits
  OBVIOUS
<1>1. /\ persons = [a \in {Address[v] : v \in Visitors} |-> [name |-> "", attrs |-> <<>>]]
      /\ log = <<>> /\ visitors = [v \in Visitors |-> Away]
  BY Zenon DEF Init, RecruitmentInit
<1>2. ASSUME NEW a \in DOMAIN persons PROVE PersonFits(persons[a], log, a)
  <2>1. persons[a] = [name |-> "", attrs |-> <<>>]
    BY <1>1
  <2>2. Mine(log, a) = {}
    <3>1. DOMAIN log = {}
      BY Zenon, <1>1, EmptyLog
    <3> QED BY <3>1 DEF Mine
  <2>3. persons[a].attrs = <<>>
    BY Zenon, <2>1, AttrsOf
  <2>4. DOMAIN persons[a].attrs = {}
    BY Zenon, <2>3, EmptyLog
  <2> QED BY <2>2, <2>4 DEF PersonFits
<1>3. Away.phase = "away"
  BY DEF Away
<1>4. \A v \in Visitors : Thanked(visitors[v], log, v)
  BY <1>1, <1>3 DEF Thanked
<1>5. DOMAIN persons = {Address[v] : v \in Visitors}
  BY Zenon, <1>1
<1> QED BY <1>2, <1>4, <1>5 DEF LogFits

LEMMA LogStep == LocksHold /\ LogFits /\ [Next]_vars => LogFits'
<1> SUFFICES ASSUME LocksHold, LogFits, [Next]_vars PROVE LogFits'
  OBVIOUS
<1>1. CASE UNCHANGED recruitVars
  BY <1>1, VisitorMoves DEF recruitVars
<1>2. ASSUME NEW e \in Editors, Edits(e) PROVE LogFits'
  BY <1>2, EditsLeaveVisitors, EditsLeavePersons, VisitorMoves
<1>3. ASSUME NEW v \in Visitors, Visits(v) PROVE LogFits'
  BY <1>3, VisitsLog
<1>4. Working \subseteq Editors
  BY DEF Working
<1> QED BY <1>1, <1>2, <1>3, <1>4 DEF Next, vars

LEMMA LogTells == LocksHold /\ LogFits => LastSubmissionWins /\ DoneIsStored
<1> SUFFICES ASSUME LocksHold, LogFits PROVE LastSubmissionWins /\ DoneIsStored
  OBVIOUS
<1>1. DOMAIN log \subseteq Nat
  BY DEF LocksHold
<1>2. ASSUME NEW a \in DOMAIN persons
      PROVE  LET mine == {i \in DOMAIN log : Address[log[i].by] = a}
             IN /\ mine # {} => persons[a].name = log[Max(mine)].name
                /\ \A f \in DOMAIN persons[a].attrs :
                      LET about == {i \in mine : f \in DOMAIN log[i].said}
                      IN about # {} /\ persons[a].attrs[f] = log[Max(about)].said[f]
  <2>1. PersonFits(persons[a], log, a)
    BY DEF LogFits
  <2>2. Mine(log, a) \subseteq Nat /\ \A f : Mentions(log, a, f) \subseteq Nat
    BY <1>1 DEF Mine, Mentions
  <2>3. Mine(log, a) # {} => persons[a].name = log[Max(Mine(log, a))].name
    BY <2>1, <2>2, LatestIsMax DEF PersonFits
  <2>4. ASSUME NEW f \in DOMAIN persons[a].attrs
        PROVE  /\ Mentions(log, a, f) # {}
               /\ persons[a].attrs[f] = log[Max(Mentions(log, a, f))].said[f]
    <3>1. PICK i : IsLatest(i, Mentions(log, a, f)) /\ persons[a].attrs[f] = log[i].said[f]
      BY <2>1 DEF PersonFits
    <3> QED BY <2>2, <3>1, LatestIsMax DEF IsLatest
  <2> QED BY <2>3, <2>4 DEF Mine, Mentions
<1>3. LastSubmissionWins
  BY <1>2 DEF LastSubmissionWins
<1>4. DoneIsStored
  BY DEF LogFits, Thanked, DoneIsStored, Entered, EnteredBy
<1> QED BY <1>3, <1>4

\* "most recent submission wins": the name of a panelist is the one of the last
\* submission with the address, and each attribute the one of the last submission
\* that mentions it (recruitment.ts:128-129).
THEOREM LastWinsCorrect == Spec => []LastSubmissionWins
<1> QED BY LocksInit, PagesInit, PagesStep, LocksStep, LogInit, LogStep, LogTells, PTL DEF Spec

\* The thank-you page follows a submission that has been stored as it was typed
\* (recruitment-runtime.tsx:35-61).
THEOREM DoneCorrect == Spec => []DoneIsStored
<1> QED BY LocksInit, PagesInit, PagesStep, LocksStep, LogInit, LogStep, LogTells, PTL DEF Spec
-----------------------------------------------------------------------------
(* The names the preview gives to the columns of a table. *)
LEMMA LeastOne ==
  ASSUME NEW S, S \subseteq Nat, S # {} PROVE \E n \in S : \A m \in S : n <= m
<1>1. PICK n \in S : \A m \in S : <<m, n>> \notin OpToRel(<, Nat)
  BY NatLessThanWellFounded, WFMin
<1>2. \A m \in S : n <= m
  <2> SUFFICES ASSUME NEW m \in S PROVE n <= m
    OBVIOUS
  <2>1. <<m, n>> \notin OpToRel(<, Nat)
    BY <1>1
  <2>2. m \in Nat /\ n \in Nat
    OBVIOUS
  <2>3. ~(m < n)
    BY <2>1, <2>2 DEF OpToRel
  <2> QED BY <2>2, <2>3
<1> QED BY <1>2

LEMMA SomeSuffixIsFree ==
  ASSUME NEW h \in DOMAIN Normal, NEW used, IsFiniteSet(used), Cardinality(used) < MaxSpecs
  PROVE  \E n \in 2 .. Cardinality(used) + 2 : Suffixed(Normal[h], n) \notin used
<1> DEFINE c == Cardinality(used)
<1> DEFINE R == 2 .. c + 2
<1> DEFINE f == [n \in R |-> Suffixed(Normal[h], n)]
<1> SUFFICES ASSUME \A n \in R : Suffixed(Normal[h], n) \in used PROVE FALSE
  OBVIOUS
<1>1. c \in Nat
  BY FS_CardinalityType
<1>2. IsFiniteSet(R) /\ Cardinality(R) = c + 1
  <2>1. /\ IsFiniteSet(2 .. c + 2)
        /\ Cardinality(2 .. c + 2) = IF 2 > c + 2 THEN 0 ELSE (c + 2) - 2 + 1
    BY <1>1, FS_Interval
  <2> QED BY <1>1, <2>1
<1>3. f \in [R -> used]
  OBVIOUS
<1>4. PICK m, n \in R : m # n /\ f[m] = f[n]
  <2> HIDE DEF f, R, c
  <2>1. Cardinality(used) < Cardinality(R)
    BY <1>1, <1>2 DEF c
  <2> QED BY <1>2, <1>3, <2>1, FS_PigeonHole
<1>5. m \in 2 .. MaxSpecs + 1 /\ n \in 2 .. MaxSpecs + 1
  BY <1>1, ClicksAssumption
<1>6. Suffixed(Normal[h], m) = Suffixed(Normal[h], n)
  BY <1>4
<1> QED BY <1>4, <1>5, <1>6, SuffixAssumption

LEMMA NextIsFree ==
  ASSUME NEW h \in DOMAIN Normal, NEW used, IsFiniteSet(used), Cardinality(used) < MaxSpecs
  PROVE  NextName(Normal[h], used) \notin used
<1> DEFINE base == Normal[h]
<1> DEFINE c == Cardinality(used)
<1> DEFINE S == {n \in 2 .. c + 2 : Suffixed(base, n) \notin used}
<1>1. c \in Nat
  BY FS_CardinalityType
<1>2. S # {} /\ S \subseteq Nat
  BY <1>1, SomeSuffixIsFree
<1>3. PICK n \in S : \A m \in S : n <= m
  <2> HIDE DEF S
  <2> QED BY <1>2, LeastOne
<1>4. \A m \in 2 .. n - 1 : Suffixed(base, m) \in used
  BY <1>1, <1>3
<1>5. \E k \in 2 .. c + 2 : Suffixed(base, k) \notin used /\ \A m \in 2 .. k - 1 : Suffixed(base, m) \in used
  BY <1>3, <1>4
<1>6. CASE base \in used
  <2> DEFINE k == CHOOSE k \in 2 .. c + 2 : /\ Suffixed(base, k) \notin used
                                             /\ \A m \in 2 .. k - 1 : Suffixed(base, m) \in used
  <2>1. Suffixed(base, k) \notin used
    BY <1>5
  <2>2. NextName(base, used) = Suffixed(base, k)
    BY <1>6 DEF NextName
  <2> QED BY <2>1, <2>2
<1>7. CASE base \notin used
  BY <1>7 DEF NextName
<1> QED BY <1>6, <1>7

(* The names of the first n columns. *)
Naming(headers, n, f) ==
    f = [i \in 1 .. n |-> NextName(Normal[headers[i]], {f[j] : j \in 1 .. i - 1})]

LEMMA OneMoreName ==
  ASSUME NEW headers, NEW n \in Nat, NEW f, Naming(headers, n, f) PROVE \E g : Naming(headers, n + 1, g)
<1> DEFINE next == NextName(Normal[headers[n + 1]], {f[j] : j \in 1 .. n})
<1> DEFINE g == [i \in 1 .. n + 1 |-> IF i <= n THEN f[i] ELSE next]
<1>1. ASSUME NEW i \in 1 .. n + 1 PROVE {g[j] : j \in 1 .. i - 1} = {f[j] : j \in 1 .. i - 1}
  <2>1. \A j \in 1 .. i - 1 : g[j] = f[j]
    OBVIOUS
  <2> HIDE DEF g
  <2> QED BY Zenon, <2>1
<1>2. ASSUME NEW i \in 1 .. n PROVE f[i] = NextName(Normal[headers[i]], {f[j] : j \in 1 .. i - 1})
  BY Zenon DEF Naming
<1>3. ASSUME NEW i \in 1 .. n + 1
      PROVE  g[i] = NextName(Normal[headers[i]], {g[j] : j \in 1 .. i - 1})
  <2>1. CASE i <= n
    <3>1. g[i] = f[i] /\ i \in 1 .. n
      BY <2>1
    <3> QED BY <1>1, <1>2, <3>1
  <2>2. CASE ~(i <= n)
    <3>1. i = n + 1 /\ i - 1 = n
      BY <2>2
    <3>2. g[i] = next
      BY <2>2
    <3>3. {f[j] : j \in 1 .. i - 1} = {f[j] : j \in 1 .. n}
      BY <3>1
    <3> QED BY <1>1, <3>1, <3>2, <3>3
  <2> QED BY <2>1, <2>2
<1>4. g = [i \in 1 .. n + 1 |-> g[i]]
  OBVIOUS
<1>5. g = [i \in 1 .. n + 1 |-> NextName(Normal[headers[i]], {g[j] : j \in 1 .. i - 1})]
  <2> HIDE DEF g
  <2> QED BY Zenon, <1>3, <1>4
<1> QED BY Zenon, <1>5 DEF Naming

LEMMA NamesExist == ASSUME NEW headers, NEW n \in Nat PROVE \E f : Naming(headers, n, f)
<1> DEFINE S == {k \in Nat : ~\E f : Naming(headers, k, f)}
<1> SUFFICES S = {}
  OBVIOUS
<1>1. SUFFICES ASSUME S # {} PROVE FALSE
  OBVIOUS
<1>2. PICK k \in S : \A m \in S : k <= m
  <2>1. S \subseteq Nat
    OBVIOUS
  <2> HIDE DEF S
  <2> QED BY <1>1, <2>1, LeastOne
<1>3. CASE k = 0
  <2> DEFINE f == [i \in 1 .. 0 |-> 0]
  <2>1. Naming(headers, 0, f)
    BY DEF Naming
  <2> HIDE DEF f
  <2> QED BY <1>3, <2>1
<1>4. CASE k # 0
  <2>1. k \in Nat /\ k - 1 \in Nat /\ (k - 1) + 1 = k /\ k - 1 < k
    BY <1>4
  <2>2. k - 1 \notin S
    BY <1>2, <2>1
  <2>3. PICK f : Naming(headers, k - 1, f)
    BY <2>1, <2>2
  <2>4. \E g : Naming(headers, (k - 1) + 1, g)
    BY Zenon, <2>1, <2>3, OneMoreName
  <2> QED BY <2>1, <2>4
<1> QED BY <1>3, <1>4

LEMMA NamesFollow ==
  ASSUME NEW headers, headers \in Seq(DOMAIN Normal)
  PROVE  Naming(headers, Len(headers), Names(headers))
<1>0. Len(headers) \in Nat
  OBVIOUS
<1>1. PICK f : Naming(headers, Len(headers), f)
  BY Zenon, <1>0, NamesExist
<1>2. DOMAIN headers = 1 .. Len(headers)
  OBVIOUS
<1>3. \E g : g = [i \in DOMAIN headers |-> NextName(Normal[headers[i]], {g[j] : j \in 1 .. i - 1})]
  BY Zenon, <1>1, <1>2 DEF Naming
<1>4. Names(headers) = CHOOSE g :
        g = [i \in DOMAIN headers |-> NextName(Normal[headers[i]], {g[j] : j \in 1 .. i - 1})]
  BY DEF Names
<1>5. Names(headers) = [i \in DOMAIN headers |->
        NextName(Normal[headers[i]], {Names(headers)[j] : j \in 1 .. i - 1})]
  BY Zenon, <1>3, <1>4
<1> QED BY Zenon, <1>2, <1>5 DEF Naming

LEMMA NamesDiffer ==
  ASSUME NEW headers \in Seq(DOMAIN Normal), Len(headers) <= MaxSpecs,
         NEW i \in DOMAIN headers, NEW j \in DOMAIN headers, j < i
  PROVE  Names(headers)[i] # Names(headers)[j]
<1> DEFINE f == Names(headers)
<1> DEFINE used == {f[k] : k \in 1 .. i - 1}
<1>1. i \in 1 .. Len(headers) /\ j \in 1 .. i - 1 /\ i - 1 \in Nat /\ i - 1 < MaxSpecs
  BY ClicksAssumption
<1>2. f[i] = NextName(Normal[headers[i]], used)
  BY Zenon, <1>1, NamesFollow DEF Naming
<1>3. IsFiniteSet(used) /\ Cardinality(used) <= i - 1
  <2> DEFINE g == [k \in 1 .. i - 1 |-> f[k]]
  <2>1. g \in Surjection(1 .. i - 1, used)
    BY DEF Surjection
  <2>2. IsFiniteSet(1 .. i - 1) /\ Cardinality(1 .. i - 1) = i - 1
    <3>1. /\ IsFiniteSet(1 .. i - 1)
          /\ Cardinality(1 .. i - 1) = IF 1 > i - 1 THEN 0 ELSE (i - 1) - 1 + 1
      <4>1. 1 \in Int /\ i - 1 \in Int
        BY <1>1
      <4> QED BY Zenon, <4>1, FS_Interval
    <3> QED BY <1>1, <3>1
  <2> HIDE DEF g, used
  <2>3. IsFiniteSet(used) /\ Cardinality(used) <= Cardinality(1 .. i - 1)
    BY <2>1, <2>2, FS_Surjection
  <2> QED BY <2>2, <2>3
<1>4. Cardinality(used) < MaxSpecs
  <2>1. Cardinality(used) \in Nat
    BY <1>3, FS_CardinalityType
  <2> HIDE DEF used
  <2> QED BY <1>1, <1>3, <2>1, ClicksAssumption
<1>5. headers[i] \in DOMAIN Normal
  OBVIOUS
<1>6. f[i] \notin used
  <2> HIDE DEF used, f
  <2> QED BY <1>2, <1>3, <1>4, <1>5, NextIsFree
<1> QED BY <1>1, <1>6

(* What the preview infers can be read. *)
LEMMA InferredReads ==
  ASSUME NEW cells, IsFiniteSet(DOMAIN cells), Cardinality(DOMAIN cells) <= Sample,
         NEW k \in Filled(cells)
  PROVE  Readable(cells[k], Inferred(cells))
<1> DEFINE seen == {i \in Filled(cells) : Cardinality({j \in Filled(cells) : j <= i}) <= Sample}
<1>1. ASSUME NEW i \in Filled(cells) PROVE i \in seen
  <2> DEFINE S == {j \in Filled(cells) : j <= i}
  <2>1. S \in SUBSET (DOMAIN cells)
    BY DEF Filled
  <2> HIDE DEF S
  <2>2. IsFiniteSet(S) /\ Cardinality(S) <= Cardinality(DOMAIN cells)
    BY <2>1, FS_Subset
  <2>3. Cardinality(S) \in Nat /\ Cardinality(DOMAIN cells) \in Nat /\ Sample \in Nat
    BY <2>2, FS_CardinalityType, LimitsAssumption
  <2>4. Cardinality(S) <= Sample
    BY <2>2, <2>3
  <2> QED BY <2>4 DEF S
<1>2. k \in seen
  BY <1>1
<1>3. Inferred(cells) = IF seen # {} /\ \A i \in seen : IsFiniteNumber(cells[i]) THEN "numeric"
                        ELSE IF seen # {} /\ \A i \in seen : IsIsoLikeDate(cells[i]) THEN "date" ELSE "string"
  BY DEF Inferred
<1> HIDE DEF seen
<1>4. CASE \A i \in seen : IsFiniteNumber(cells[i])
  <2>1. Inferred(cells) = "numeric"
    BY <1>2, <1>3, <1>4
  <2> QED BY <1>2, <1>4, <2>1 DEF Readable
<1>5. CASE ~(\A i \in seen : IsFiniteNumber(cells[i])) /\ \A i \in seen : IsIsoLikeDate(cells[i])
  <2>1. Inferred(cells) = "date"
    BY <1>2, <1>3, <1>5
  <2> QED BY <1>2, <1>5, <2>1 DEF Readable
<1>6. CASE ~(\A i \in seen : IsFiniteNumber(cells[i])) /\ ~(\A i \in seen : IsIsoLikeDate(cells[i]))
  <2>1. Inferred(cells) = "string"
    BY <1>3, <1>6
  <2> QED BY <2>1 DEF Readable
<1> QED BY <1>4, <1>5, <1>6

LEMMA InferredBuilds ==
  ASSUME NEW t, t.headers \in Seq(DOMAIN Normal), IsFiniteSet(DOMAIN t.rows),
         \A i, j \in DOMAIN t.headers : t.headers[i] = t.headers[j] => i = j,
         Len(t.headers) <= MaxSpecs, DOMAIN t.headers # {}
  PROVE  BuildRawDataset(t, InferRawVariables(t)) \in {"", "values"}
         /\ (BuildRawDataset(t, InferRawVariables(t)) = "values" => Cardinality(DOMAIN t.rows) > Sample)
<1> DEFINE specs == InferRawVariables(t)
<1> DEFINE kept == {i \in DOMAIN specs : specs[i].include}
<1>1. /\ DOMAIN specs = DOMAIN t.headers
      /\ \A i \in DOMAIN t.headers :
            /\ specs[i].column = t.headers[i] /\ specs[i].include
            /\ specs[i].name = Names(t.headers)[i] /\ specs[i].type = Inferred(Column(t, i))
  BY DEF InferRawVariables
<1> HIDE DEF specs
<1>2. kept = DOMAIN t.headers /\ kept # {}
  BY <1>1
<1>3. ~\E i \in kept : specs[i].column \notin ToSet(t.headers)
  <2>1. \A i \in DOMAIN t.headers : t.headers[i] \in ToSet(t.headers)
    BY DEF ToSet
  <2> QED BY <1>1, <1>2, <2>1
<1>4. ~\E i, j \in kept : i # j /\ specs[i].name = specs[j].name
  <2> SUFFICES ASSUME NEW i \in DOMAIN t.headers, NEW j \in DOMAIN t.headers, i # j
               PROVE  Names(t.headers)[i] # Names(t.headers)[j]
    BY <1>1, <1>2
  <2>1. i < j \/ j < i
    OBVIOUS
  <2> QED BY <2>1, NamesDiffer
<1>5. ASSUME NEW i \in kept, NEW k \in Filled(Under(t, specs[i].column)),
             ~Readable(Under(t, specs[i].column)[k], specs[i].type)
      PROVE  Cardinality(DOMAIN t.rows) > Sample
  <2> DEFINE cells == Column(t, i)
  <2>1. specs[i].column = t.headers[i] /\ specs[i].type = Inferred(cells) /\ i \in DOMAIN t.headers
    BY <1>1, <1>2
  <2>2. DOMAIN cells = DOMAIN t.rows
    BY DEF Column
  <2>3. Under(t, specs[i].column) = cells
    <3>1. (CHOOSE j \in DOMAIN t.headers : t.headers[j] = t.headers[i]) = i
      BY <2>1
    <3>2. Under(t, t.headers[i]) = Column(t, CHOOSE j \in DOMAIN t.headers : t.headers[j] = t.headers[i])
      BY Zenon DEF Under
    <3> QED BY <2>1, <3>1, <3>2
  <2> HIDE DEF cells
  <2>4. ~Readable(cells[k], Inferred(cells)) /\ k \in Filled(cells)
    BY <1>5, <2>1, <2>3
  <2>5. ~(Cardinality(DOMAIN t.rows) <= Sample)
    BY <2>2, <2>4, InferredReads
  <2>6. Cardinality(DOMAIN t.rows) \in Nat /\ Sample \in Nat
    BY FS_CardinalityType, LimitsAssumption
  <2> QED BY <2>5, <2>6
<1>6. BuildRawDataset(t, specs) =
        IF \E i \in kept : \E k \in Filled(Under(t, specs[i].column)) :
               ~Readable(Under(t, specs[i].column)[k], specs[i].type)
        THEN "values" ELSE ""
  <2> HIDE DEF kept
  <2>1. BuildRawDataset(t, specs) =
        IF kept = {} THEN "nothing chosen"
        ELSE IF \E i \in kept : specs[i].column \notin ToSet(t.headers) THEN "no such column"
        ELSE IF \E i, j \in kept : i # j /\ specs[i].name = specs[j].name THEN "names"
        ELSE IF \E i \in kept : \E k \in Filled(Under(t, specs[i].column)) :
               ~Readable(Under(t, specs[i].column)[k], specs[i].type)
             THEN "values" ELSE ""
    BY Zenon DEF BuildRawDataset, kept
  <2> QED BY <1>2, <1>3, <1>4, <2>1
<1> HIDE DEF kept
<1>7. /\ BuildRawDataset(t, specs) \in {"", "values"}
      /\ BuildRawDataset(t, specs) = "values" => Cardinality(DOMAIN t.rows) > Sample
  BY <1>5, <1>6
<1> QED BY <1>7 DEF specs
-----------------------------------------------------------------------------
(* The screen and its calls.  A preview that is shown agrees with the last      *)
(* choice; the last call that is under way asks for it.                         *)
AsInferred(preview, table) ==
    table.ok /\ preview.specs = InferRawVariables(table)

Seen(file, preview) ==
    /\ file \in DOMAIN Files /\ preview.file = file
    /\ Trim(preview.sheet) = preview.sheet =>
          AsInferred(preview, ReadTable(file, Selected(file, preview.sheet)))

Hits(file, sheet, last) == Lasting(Files[last.file][last.sheet].name) => Selected(file, sheet) = last.sheet

Agrees(file, preview, last) ==
    /\ file = last.file /\ last.cleared # "answered"
    /\ Seen(file, preview) /\ Hits(file, preview.sheet, last)

Asks(call, last) ==
    /\ call.file = last.file /\ last.cleared # "answered"
    /\ Selected(call.file, call.sheet) # 0 => Hits(call.file, call.sheet, last)

ImportCall(call) ==
    /\ Agrees(call.file, call.preview, call.meant)
    /\ \E i \in DOMAIN call.specs : call.specs[i].include

Predicted(x) ==
    LET call == x.call
        why == x.why
        table == ReadTable(call.file, Selected(call.file, call.preview.sheet))
    IN call.specs = call.preview.specs /\ Trim(call.preview.sheet) = call.preview.sheet =>
          \/ why \in {"", "taken"}
          \/ why = "name" /\ call.name \in LongNames
          \/ why = "values" /\ Cardinality(DOMAIN table.rows) > Sample
          \/ /\ why = "metadata"
             /\ \/ \E h \in DOMAIN table.headers : table.headers[h] \in {""} \cup LongHeaders
                \/ Len(table.headers) > MaxSpecs

CallsFit(s) ==
    /\ \E T : s \in Seq(T)
    /\ \A i \in DOMAIN s :
          \/ s[i].kind = "import" /\ i = 1 /\ ImportCall(s[i])
          \/ s[i].kind = "preview" /\ s[i].file \in DOMAIN Files

Due(s, x, last) ==
    IF Len(s) = 0 \/ s[Len(s)].kind = "import"
    THEN x.preview # NoPreview => Agrees(x.file, x.preview, last)
    ELSE Asks(s[Len(s)], last)

ScreenShaped(x) ==
    x = [file |-> x.file, preview |-> x.preview, specs |-> x.specs, name |-> x.name, status |-> x.status]

ChoiceShaped(last) == last = [file |-> last.file, sheet |-> last.sheet, cleared |-> last.cleared]

ScreenFits ==
    /\ CallsFit(calls) /\ ScreenShaped(screen) /\ ChoiceShaped(chosen)
    /\ screen.status # "left" => Due(calls, screen, chosen)
    /\ \E T : imported \in Seq(T)
    /\ \A i \in DOMAIN imported : ImportCall(imported[i].call) /\ Predicted(imported[i])

(* What a worksheet that is selected is. *)
LEMMA SelectedThere ==
  ASSUME NEW file \in DOMAIN Files, NEW sheet, Selected(file, sheet) # 0
  PROVE  /\ Selected(file, sheet) \in DOMAIN Files[file]
         /\ IF Trim(sheet) = "" THEN Selected(file, sheet) = 1
            ELSE Files[file][Selected(file, sheet)].name = Trim(sheet)
<1> DEFINE found == {k \in DOMAIN Files[file] : IF Trim(sheet) = "" THEN k = 1
                                               ELSE Files[file][k].name = Trim(sheet)}
<1>1. Selected(file, sheet) = IF found = {} THEN 0 ELSE CHOOSE k \in found : TRUE
  BY Zenon DEF Selected
<1>2. Selected(file, sheet) \in found
  BY <1>1
<1> QED BY <1>2

(* A name that survives the trim finds its worksheet. *)
LEMMA SelectedByName ==
  ASSUME NEW file \in DOMAIN Files, NEW k \in DOMAIN Files[file],
         Trim(Files[file][k].name) = Files[file][k].name
  PROVE  Selected(file, Files[file][k].name) = k
<1> DEFINE name == Files[file][k].name
<1> DEFINE found == {s \in DOMAIN Files[file] : IF Trim(name) = "" THEN s = 1
                                               ELSE Files[file][s].name = Trim(name)}
<1>1. Selected(file, name) = IF found = {} THEN 0 ELSE CHOOSE s \in found : TRUE
  BY Zenon DEF Selected
<1>2. /\ name = "" => k = 1
      /\ \A s \in DOMAIN Files[file] : Files[file][s].name = name => s = k
  BY FilesAssumption
<1>3. found = {k}
  BY <1>2
<1> QED BY <1>1, <1>3

LEMMA ParsedTable ==
  ASSUME NEW raw, NEW t, t = ParseImportFile(raw)
  PROVE  /\ t.headers = raw.headers /\ DOMAIN t.rows \in SUBSET (DOMAIN raw.rows)
         /\ t.ok => \A i, j \in DOMAIN raw.headers :
                        Folded[raw.headers[i]] = Folded[raw.headers[j]] => i = j
<1> DEFINE kept == {k \in DOMAIN raw.rows : \E i \in DOMAIN raw.rows[k] : raw.rows[k][i] # ""}
<1> DEFINE apart == \A i, j \in DOMAIN raw.headers : Folded[raw.headers[i]] = Folded[raw.headers[j]] => i = j
<1> DEFINE ok == apart /\ Cardinality(kept) <= MaxRows
<1> DEFINE rows == [k \in kept |-> raw.rows[k]]
<1>1. t = [ok |-> ok, headers |-> raw.headers, rows |-> rows]
  BY Zenon DEF ParseImportFile
<1>2. kept \in SUBSET (DOMAIN raw.rows) /\ DOMAIN rows = kept
  OBVIOUS
<1>3. ok => apart
  OBVIOUS
<1> HIDE DEF kept, ok, rows
<1>4. t.headers = raw.headers /\ t.rows = rows /\ t.ok = ok
  BY <1>1
<1> QED BY Zenon, <1>2, <1>3, <1>4

LEMMA TableFits ==
  ASSUME NEW file \in DOMAIN Files, NEW sheet, NEW t, t = ReadTable(file, Selected(file, sheet)), t.ok
  PROVE  /\ t.headers \in Seq(DOMAIN Normal) /\ IsFiniteSet(DOMAIN t.rows)
         /\ \A i, j \in DOMAIN t.headers : t.headers[i] = t.headers[j] => i = j
<1> DEFINE k == Selected(file, sheet)
<1> DEFINE raw == Files[file][k].table
<1>1. k # 0
  BY DEF ReadTable, NoTable
<1>2. k \in DOMAIN Files[file]
  BY <1>1, SelectedThere
<1>3. raw.headers \in Seq(DOMAIN Normal) /\ IsFiniteSet(DOMAIN raw.rows)
  BY Zenon, <1>2, FilesAssumption
<1>4. t = ParseImportFile(raw)
  BY <1>1 DEF ReadTable
<1> HIDE DEF k, raw
<1>5. /\ t.headers = raw.headers /\ DOMAIN t.rows \in SUBSET (DOMAIN raw.rows)
      /\ \A i, j \in DOMAIN raw.headers : Folded[raw.headers[i]] = Folded[raw.headers[j]] => i = j
  BY Zenon, <1>4, ParsedTable
<1>6. IsFiniteSet(DOMAIN t.rows)
  BY <1>3, <1>5, FS_Subset
<1>7. ASSUME NEW i \in DOMAIN t.headers, NEW j \in DOMAIN t.headers, t.headers[i] = t.headers[j]
      PROVE  i = j
  <2>1. i \in DOMAIN raw.headers /\ j \in DOMAIN raw.headers /\ raw.headers[i] = raw.headers[j]
    BY <1>5, <1>7
  <2> QED BY Zenon, <1>5, <2>1
<1> QED BY <1>3, <1>5, <1>6, <1>7

(* What an import of the inferred variables can be refused for. *)
LEMMA InferredRefused ==
  ASSUME NEW t, t.headers \in Seq(DOMAIN Normal), IsFiniteSet(DOMAIN t.rows),
         \A i, j \in DOMAIN t.headers : t.headers[i] = t.headers[j] => i = j,
         NEW specs, specs = InferRawVariables(t), DOMAIN specs # {},
         NEW metadata, metadata <=> \/ Len(specs) > MaxSpecs
                                    \/ \E i \in DOMAIN specs : ~Describes(specs[i]),
         NEW problem, problem = BuildRawDataset(t, specs)
  PROVE  /\ metadata => \/ \E h \in DOMAIN t.headers : t.headers[h] \in {""} \cup LongHeaders
                        \/ Len(t.headers) > MaxSpecs
         /\ ~metadata => /\ problem \in {"", "values"}
                         /\ problem = "values" => Cardinality(DOMAIN t.rows) > Sample
<1>1. /\ DOMAIN specs = DOMAIN t.headers
      /\ \A i \in DOMAIN t.headers : specs[i].column = t.headers[i]
  BY DEF InferRawVariables
<1>2. Len(specs) = Len(t.headers) /\ Len(t.headers) \in Nat
  <2>1. DOMAIN specs = 1 .. Len(t.headers) /\ Len(t.headers) \in Nat
    BY <1>1
  <2>2. specs = [i \in 1 .. Len(t.headers) |-> specs[i]]
    BY <2>1 DEF InferRawVariables
  <2> QED BY <2>1, <2>2
<1>3. metadata => \/ \E h \in DOMAIN t.headers : t.headers[h] \in {""} \cup LongHeaders
                  \/ Len(t.headers) > MaxSpecs
  <2>1. ASSUME NEW i \in DOMAIN specs, ~Describes(specs[i])
        PROVE  \E h \in DOMAIN t.headers : t.headers[h] \in {""} \cup LongHeaders
    BY <1>1, <2>1 DEF Describes
  <2> QED BY Zenon, <1>2, <2>1
<1>4. ASSUME ~metadata PROVE Len(t.headers) <= MaxSpecs
  <2>1. ~(Len(specs) > MaxSpecs)
    BY Zenon, <1>4
  <2> QED BY <1>2, <2>1, ClicksAssumption
<1>5. ASSUME ~metadata
      PROVE  problem \in {"", "values"} /\ (problem = "values" => Cardinality(DOMAIN t.rows) > Sample)
  <2>1. DOMAIN t.headers # {} /\ Len(t.headers) <= MaxSpecs
    BY Zenon, <1>1, <1>4, <1>5
  <2> QED BY Zenon, <2>1, InferredBuilds
<1> QED BY Zenon, <1>3, <1>5

LEMMA RefusalPredicted ==
  ASSUME NEW call, ImportCall(call), NEW x, x.call = call, x.why = Refusal(call) PROVE Predicted(x)
<1> DEFINE t == ReadTable(call.file, Selected(call.file, call.preview.sheet))
<1> DEFINE problem == BuildRawDataset(t, call.specs)
<1> DEFINE metadata == \/ Len(call.specs) > MaxSpecs
                       \/ \E i \in DOMAIN call.specs : ~Describes(call.specs[i])
<1> SUFFICES ASSUME call.specs = call.preview.specs, Trim(call.preview.sheet) = call.preview.sheet
             PROVE  \/ x.why \in {"", "taken"}
                    \/ x.why = "name" /\ call.name \in LongNames
                    \/ x.why = "values" /\ Cardinality(DOMAIN t.rows) > Sample
                    \/ /\ x.why = "metadata"
                       /\ \/ \E h \in DOMAIN t.headers : t.headers[h] \in {""} \cup LongHeaders
                          \/ Len(t.headers) > MaxSpecs
  BY DEF Predicted
<1>1. Refusal(call) = IF call.preview.file # call.file THEN "fingerprint"
                      ELSE IF ~t.ok THEN "file"
                      ELSE IF call.name \in LongNames THEN "name"
                      ELSE IF metadata THEN "metadata"
                      ELSE IF problem # "" THEN problem
                      ELSE IF Trim(call.name) \in taken THEN "taken" ELSE ""
  BY Zenon DEF Refusal
<1>2. call.preview.file = call.file /\ t.ok /\ call.specs = InferRawVariables(t) /\ call.file \in DOMAIN Files
  BY DEF ImportCall, Agrees, Seen, AsInferred
<1>3. /\ t.headers \in Seq(DOMAIN Normal) /\ IsFiniteSet(DOMAIN t.rows)
      /\ \A i, j \in DOMAIN t.headers : t.headers[i] = t.headers[j] => i = j
  <2>1. \A file \in DOMAIN Files : \A sheet :
           LET u == ReadTable(file, Selected(file, sheet)) IN
           u.ok => /\ u.headers \in Seq(DOMAIN Normal) /\ IsFiniteSet(DOMAIN u.rows)
                   /\ \A i, j \in DOMAIN u.headers : u.headers[i] = u.headers[j] => i = j
    BY Zenon, TableFits
  <2> QED BY Zenon, <1>2, <2>1
<1>4. DOMAIN call.specs # {}
  BY DEF ImportCall
<1> HIDE DEF t
<1>5. /\ metadata => \/ \E h \in DOMAIN t.headers : t.headers[h] \in {""} \cup LongHeaders
                     \/ Len(t.headers) > MaxSpecs
      /\ ~metadata => /\ problem \in {"", "values"}
                      /\ problem = "values" => Cardinality(DOMAIN t.rows) > Sample
  <2>1. metadata <=> \/ Len(call.specs) > MaxSpecs
                     \/ \E i \in DOMAIN call.specs : ~Describes(call.specs[i])
    OBVIOUS
  <2>2. problem = BuildRawDataset(t, call.specs)
    OBVIOUS
  <2> HIDE DEF metadata, problem
  <2> QED BY Zenon, <1>2, <1>3, <1>4, <2>1, <2>2, InferredRefused
<1> HIDE DEF metadata, problem
<1> QED BY <1>1, <1>2, <1>5

(* What a preview that is answered shows. *)
LEMMA PreviewSeen ==
  ASSUME NEW call, call.file \in DOMAIN Files, NEW preview, preview = Preview(call), preview # NoPreview
  PROVE  /\ Seen(call.file, preview) /\ Selected(call.file, call.sheet) # 0
         /\ preview.sheet = Files[call.file][Selected(call.file, call.sheet)].name
<1> DEFINE k == Selected(call.file, call.sheet)
<1>1. /\ ReadTable(call.file, k).ok /\ preview.file = call.file /\ preview.sheet = Files[call.file][k].name
      /\ preview.specs = InferRawVariables(ReadTable(call.file, k))
  BY DEF Preview
<1>2. k # 0
  BY <1>1 DEF ReadTable, NoTable
<1>3. k \in DOMAIN Files[call.file]
  BY <1>2, SelectedThere
<1> HIDE DEF k
<1>4. ASSUME Trim(preview.sheet) = preview.sheet PROVE Selected(call.file, preview.sheet) = k
  BY <1>1, <1>3, <1>4, SelectedByName
<1>5. Trim(preview.sheet) = preview.sheet =>
          AsInferred(preview, ReadTable(call.file, Selected(call.file, preview.sheet)))
  BY <1>1, <1>4 DEF AsInferred
<1> QED BY <1>1, <1>2, <1>5 DEF Seen, k

(* The answer to the call that asks for the last choice agrees with it. *)
LEMMA AnswerAgrees ==
  ASSUME NEW call, call.file \in DOMAIN Files, NEW last, Asks(call, last),
         NEW preview, preview = Preview(call), preview # NoPreview
  PROVE  Agrees(call.file, preview, last)
<1> DEFINE k == Selected(call.file, call.sheet)
<1>1. Seen(call.file, preview) /\ k # 0 /\ preview.sheet = Files[call.file][k].name
  BY PreviewSeen
<1>2. k \in DOMAIN Files[call.file]
  BY <1>1, SelectedThere
<1>3. Hits(call.file, preview.sheet, last)
  <2> SUFFICES ASSUME Lasting(Files[last.file][last.sheet].name)
               PROVE  Selected(call.file, preview.sheet) = last.sheet
    BY Zenon DEF Hits
  <2>1. k = last.sheet /\ call.file = last.file
    BY <1>1 DEF Asks, Hits
  <2>2. Trim(Files[call.file][k].name) = Files[call.file][k].name
    BY <2>1 DEF Lasting
  <2> QED BY <1>1, <1>2, <2>1, <2>2, SelectedByName
<1> QED BY <1>1, <1>3 DEF Agrees, Asks
-----------------------------------------------------------------------------
LEMMA OneCallMore ==
  ASSUME NEW s, NEW m, NEW y, CallsFit(s), m = Append(s, y),
         \/ y.kind = "import" /\ s = <<>> /\ ImportCall(y)
         \/ y.kind = "preview" /\ y.file \in DOMAIN Files
  PROVE  CallsFit(m) /\ Len(m) # 0 /\ m[Len(m)] = y
<1>1. PICK T : s \in Seq(T)
  BY DEF CallsFit
<1>2. Append(s, y) \in Seq(T \cup {y})
  <2>1. s \in Seq(T \cup {y}) /\ y \in T \cup {y}
    BY <1>1
  <2> QED BY <2>1
<1>3. /\ Len(m) = Len(s) + 1 /\ Len(s) \in Nat /\ DOMAIN m = DOMAIN s \cup {Len(s) + 1}
      /\ m[Len(s) + 1] = y /\ \A i \in DOMAIN s : m[i] = s[i]
  BY <1>1
<1>4. s = <<>> => Len(s) = 0
  BY <1>1
<1>5. \A i \in DOMAIN m :
          \/ m[i].kind = "import" /\ i = 1 /\ ImportCall(m[i])
          \/ m[i].kind = "preview" /\ m[i].file \in DOMAIN Files
  BY <1>3, <1>4 DEF CallsFit
<1>6. \E U : m \in Seq(U)
  BY Zenon, <1>2
<1> QED BY <1>3, <1>5, <1>6 DEF CallsFit

LEMMA OneCallLess ==
  ASSUME NEW s, CallsFit(s), s # <<>>
  PROVE  /\ Len(s) \in Nat /\ Len(s) >= 1 /\ Head(s) = s[1]
         /\ CallsFit(Tail(s)) /\ Len(Tail(s)) = Len(s) - 1
         /\ Len(s) > 1 => Tail(s)[Len(s) - 1] = s[Len(s)] /\ s[Len(s)].kind = "preview"
<1>1. PICK T : s \in Seq(T)
  BY DEF CallsFit
<1>2. /\ Len(s) \in Nat /\ Len(s) >= 1 /\ Head(s) = s[1] /\ Tail(s) \in Seq(T)
      /\ Len(Tail(s)) = Len(s) - 1 /\ DOMAIN s = 1 .. Len(s) /\ DOMAIN Tail(s) = 1 .. Len(s) - 1
      /\ \A i \in 1 .. Len(s) - 1 : Tail(s)[i] = s[i + 1]
  BY <1>1
<1>3. \A i \in DOMAIN s :
          \/ s[i].kind = "import" /\ i = 1 /\ ImportCall(s[i])
          \/ s[i].kind = "preview" /\ s[i].file \in DOMAIN Files
  BY DEF CallsFit
<1>4. \A i \in DOMAIN Tail(s) : Tail(s)[i].kind = "preview" /\ Tail(s)[i].file \in DOMAIN Files
  <2> SUFFICES ASSUME NEW i \in DOMAIN Tail(s)
               PROVE  Tail(s)[i].kind = "preview" /\ Tail(s)[i].file \in DOMAIN Files
    OBVIOUS
  <2>1. Tail(s)[i] = s[i + 1] /\ i + 1 \in DOMAIN s /\ i + 1 # 1
    BY <1>2
  <2> QED BY <1>3, <2>1
<1>5. \E U : Tail(s) \in Seq(U)
  BY Zenon, <1>2
<1>6. CallsFit(Tail(s))
  BY <1>4, <1>5 DEF CallsFit
<1>7. Len(s) > 1 => Tail(s)[Len(s) - 1] = s[Len(s)] /\ s[Len(s)].kind = "preview"
  <2> SUFFICES ASSUME Len(s) > 1 PROVE Tail(s)[Len(s) - 1] = s[Len(s)] /\ s[Len(s)].kind = "preview"
    OBVIOUS
  <2>1. Len(s) - 1 \in 1 .. Len(s) - 1 /\ (Len(s) - 1) + 1 = Len(s) /\ Len(s) \in DOMAIN s /\ Len(s) # 1
    BY <1>2
  <2> QED BY <1>2, <1>3, <2>1
<1> QED BY <1>2, <1>6, <1>7

LEMMA OneOrMore == \A n \in Nat : n >= 1 => n > 1 \/ n = 1
  OBVIOUS

LEMMA ScreenInit == Init => ScreenFits
<1> SUFFICES ASSUME Init PROVE ScreenFits
  OBVIOUS
<1>1. /\ chosen = [file |-> NoFile, sheet |-> 1, cleared |-> "no"] /\ calls = <<>> /\ imported = <<>>
      /\ screen = EmptyScreen
  BY Zenon DEF Init, RawImportInit
<1>2. <<>> \in Seq({0}) /\ Len(<<>>) = 0 /\ DOMAIN <<>> = {}
  <2>1. <<>> \in Seq({0}) /\ Len(<<>>) = 0
    OBVIOUS
  <2> QED BY <2>1
<1>3. CallsFit(calls)
  <2>1. DOMAIN calls = {} /\ calls \in Seq({0})
    BY Zenon, <1>1, <1>2
  <2> QED BY <2>1 DEF CallsFit
<1>4. DOMAIN imported = {} /\ imported \in Seq({0})
  BY Zenon, <1>1, <1>2
<1>5. Len(calls) = 0
  BY Zenon, <1>1, <1>2
<1>6. ScreenShaped(screen) /\ ChoiceShaped(chosen) /\ screen.preview = NoPreview
  BY <1>1 DEF ScreenShaped, ChoiceShaped, EmptyScreen
<1> QED BY <1>3, <1>4, <1>5, <1>6 DEF ScreenFits, Due

(* One step at the screen, when the imports that have ended stay. *)
LEMMA Shown ==
  ASSUME ScreenFits, UNCHANGED imported, CallsFit(calls'), ScreenShaped(screen'), ChoiceShaped(chosen'),
         screen'.status # "left" => Due(calls', screen', chosen')
  PROVE  ScreenFits'
  BY DEF ScreenFits

LEMMA StepAtFile ==
  ASSUME ScreenFits, screen.status # "left", NEW file \in DOMAIN Files, ChooseFile(file) PROVE ScreenFits'
<1> DEFINE y == [kind |-> "preview", file |-> file, sheet |-> "", named |-> screen.name # ""]
<1>1. /\ screen' = [file |-> file, preview |-> NoPreview, specs |-> <<>>,
                    name |-> Base[file], status |-> "previewing"]
      /\ calls' = Append(calls, y) /\ chosen' = [file |-> file, sheet |-> 1, cleared |-> "no"]
      /\ UNCHANGED imported
  BY DEF ChooseFile, LoadPreview
<1>2. y.kind = "preview" /\ y.file = file /\ y.sheet = ""
  OBVIOUS
<1> HIDE DEF y
<1>3. Asks(y, chosen')
  <2>1. Selected(file, "") # 0 => Selected(file, "") = 1
    BY SelectedThere, TrimAssumption
  <2> QED BY <1>1, <1>2, <2>1 DEF Asks, Hits
<1>4. CallsFit(calls') /\ Len(calls') # 0 /\ calls'[Len(calls')] = y
  <2>1. CallsFit(calls) /\ calls' = Append(calls, y) /\ y.kind = "preview" /\ y.file \in DOMAIN Files
    BY <1>1, <1>2 DEF ScreenFits
  <2> QED BY Zenon, <2>1, OneCallMore
<1>5. Due(calls', screen', chosen')
  BY <1>2, <1>3, <1>4 DEF Due
<1>6. ScreenShaped(screen') /\ ChoiceShaped(chosen')
  BY <1>1 DEF ScreenShaped, ChoiceShaped
<1> QED BY <1>1, <1>4, <1>5, <1>6, Shown

LEMMA StepAtClear ==
  ASSUME ScreenFits, screen.status # "left", ClearFile PROVE ScreenFits'
<1> DEFINE cleared == IF \E i \in DOMAIN calls : calls[i].kind = "preview" THEN "unanswered" ELSE "answered"
<1>1. /\ screen' = EmptyScreen /\ chosen' = [chosen EXCEPT !.cleared = cleared]
      /\ UNCHANGED <<calls, imported>> /\ chosen.cleared = "no"
  BY Zenon DEF ClearFile
<1>2. chosen' = [file |-> chosen.file, sheet |-> chosen.sheet, cleared |-> cleared]
  <2> HIDE DEF cleared
  <2> QED BY <1>1 DEF ScreenFits, ChoiceShaped
<1>3. ScreenShaped(screen') /\ screen'.preview = NoPreview
  BY <1>1 DEF ScreenShaped, EmptyScreen
<1>4. ChoiceShaped(chosen') /\ chosen'.file = chosen.file /\ chosen'.sheet = chosen.sheet /\ chosen'.cleared = cleared
  <2> HIDE DEF cleared
  <2> QED BY <1>2 DEF ChoiceShaped
<1>5. calls' = calls /\ UNCHANGED imported /\ CallsFit(calls) /\ Due(calls, screen, chosen)
  BY <1>1 DEF ScreenFits
<1>6. Due(calls', screen', chosen')
  <2>1. CASE Len(calls) = 0 \/ calls[Len(calls)].kind = "import"
    BY <1>3, <1>5, <2>1 DEF Due
  <2>2. CASE ~(Len(calls) = 0 \/ calls[Len(calls)].kind = "import")
    <3>1. Asks(calls[Len(calls)], chosen)
      BY Zenon, <1>5, <2>2 DEF Due
    <3>2. cleared = "unanswered"
      <4>1. PICK T : calls \in Seq(T)
        BY <1>5 DEF CallsFit
      <4>2. Len(calls) \in DOMAIN calls
        BY <2>2, <4>1
      <4>3. calls[Len(calls)].kind = "preview"
        BY <1>5, <2>2, <4>2 DEF CallsFit
      <4> QED BY <4>2, <4>3
    <3> HIDE DEF cleared
    <3>3. Asks(calls[Len(calls)], chosen')
      BY <1>4, <3>1, <3>2 DEF Asks, Hits
    <3> QED BY Zenon, <1>5, <2>2, <3>3 DEF Due
  <2> QED BY Zenon, <2>1, <2>2
<1> QED BY <1>3, <1>4, <1>5, <1>6, Shown

LEMMA NothingDue ==
  ASSUME ScreenFits, screen.status # "left", ~Pending, screen.preview # NoPreview
  PROVE  Agrees(screen.file, screen.preview, chosen) /\ calls = <<>>
<1>1. calls = <<>>
  BY DEF Pending
<1>2. Len(calls) = 0
  <2>1. Len(<<>>) = 0
    OBVIOUS
  <2> QED BY Zenon, <1>1, <2>1
<1> QED BY <1>1, <1>2 DEF ScreenFits, Due

LEMMA StepAtSheet ==
  ASSUME ScreenFits, screen.status # "left", NEW k, ChooseSheet(k) PROVE ScreenFits'
<1> DEFINE value == OptionValue(Files[screen.preview.file][k].name)
<1> DEFINE y == [kind |-> "preview", file |-> screen.file, sheet |-> value, named |-> screen.name # ""]
<1>1. /\ screen' = [screen EXCEPT !.status = "previewing"] /\ calls' = Append(calls, y)
      /\ chosen' = [chosen EXCEPT !.sheet = k] /\ UNCHANGED imported
      /\ ~Pending /\ screen.preview # NoPreview /\ k \in DOMAIN Files[screen.preview.file]
  BY DEF ChooseSheet, LoadPreview
<1>2. Agrees(screen.file, screen.preview, chosen) /\ calls = <<>>
  BY <1>1, NothingDue
<1>3. screen.preview.file = screen.file /\ screen.file = chosen.file /\ screen.file \in DOMAIN Files
  BY <1>2 DEF Agrees, Seen
<1>4. ScreenShaped(screen') /\ chosen' = [file |-> chosen.file, sheet |-> k, cleared |-> chosen.cleared]
  BY <1>1 DEF ScreenFits, ScreenShaped, ChoiceShaped
<1>5. y.kind = "preview" /\ y.file = screen.file /\ y.sheet = value
  OBVIOUS
<1> HIDE DEF y
<1>6. Hits(y.file, y.sheet, chosen')
  <2> SUFFICES ASSUME Lasting(Files[screen.file][k].name) PROVE Selected(screen.file, value) = k
    BY <1>3, <1>4, <1>5 DEF Hits
  <2>1. value = Files[screen.file][k].name /\ Trim(value) = value
    BY <1>3 DEF Lasting
  <2> HIDE DEF value
  <2> QED BY <1>1, <1>3, <2>1, SelectedByName
<1>7. Asks(y, chosen') /\ ChoiceShaped(chosen')
  <2>1. /\ chosen'.file = chosen.file /\ chosen'.cleared = chosen.cleared /\ chosen.cleared # "answered"
        /\ ChoiceShaped(chosen')
    BY <1>2, <1>4 DEF Agrees, ChoiceShaped
  <2> HIDE DEF value
  <2> QED BY <1>3, <1>5, <1>6, <2>1 DEF Asks
<1> HIDE DEF value
<1>8. CallsFit(calls') /\ Len(calls') # 0 /\ calls'[Len(calls')] = y
  BY <1>1, <1>3, <1>5, OneCallMore DEF ScreenFits
<1>9. Due(calls', screen', chosen')
  BY <1>5, <1>7, <1>8 DEF Due
<1>10. UNCHANGED imported
  BY <1>1
<1> QED BY <1>4, <1>7, <1>8, <1>9, <1>10, Shown

LEMMA StepAtForm ==
  ASSUME ScreenFits, screen.status # "left",
         (\E i \in DOMAIN screen.specs : UpdateVariable(i)) \/ \E name : SetDatasetName(name)
  PROVE  ScreenFits'
<1>1. /\ UNCHANGED <<chosen, calls, imported>> /\ ScreenShaped(screen')
      /\ screen'.file = screen.file /\ screen'.preview = screen.preview
  <2>1. CASE \E i \in DOMAIN screen.specs : UpdateVariable(i)
    <3>1. PICK i, patched : screen' = [screen EXCEPT !.specs[i] = patched] /\ UNCHANGED <<chosen, calls, imported>>
      BY Zenon, <2>1 DEF UpdateVariable
    <3> QED BY <3>1 DEF ScreenFits, ScreenShaped
  <2>2. CASE \E name : SetDatasetName(name)
    <3>1. PICK name : screen' = [screen EXCEPT !.name = name] /\ UNCHANGED <<chosen, calls, imported>>
      BY Zenon, <2>2 DEF SetDatasetName
    <3> QED BY <3>1 DEF ScreenFits, ScreenShaped
  <2> QED BY <2>1, <2>2
<1>2. calls' = calls /\ chosen' = chosen /\ UNCHANGED imported
  BY <1>1
<1>3. Due(calls', screen', chosen')
  BY <1>1, <1>2 DEF ScreenFits, Due
<1> QED BY <1>1, <1>2, <1>3, Shown DEF ScreenFits

LEMMA StepAtButton ==
  ASSUME ScreenFits, screen.status # "left", RunImport PROVE ScreenFits'
<1> DEFINE y == [kind |-> "import", file |-> screen.file, preview |-> screen.preview,
                 specs |-> screen.specs, name |-> screen.name, meant |-> chosen]
<1>1. /\ screen' = [screen EXCEPT !.status = "importing"] /\ calls' = Append(calls, y)
      /\ UNCHANGED <<chosen, imported>> /\ Importable /\ screen.preview # NoPreview
  BY DEF RunImport
<1>2. Agrees(screen.file, screen.preview, chosen) /\ calls = <<>>
  BY <1>1, NothingDue DEF Importable
<1>3. ScreenShaped(screen') /\ screen'.file = screen.file /\ screen'.preview = screen.preview
  BY <1>1 DEF ScreenFits, ScreenShaped
<1>4. y.kind = "import" /\ ImportCall(y)
  BY <1>1, <1>2 DEF ImportCall, Importable
<1> HIDE DEF y
<1>5. CallsFit(calls') /\ Len(calls') # 0 /\ calls'[Len(calls')] = y
  BY <1>1, <1>2, <1>4, OneCallMore DEF ScreenFits
<1>6. chosen' = chosen /\ UNCHANGED imported
  BY <1>1
<1>7. Due(calls', screen', chosen')
  BY <1>2, <1>3, <1>4, <1>5, <1>6 DEF Due
<1> QED BY <1>3, <1>5, <1>6, <1>7, Shown DEF ScreenFits

LEMMA StillDue ==
  ASSUME NEW s, CallsFit(s), s # <<>>, NEW x, NEW last, Due(s, x, last), Len(s) > 1, NEW y
  PROVE  Due(Tail(s), y, last)
<1>1. /\ Len(s) \in Nat /\ Len(Tail(s)) = Len(s) - 1 /\ s[Len(s)].kind = "preview"
      /\ Tail(s)[Len(s) - 1] = s[Len(s)]
  BY OneCallLess
<1>2. Len(s) # 0 /\ Len(Tail(s)) # 0 /\ s[Len(s)].kind # "import" /\ Tail(s)[Len(Tail(s))] = s[Len(s)]
  BY <1>1
<1> QED BY <1>2 DEF Due

LEMMA StepAtPreview ==
  ASSUME ScreenFits, Pending, screen.status # "left", calls' = Tail(calls), UNCHANGED chosen,
         NEW lost \in BOOLEAN, PreviewReplied(lost)
  PROVE  ScreenFits'
<1> DEFINE call == Head(calls)
<1> DEFINE preview == IF lost THEN NoPreview ELSE Preview(call)
<1>1. /\ call.kind = "preview" /\ UNCHANGED imported
      /\ screen' = IF preview = NoPreview
                   THEN [screen EXCEPT !.preview = NoPreview, !.specs = <<>>, !.status = "error"]
                   ELSE [file |-> call.file, preview |-> preview, specs |-> preview.specs,
                         name |-> IF call.named THEN screen.name ELSE Base[call.file],
                         status |-> "ready"]
  BY Zenon DEF PreviewReplied
<1>2. CallsFit(calls) /\ calls # <<>>
  BY DEF ScreenFits, Pending
<1>3. /\ Len(calls) \in Nat /\ Len(calls) >= 1 /\ call = calls[1]
      /\ CallsFit(calls') /\ Len(calls') = Len(calls) - 1
  BY <1>2, OneCallLess
<1>4. call.file \in DOMAIN Files
  <2>1. 1 \in DOMAIN calls
    BY <1>2, <1>3 DEF CallsFit
  <2> HIDE DEF call
  <2> QED BY <1>1, <1>2, <1>3, <2>1 DEF CallsFit
<1>5. preview # NoPreview => preview = Preview(call)
  OBVIOUS
<1>6. Due(calls, screen, chosen)
  BY DEF ScreenFits
<1> HIDE DEF call, preview
<1>7. ScreenShaped(screen')
  <2>1. CASE preview = NoPreview
    <3>1. screen' = [screen EXCEPT !.preview = NoPreview, !.specs = <<>>, !.status = "error"]
      BY <1>1, <2>1
    <3> QED BY <3>1 DEF ScreenFits, ScreenShaped
  <2>2. CASE preview # NoPreview
    BY <1>1, <2>2 DEF ScreenShaped
  <2> QED BY <2>1, <2>2
<1>8. CASE Len(calls) > 1
  <2>1. Due(Tail(calls), screen', chosen)
    BY <1>2, <1>6, <1>8, StillDue
  <2>2. Due(calls', screen', chosen') /\ ChoiceShaped(chosen')
    BY <2>1 DEF ScreenFits
  <2> QED BY <1>1, <1>3, <1>7, <2>2, Shown
<1>9. CASE Len(calls) = 1
  <2>1. Asks(call, chosen)
    BY <1>1, <1>3, <1>6, <1>9 DEF Due
  <2>2. screen'.preview # NoPreview => Agrees(screen'.file, screen'.preview, chosen)
    <3>1. CASE preview = NoPreview
      <4>1. screen' = [screen EXCEPT !.preview = NoPreview, !.specs = <<>>, !.status = "error"]
        BY <1>1, <3>1
      <4> QED BY <4>1 DEF ScreenFits, ScreenShaped
    <3>2. CASE preview # NoPreview
      <4>1. screen'.file = call.file /\ screen'.preview = preview
        BY <1>1, <3>2
      <4>2. Agrees(call.file, preview, chosen)
        BY <1>4, <1>5, <2>1, <3>2, AnswerAgrees
      <4> QED BY <4>1, <4>2
    <3> QED BY <3>1, <3>2
  <2>3. Len(calls') = 0
    BY <1>3, <1>9
  <2>4. Due(calls', screen', chosen)
    BY <2>2, <2>3 DEF Due
  <2> QED BY <1>1, <1>3, <1>7, <2>4, Shown DEF ScreenFits
<1>10. Len(calls) > 1 \/ Len(calls) = 1
  <2>1. Len(calls) \in Nat /\ Len(calls) >= 1
    BY <1>3
  <2> QED BY Zenon, <2>1, OneOrMore
<1> QED BY Zenon, <1>8, <1>9, <1>10

LEMMA StepAtImport ==
  ASSUME ScreenFits, Pending, screen.status # "left", calls' = Tail(calls), UNCHANGED chosen,
         NEW lost \in BOOLEAN, ImportReplied(lost)
  PROVE  ScreenFits'
<1> DEFINE call == Head(calls)
<1> DEFINE why == Refusal(call)
<1> DEFINE y == [call |-> call, why |-> why]
<1>1. /\ call.kind = "import" /\ imported' = Append(imported, y)
      /\ screen' = IF why = "" /\ ~lost
                   THEN [EmptyScreen EXCEPT !.status = "left"]
                   ELSE [screen EXCEPT !.status = "error"]
  BY Zenon DEF ImportReplied
<1>2. CallsFit(calls) /\ calls # <<>>
  BY DEF ScreenFits, Pending
<1>3. /\ Len(calls) \in Nat /\ Len(calls) >= 1 /\ call = calls[1]
      /\ CallsFit(calls') /\ Len(calls') = Len(calls) - 1
  BY <1>2, OneCallLess
<1>4. ImportCall(call)
  <2>1. 1 \in DOMAIN calls
    BY <1>2, <1>3 DEF CallsFit
  <2> HIDE DEF call
  <2> QED BY <1>1, <1>2, <1>3, <2>1 DEF CallsFit
<1>5. y.call = call /\ y.why = Refusal(call)
  OBVIOUS
<1> HIDE DEF call, y
<1>6. ImportCall(y.call) /\ Predicted(y)
  BY <1>4, <1>5, RefusalPredicted
<1>7. /\ \E T : imported' \in Seq(T)
      /\ \A i \in DOMAIN imported' : ImportCall(imported'[i].call) /\ Predicted(imported'[i])
  <2>1. PICK T : imported \in Seq(T)
    BY DEF ScreenFits
  <2>2. Append(imported, y) \in Seq(T \cup {y})
    <3>1. imported \in Seq(T \cup {y}) /\ y \in T \cup {y}
      BY <2>1
    <3> QED BY <3>1
  <2>0. imported' = Append(imported, y)
    BY <1>1
  <2>3. /\ DOMAIN imported' = DOMAIN imported \cup {Len(imported) + 1} /\ imported'[Len(imported) + 1] = y
        /\ \A i \in DOMAIN imported : imported'[i] = imported[i]
    BY <2>0, <2>1
  <2>4. \E U : imported' \in Seq(U)
    BY Zenon, <1>1, <2>2
  <2> QED BY <1>6, <2>3, <2>4 DEF ScreenFits
<1>8. ScreenShaped(screen') /\ (screen'.status # "left" => screen' = [screen EXCEPT !.status = "error"])
  <2>1. CASE why = "" /\ ~lost
    BY <1>1, <2>1 DEF ScreenShaped, EmptyScreen
  <2>2. CASE ~(why = "" /\ ~lost)
    <3>1. screen' = [screen EXCEPT !.status = "error"]
      BY <1>1, <2>2
    <3> QED BY <3>1 DEF ScreenFits, ScreenShaped
  <2> QED BY <2>1, <2>2
<1>9. ASSUME screen'.status # "left" PROVE Due(calls', screen', chosen)
  <2>1. Due(calls, screen, chosen)
    BY DEF ScreenFits
  <2>2. CASE Len(calls) > 1
    <3>1. Due(Tail(calls), screen', chosen)
      BY <1>2, <2>1, <2>2, StillDue
    <3> QED BY <3>1
  <2>3. CASE Len(calls) = 1
    <3>1. screen'.preview = screen.preview /\ screen'.file = screen.file
      <4>1. screen' = [screen EXCEPT !.status = "error"]
        BY <1>8, <1>9
      <4> QED BY <4>1 DEF ScreenFits, ScreenShaped
    <3>2. screen.preview # NoPreview => Agrees(screen.file, screen.preview, chosen)
      BY <1>1, <1>3, <2>1, <2>3 DEF Due
    <3>3. Len(calls') = 0
      BY <1>3, <2>3
    <3> QED BY <3>1, <3>2, <3>3 DEF Due
  <2>4. Len(calls) > 1 \/ Len(calls) = 1
    <3>1. Len(calls) \in Nat /\ Len(calls) >= 1
      BY <1>3
    <3> QED BY Zenon, <3>1, OneOrMore
  <2> QED BY Zenon, <2>2, <2>3, <2>4
<1>10. chosen' = chosen
  OBVIOUS
<1> QED BY <1>3, <1>7, <1>8, <1>9, <1>10 DEF ScreenFits

LEMMA ScreenStep == ScreenFits /\ [Next]_vars => ScreenFits'
<1> SUFFICES ASSUME ScreenFits, [Next]_vars PROVE ScreenFits'
  OBVIOUS
<1>1. CASE UNCHANGED rawVars
  <2>1. calls' = calls /\ screen' = screen /\ chosen' = chosen /\ imported' = imported
    BY <1>1 DEF rawVars
  <2> QED BY <2>1 DEF ScreenFits
<1>2. CASE AtScreen
  <2>1. CASE screen.status # "left" /\ \E file \in DOMAIN Files : ChooseFile(file)
    BY <2>1, StepAtFile
  <2>2. CASE screen.status # "left" /\ \E k : ChooseSheet(k)
    BY <2>2, StepAtSheet
  <2>3. CASE /\ screen.status # "left"
             /\ (\E i \in DOMAIN screen.specs : UpdateVariable(i)) \/ \E name : SetDatasetName(name)
    BY <2>3, StepAtForm
  <2>4. CASE screen.status # "left" /\ RunImport
    BY <2>4, StepAtButton
  <2>5. CASE Replied
    <3>1. /\ Pending /\ screen.status # "left" /\ calls' = Tail(calls) /\ UNCHANGED chosen
          /\ \E lost \in BOOLEAN : PreviewReplied(lost) \/ ImportReplied(lost)
      BY <2>5 DEF Replied
    <3> QED BY <3>1, StepAtPreview, StepAtImport
  <2>6. CASE screen.status # "left" /\ ClearFile
    BY <2>6, StepAtClear
  <2> QED BY Zenon, <1>2, <2>1, <2>2, <2>3, <2>4, <2>5, <2>6 DEF AtScreen
<1> QED BY <1>1, <1>2 DEF Next, vars

LEMMA ScreenTells == ScreenFits => ImportsAsShown
<1> SUFFICES ASSUME ScreenFits, NEW i \in DOMAIN imported, NEW call, call = imported[i].call
             PROVE  /\ call.file = call.meant.file /\ call.preview.file = call.file
                    /\ call.meant.cleared # "answered" /\ Hits(call.meant.file, call.preview.sheet, call.meant)
                    /\ Predicted(imported[i])
  BY Zenon DEF ImportsAsShown, LastChoiceWins, PreviewPredictsImport, Predicted, Hits
<1> QED BY DEF ScreenFits, ImportCall, Agrees, Seen

\* Whatever is chosen or cleared while previews are under way, and whatever of them is
\* lost, what is imported is of the file chosen last, not one that was cleared once
\* its preview was answered, and of the worksheet chosen last, if its name survives
\* the select and the trim; and what the preview inferred is not refused for its
\* names, its types or its columns (raw-data-import.tsx:33-103, 138, 241,
\* raw-dataset.ts:68-144, import/actions.ts:16-43).
THEOREM ImportsCorrect == Spec => []ImportsAsShown
<1> QED BY ScreenInit, ScreenStep, ScreenTells, PTL DEF Spec
-----------------------------------------------------------------------------
(* What a job may carry: a role that is hired, a state, a recipe there is. *)
JobKnown(job, n) ==
    /\ job[1] \in {"role", "invite"} => job[3] \in Roles
    /\ job[1] = "state" => job[3] \in {"active", "deactivated"}
    /\ job[1] \in {"run", "rerun"} => job[4] \in -1 .. n

RequestKnown(x, n) == x.phase # "idle" => x.lawful \in BOOLEAN /\ JobKnown(x.job, n)

Memberships == [role : Roles, state : {"active", "deactivated", "none"}]

RecordsFit ==
    /\ members \in [Members -> Memberships]
    /\ Sequence(recipes) /\ \A i \in DOMAIN runs : runs[i].recipe \in 0 .. Len(recipes)
    /\ \A r \in Requests : RequestKnown(req[r], Len(recipes))

LEMMA AllowedBoolean == \A u, action : Allowed(u, action) \in BOOLEAN
  BY DEF Allowed

LEMMA KnownLasts ==
  ASSUME NEW m \in Nat, NEW n \in Nat, m <= n, NEW x, RequestKnown(x, m)
  PROVE  RequestKnown(x, n)
  BY DEF RequestKnown, JobKnown

(* The others, whose history alone may change. *)
LEMMA OthersKnown ==
  ASSUME RequestsFit, NEW n, NEW r \in Requests, Request(r), NEW s \in Requests, s # r,
         RequestKnown(req[s], n)
  PROVE  RequestKnown(req'[s], n)
<1>1. CASE \E y : req' = [req EXCEPT ![r] = y]
  BY <1>1 DEF RequestsFit
<1>2. CASE Commit(r)
  <2> DEFINE rs == [req EXCEPT ![r] = NoRequest]
  <2>1. req' = Witnessed(members', rs) /\ rs[s] = req[s]
    BY <1>2 DEF Commit
  <2>2. CASE req[s].phase = "idle"
    <3>1. req'[s] = req[s]
      BY <2>1, <2>2 DEF Witnessed
    <3> QED BY <3>1
  <2>3. CASE req[s].phase # "idle"
    <3>1. Shaped(req[s])
      BY <2>3, BusyShaped
    <3> DEFINE able == /\ members'[req[s].by].state = "active"
                       /\ Can(members'[req[s].by].role, req[s].action)
    <3>2. req'[s] = [req[s] EXCEPT !.lawful = req[s].lawful \/ able]
      BY Zenon, <2>1, <2>3 DEF Witnessed
    <3> DEFINE b == req[s].lawful \/ able
    <3>3. b \in BOOLEAN
      BY Zenon
    <3>4. req'[s] = [req[s] EXCEPT !.lawful = b]
      BY Zenon, <3>2
    <3> HIDE DEF b
    <3>5. req'[s].lawful = b /\ req'[s].job = req[s].job
      BY <3>1, <3>4 DEF Shaped
    <3> QED BY <2>3, <3>3, <3>5 DEF RequestKnown
  <2> QED BY <2>2, <2>3
<1>3. CASE Administer(r) \/ OrderDataset(r) \/ OrderRun(r) \/ OrderIdea(r)
  BY <1>1, <1>3 DEF Administer, OrderDataset, OrderRun, OrderIdea, Arrive
<1>4. CASE Authorize(r) \/ Write(r) \/ RollBack(r)
  BY <1>1, <1>4 DEF Authorize, Write, RollBack, Goes, Ends
<1>5. CASE Handles(r)
  BY Zenon, <1>1, <1>5 DEF Handles, CreateFeatureRequest, CheckOwner, LockIdea, WriteIdea, IdeaDies,
     Throws, Stores, Goes, Ends
<1>6. CASE Transacts(r)
  BY Zenon, <1>1, <1>6 DEF Transacts, Pick, Look, Begin, Insert, Derive, ReadRecipe, Prepare,
     Refuse, Step, Ends
<1>7. CASE Calls(r)
  BY <1>1, <1>7 DEF Calls, Answer, TimesOut, Returns, Again, Finalize, FinalizeFails, Dies,
     Goes, Ends
<1> QED BY <1>2, <1>3, <1>4, <1>5, <1>6, <1>7 DEF Request

LEMMA ArriveKnown ==
  ASSUME RequestsFit, NEW r \in Requests, NEW u, NEW action, NEW job, NEW n,
         JobKnown(job, n), Arrive(r, u, action, job)
  PROVE  RequestKnown(req'[r], n)
<1>1. req'[r].job = job /\ req'[r].lawful = Allowed(u, action)
  BY DEF Arrive, RequestsFit
<1> QED BY <1>1, AllowedBoolean DEF RequestKnown

LEMMA GoesKnown ==
  ASSUME RequestsFit, NEW r \in Requests, req[r].phase # "idle", NEW n, RequestKnown(req[r], n),
         Ends(r) \/ \E p, w : Goes(r, p) \/ Step(r, p, w)
  PROVE  RequestKnown(req'[r], n)
<1>1. CASE Ends(r)
  BY <1>1, EndsIdle DEF RequestKnown
<1>2. ASSUME NEW p, NEW w, Goes(r, p) \/ Step(r, p, w) PROVE RequestKnown(req'[r], n)
  <2>1. Shaped(req[r]) /\ DOMAIN req = Requests
    BY BusyShaped DEF RequestsFit
  <2>2. req'[r] = [req[r] EXCEPT !.phase = p] \/ req'[r] = [req[r] EXCEPT !.phase = p, !.work = w]
    BY Zenon, <1>2, <2>1 DEF Goes, Step
  <2>3. req'[r].job = req[r].job /\ req'[r].lawful = req[r].lawful
    BY <2>1, <2>2 DEF Shaped
  <2> QED BY <2>3 DEF RequestKnown
<1> QED BY <1>1, <1>2

LEMMA OrdersKnown ==
  ASSUME RequestsFit, RecordsFit, NEW r \in Requests,
         Administer(r) \/ OrderDataset(r) \/ OrderRun(r) \/ OrderIdea(r)
  PROVE  RequestKnown(req'[r], Len(recipes))
<1>1. PICK S : recipes \in Seq(S)
  BY DEF RecordsFit, Sequence
<1>2. Len(recipes) \in Nat /\ DOMAIN recipes = 1 .. Len(recipes)
  BY <1>1
<1>3. CASE Administer(r)
  <2>1. PICK u \in Members, v \in Members, role \in Hires, state \in {"active", "deactivated"} :
          \E action :
          \/ Arrive(r, u, action, <<"role", v, role>>)
          \/ Arrive(r, u, action, <<"state", v, state>>)
          \/ Arrive(r, u, action, <<"invite", v, role>>)
    BY Zenon, <1>3 DEF Administer
  <2>2. role \in Roles
    BY MembershipAssumption
  <2>3. /\ JobKnown(<<"role", v, role>>, Len(recipes)) /\ JobKnown(<<"state", v, state>>, Len(recipes))
        /\ JobKnown(<<"invite", v, role>>, Len(recipes))
    BY <2>2 DEF JobKnown
  <2> QED BY Zenon, <2>1, <2>3, ArriveKnown
<1>4. CASE OrderDataset(r)
  <2>1. PICK u, s, k, action : \/ Arrive(r, u, action, <<"build", s>>)
                               \/ Arrive(r, u, action, <<"derive", s, k>>)
    BY Zenon, <1>4 DEF OrderDataset
  <2>2. JobKnown(<<"build", s>>, Len(recipes)) /\ JobKnown(<<"derive", s, k>>, Len(recipes))
    BY DEF JobKnown
  <2> QED BY Zenon, <2>1, <2>2, ArriveKnown
<1>5. CASE OrderRun(r)
  <2>1. PICK u, name, k, action : \/ \E recipe \in {0, -1} : Arrive(r, u, action, <<"run", name, k, recipe>>)
                                  \/ \E recipe \in DOMAIN recipes :
                                        Arrive(r, u, action, <<"rerun", name, k, recipe>>)
    BY Zenon, <1>5 DEF OrderRun
  <2>2. ASSUME NEW recipe \in -1 .. Len(recipes)
        PROVE  /\ JobKnown(<<"run", name, k, recipe>>, Len(recipes))
               /\ JobKnown(<<"rerun", name, k, recipe>>, Len(recipes))
    BY DEF JobKnown
  <2>3. 0 \in -1 .. Len(recipes) /\ -1 \in -1 .. Len(recipes) /\ DOMAIN recipes \subseteq -1 .. Len(recipes)
    BY <1>2
  <2> QED BY <2>1, <2>2, <2>3, ArriveKnown
<1>6. CASE OrderIdea(r)
  <2>1. PICK u, f, x, y, action : \/ Arrive(r, u, action, <<"suggest">>)
                                  \/ Arrive(r, u, action, <<"update", f, x, y>>)
    BY Zenon, <1>6 DEF OrderIdea
  <2>2. JobKnown(<<"suggest">>, Len(recipes)) /\ JobKnown(<<"update", f, x, y>>, Len(recipes))
    BY DEF JobKnown
  <2> QED BY Zenon, <2>1, <2>2, ArriveKnown
<1> QED BY <1>3, <1>4, <1>5, <1>6
-----------------------------------------------------------------------------
(* A step of a request, when the records it leaves are what they should be. *)
LEMMA RecordsBecome ==
  ASSUME RequestsFit, RecordsFit, NEW r \in Requests, Request(r), members' \in [Members -> Memberships],
         Sequence(recipes'), Len(recipes) <= Len(recipes'),
         \A i \in DOMAIN runs' : runs'[i].recipe \in 0 .. Len(recipes'),
         RequestKnown(req'[r], Len(recipes'))
  PROVE  RecordsFit'
<1>1. Len(recipes) \in Nat /\ Len(recipes') \in Nat
  <2>1. PICK S, T : recipes \in Seq(S) /\ recipes' \in Seq(T)
    BY DEF RecordsFit, Sequence
  <2> QED BY <2>1
<1>2. ASSUME NEW s \in Requests PROVE RequestKnown(req'[s], Len(recipes'))
  <2>1. RequestKnown(req[s], Len(recipes))
    BY DEF RecordsFit
  <2>2. CASE s # r
    BY <1>1, <2>1, <2>2, KnownLasts, OthersKnown
  <2> QED BY <2>2
<1> QED BY <1>2 DEF RecordsFit

LEMMA RecordsStay ==
  ASSUME RequestsFit, RecordsFit, NEW r \in Requests, Request(r), UNCHANGED <<members, recipes, runs>>,
         RequestKnown(req'[r], Len(recipes))
  PROVE  RecordsFit'
<1>1. Len(recipes) <= Len(recipes)
  <2>1. PICK S : recipes \in Seq(S)
    BY DEF RecordsFit, Sequence
  <2> QED BY <2>1
<1>2. /\ members \in [Members -> Memberships] /\ Sequence(recipes)
      /\ \A i \in DOMAIN runs : runs[i].recipe \in 0 .. Len(recipes)
  BY DEF RecordsFit
<1> QED BY <1>1, <1>2, RecordsBecome

(* A change of the members, as its job says. *)
LEMMA CommitRecords ==
  ASSUME RequestsFit, RecordsFit, NEW r \in Requests, Request(r), Commit(r), UNCHANGED <<recipes, runs>>
  PROVE  RecordsFit'
<1> DEFINE job == req[r].job
<1> DEFINE v == job[2]
<1>1. /\ req[r].phase = "written" /\ members' = [members EXCEPT ![v] = Changed(members[v], job)]
      /\ req' = Witnessed(members', [req EXCEPT ![r] = NoRequest])
  BY DEF Commit, At
<1>2. job[1] \in Jobs /\ v \in Members /\ JobKnown(job, Len(recipes))
  BY <1>1 DEF RequestsFit, Fits, JobFits, NoRequest, RecordsFit, RequestKnown
<1>3. members \in [Members -> Memberships] /\ members[v] \in Memberships
  BY <1>2 DEF RecordsFit
<1>4. Changed(members[v], job) \in Memberships
  <2> DEFINE m == members[v]
  <2> SUFFICES Changed(m, job) \in Memberships
    OBVIOUS
  <2>1. /\ m = [role |-> m.role, state |-> m.state] /\ m.role \in Roles
        /\ m.state \in {"active", "deactivated", "none"}
    BY <1>3 DEF Memberships
  <2> HIDE DEF m, job
  <2>2. CASE job[1] = "role"
    <3>1. Changed(m, job) = [m EXCEPT !.role = job[3]] /\ job[3] \in Roles
      BY <1>2, <2>2 DEF Changed, JobKnown
    <3> QED BY <2>1, <3>1 DEF Memberships
  <2>3. CASE job[1] = "state"
    <3>1. Changed(m, job) = [m EXCEPT !.state = job[3]] /\ job[3] \in {"active", "deactivated"}
      BY <1>2, <2>3 DEF Changed, JobKnown
    <3> QED BY <2>1, <3>1 DEF Memberships
  <2>4. CASE job[1] = "invite"
    <3>1. Changed(m, job) = [role |-> job[3], state |-> "active"] /\ job[3] \in Roles
      BY <1>2, <2>4 DEF Changed, JobKnown
    <3> QED BY <3>1 DEF Memberships
  <2> QED BY <1>2, <2>2, <2>3, <2>4 DEF Jobs
<1>5. members' \in [Members -> Memberships]
  BY <1>1, <1>3, <1>4
<1>6. req'[r].phase = "idle"
  <2>1. [req EXCEPT ![r] = NoRequest][r].phase = "idle"
    BY DEF RequestsFit, NoRequest
  <2> QED BY <1>1, <2>1 DEF Witnessed
<1>7. RequestKnown(req'[r], Len(recipes))
  BY <1>6 DEF RequestKnown
<1>8. Len(recipes) <= Len(recipes)
  <2>1. PICK S : recipes \in Seq(S)
    BY DEF RecordsFit, Sequence
  <2> QED BY <2>1
<1> QED BY <1>5, <1>7, <1>8, RecordsBecome DEF RecordsFit

(* A run of a recipe that is there, of a new one, or of none. *)
LEMMA PrepareRecords ==
  ASSUME RequestsFit, RunsFit, RecordsFit, NEW r \in Requests, Request(r), Prepare(r)
  PROVE  RecordsFit'
<1> DEFINE name == req[r].job[2]
<1> DEFINE recipe == req[r].job[4]
<1>1. req[r].phase = "authorized" /\ req[r].job[1] = "run" /\ members' = members
  BY Zenon DEF Prepare, Works, At
<1>2. CASE Refuse(r, "not found")
  <2>1. RequestKnown(req'[r], Len(recipes))
    BY <1>2, EndsIdle DEF Refuse, RequestKnown
  <2> QED BY <1>1, <1>2, <2>1, RecordsStay DEF Refuse
<1>3. ASSUME NEW w, NEW of, Step(r, "calling", w),
             recipes' = IF recipe = -1 THEN Append(recipes, name) ELSE recipes,
             runs' = Append(runs, [of |-> of, recipe |-> IF recipe = -1 THEN Len(recipes) + 1 ELSE recipe,
                                   status |-> "running", verdict |-> "none"])
      PROVE  RecordsFit'
  <2> DEFINE one == IF recipe = -1 THEN Len(recipes) + 1 ELSE recipe
  <2> DEFINE x == [of |-> of, recipe |-> one, status |-> "running", verdict |-> "none"]
  <2>1. PICK S, T : recipes \in Seq(S) /\ runs \in Seq(T)
    BY DEF RecordsFit, RunsFit, Sequence
  <2>2. recipe \in -1 .. Len(recipes)
    BY <1>1 DEF RecordsFit, RequestKnown, JobKnown
  <2>3. x.recipe = one /\ runs' = Append(runs, x)
    BY <1>3
  <2>4. RequestKnown(req'[r], Len(recipes))
    BY <1>1, <1>3, GoesKnown DEF RecordsFit
  <2> HIDE DEF x, name, recipe
  <2>5. /\ Sequence(recipes') /\ Len(recipes) <= Len(recipes') /\ Len(recipes') \in Nat
        /\ one \in 0 .. Len(recipes') /\ Len(recipes) \in Nat
    <3>1. CASE recipe = -1
      <4>1. recipes' = Append(recipes, name)
        BY <1>3, <3>1
      <4>2. recipes' \in Seq(S \cup {name}) /\ Len(recipes') = Len(recipes) + 1 /\ Len(recipes) \in Nat
        BY <2>1, <4>1
      <4> QED BY <3>1, <4>2 DEF Sequence
    <3>2. CASE recipe # -1
      <4>1. recipes' = recipes /\ Len(recipes) \in Nat
        BY <1>3, <2>1, <3>2
      <4> QED BY <2>1, <2>2, <3>2, <4>1 DEF Sequence
    <3> QED BY <3>1, <3>2
  <2>6. \A i \in DOMAIN runs' : (i \in DOMAIN runs /\ runs'[i] = runs[i]) \/ runs'[i] = x
    BY <2>1, <2>3
  <2>7. \A i \in DOMAIN runs' : runs'[i].recipe \in 0 .. Len(recipes')
    BY <2>3, <2>5, <2>6 DEF RecordsFit
  <2>8. RequestKnown(req'[r], Len(recipes'))
    BY <2>4, <2>5, KnownLasts
  <2> QED BY <1>1, <2>5, <2>7, <2>8, RecordsBecome DEF RecordsFit
<1> QED BY Zenon, <1>2, <1>3 DEF Prepare

(* The service has answered, and the run ends. *)
LEMMA CallsRecords ==
  ASSUME RequestsFit, RunsFit, RecordsFit, NEW r \in Requests, Request(r), Calls(r) PROVE RecordsFit'
<1>1. members' = members /\ recipes' = recipes /\ req[r].phase # "idle"
  BY DEF Calls, Answer, TimesOut, Returns, Again, Finalize, FinalizeFails, Dies, dataVars, Works, At
<1>2. RequestKnown(req[r], Len(recipes)) /\ Shaped(req[r]) /\ DOMAIN req = Requests
  BY <1>1, BusyShaped DEF RecordsFit, RequestsFit
<1>3. RequestKnown(req'[r], Len(recipes))
  <2>1. CASE Again(r) \/ Finalize(r) \/ FinalizeFails(r) \/ Dies(r)
    <3>1. Ends(r) \/ \E p : Goes(r, p)
      BY Zenon, <2>1 DEF Again, Finalize, FinalizeFails, Dies
    <3> QED BY <1>1, <1>2, <3>1, GoesKnown
  <2>2. ASSUME NEW verdict, Returns(r, verdict) PROVE RequestKnown(req'[r], Len(recipes))
    <3>1. req'[r] = [req[r] EXCEPT !.phase = "answered", !.lawful = Allowed(req[r].by, req[r].action)]
      BY Zenon, <1>2, <2>2 DEF Returns
    <3>2. req'[r].job = req[r].job /\ req'[r].lawful = Allowed(req[r].by, req[r].action)
      BY <1>2, <3>1 DEF Shaped
    <3> QED BY <1>1, <1>2, <3>2, AllowedBoolean DEF RequestKnown
  <2> QED BY <2>1, <2>2 DEF Calls, Answer, TimesOut
<1>4. \A i \in DOMAIN runs' : i \in DOMAIN runs /\ runs'[i].recipe = runs[i].recipe
  <2>1. CASE runs' = runs
    BY <2>1
  <2>2. ASSUME NEW n, NEW x, runs' = [runs EXCEPT ![n] = x], x.recipe = runs[n].recipe
        PROVE  \A i \in DOMAIN runs' : i \in DOMAIN runs /\ runs'[i].recipe = runs[i].recipe
    BY <2>2
  <2>3. ASSUME NEW verdict, Returns(r, verdict)
        PROVE  \A i \in DOMAIN runs' : i \in DOMAIN runs /\ runs'[i].recipe = runs[i].recipe
    <3> DEFINE n == req[r].work.run
    <3> DEFINE x == [runs[n] EXCEPT !.verdict = verdict]
    <3>1. n \in DOMAIN runs /\ RunFits(runs[n])
      BY <2>3 DEF Returns, Works, At, RunsFit, WaitFits, Waits
    <3>2. x.recipe = runs[n].recipe
      BY <3>1 DEF RunFits
    <3>3. runs' = [runs EXCEPT ![n] = x]
      BY Zenon, <2>3, <3>1 DEF Returns
    <3> HIDE DEF x, n
    <3> QED BY <2>2, <3>2, <3>3
  <2>4. CASE Finalize(r)
    <3> DEFINE n == req[r].work.run
    <3> DEFINE y == IF runs[n].verdict = "ok" THEN "succeeded" ELSE "failed"
    <3> DEFINE x == [runs[n] EXCEPT !.status = y]
    <3>1. n \in DOMAIN runs /\ RunFits(runs[n])
      BY <2>4 DEF Finalize, Works, At, RunsFit, WaitFits, Waits
    <3>2. x.recipe = runs[n].recipe
      BY <3>1 DEF RunFits
    <3>3. runs' = runs \/ runs' = [runs EXCEPT ![n] = x]
      BY Zenon, <2>4, <3>1 DEF Finalize, Abandoned
    <3> HIDE DEF x, n
    <3> QED BY <2>1, <2>2, <3>2, <3>3
  <2>5. CASE Again(r) \/ FinalizeFails(r) \/ Dies(r)
    BY <2>1, <2>5 DEF Again, FinalizeFails, Dies, Abandoned, dataVars
  <2> QED BY <2>3, <2>4, <2>5 DEF Calls, Answer, TimesOut
<1>5. Len(recipes) <= Len(recipes)
  <2>1. PICK S : recipes \in Seq(S)
    BY DEF RecordsFit, Sequence
  <2> QED BY <2>1
<1>6. \A i \in DOMAIN runs' : runs'[i].recipe \in 0 .. Len(recipes)
  BY <1>4 DEF RecordsFit
<1> QED BY <1>1, <1>3, <1>5, <1>6, RecordsBecome DEF RecordsFit

LEMMA RequestRecords ==
  ASSUME RequestsFit, RunsFit, RecordsFit, NEW r \in Requests, Request(r) PROVE RecordsFit'
<1>1. RequestKnown(req[r], Len(recipes))
  BY DEF RecordsFit
<1>2. CASE UNCHANGED dataVars /\ (Administer(r) \/ OrderDataset(r) \/ OrderIdea(r) \/ OrderRun(r))
  <2>1. members' = members
    BY <1>2 DEF Administer, OrderDataset, OrderIdea, OrderRun, Arrive
  <2> QED BY <1>2, <2>1, OrdersKnown, RecordsStay DEF dataVars
<1>3. CASE UNCHANGED dataVars /\ (Authorize(r) \/ Write(r) \/ RollBack(r))
  <2>1. members' = members /\ req[r].phase # "idle" /\ (Ends(r) \/ \E p : Goes(r, p))
    BY <1>3 DEF Authorize, Write, RollBack, At
  <2> QED BY <1>1, <1>3, <2>1, GoesKnown, RecordsStay DEF dataVars
<1>4. CASE UNCHANGED dataVars /\ Handles(r)
  <2>1. /\ members' = members /\ req[r].phase # "idle"
        /\ Ends(r) \/ \E p, w : Goes(r, p) \/ Step(r, p, w)
    BY Zenon, <1>4 DEF Handles, CreateFeatureRequest, CheckOwner, LockIdea, WriteIdea, IdeaDies,
       Throws, Stores, Step, Works, At
  <2> QED BY <1>1, <1>4, <2>1, GoesKnown, RecordsStay DEF dataVars
<1>5. CASE Pick(r) \/ Look(r) \/ Begin(r) \/ Insert(r) \/ Derive(r)
  <2>1. /\ UNCHANGED <<members, recipes, runs>> /\ req[r].phase # "idle"
        /\ Ends(r) \/ \E p, w : Step(r, p, w)
    BY Zenon, <1>5 DEF Pick, Look, Begin, Insert, Derive, Refuse, Works, At, dataVars
  <2> QED BY <1>1, <2>1, GoesKnown, RecordsStay
<1>6. CASE ReadRecipe(r)
  <2>1. UNCHANGED <<members, recipes, runs>> /\ req[r].phase = "authorized" /\ req[r].job[1] = "rerun"
    BY Zenon, <1>6 DEF ReadRecipe, Refuse, Works, At, dataVars
  <2>2. CASE Ends(r)
    BY <1>1, <2>1, <2>2, GoesKnown, RecordsStay
  <2>3. CASE ~Ends(r)
    <3>1. Shaped(req[r]) /\ DOMAIN req = Requests
      BY <2>1, BusyShaped DEF RequestsFit
    <3> DEFINE job == [req[r].job EXCEPT ![1] = "run"]
    <3>2. req'[r] = [req[r] EXCEPT !.phase = "arrived", !.job = job,
                                   !.lawful = Allowed(req[r].by, req[r].action)]
      BY Zenon, <1>6, <2>3, <3>1 DEF ReadRecipe, Refuse
    <3>3. job[1] = "run" /\ job[4] = req[r].job[4]
      BY <3>1 DEF Shaped
    <3> HIDE DEF job
    <3>4. req'[r].job = job /\ req'[r].lawful = Allowed(req[r].by, req[r].action)
      BY <3>1, <3>2 DEF Shaped
    <3>5. RequestKnown(req'[r], Len(recipes))
      BY <1>1, <2>1, <3>3, <3>4, AllowedBoolean DEF RequestKnown, JobKnown
    <3> QED BY <2>1, <3>5, RecordsStay
  <2> QED BY <2>2, <2>3
<1>7. CASE Prepare(r)
  BY <1>7, PrepareRecords
<1>8. CASE Calls(r)
  BY <1>8, CallsRecords
<1>9. CASE UNCHANGED dataVars /\ Commit(r)
  BY <1>9, CommitRecords DEF dataVars
<1> QED BY <1>2, <1>3, <1>4, <1>5, <1>6, <1>7, <1>8, <1>9 DEF Request, Transacts

LEMMA RecordsStep == RequestsFit /\ RunsFit /\ RecordsFit /\ [Next]_vars => RecordsFit'
<1> SUFFICES ASSUME RequestsFit, RunsFit, RecordsFit, [Next]_vars PROVE RecordsFit'
  OBVIOUS
<1>1. CASE \E r \in Requests : Request(r)
  BY <1>1, RequestRecords
<1>2. CASE UNCHANGED <<req, members, recipes, runs>>
  BY <1>2 DEF RecordsFit, RequestKnown, JobKnown, Sequence
<1>3. \/ \E r \in Requests : Request(r)
      \/ UNCHANGED <<req, members, recipes, runs>>
  BY DEF Next, vars, Sessions, SignIn, SignOut, Fieldwork, PublishNext, StartResponse, EndResponse,
     Render, memberVars, dataVars
<1> QED BY <1>1, <1>2, <1>3

LEMMA RecordsInit == Init => RecordsFit
<1> SUFFICES ASSUME Init PROVE RecordsFit
  OBVIOUS
<1>1. /\ recipes = <<>> /\ runs = <<>> /\ members \in Founded
      /\ \A r \in Requests : req[r] = NoRequest
  BY DEF Init, AnalysesInit, MembershipInit
<1>2. <<>> \in Seq({}) /\ DOMAIN <<>> = {}
  OBVIOUS
<1> QED BY <1>1, <1>2, MembershipAssumption DEF RecordsFit, Sequence, Memberships, RequestKnown, NoRequest
-----------------------------------------------------------------------------
(* The types of what several parts write: the phases of a visitor. *)
Phases == {"away", "opening", "opening with screening", "screening", "form", "sending", "locked", "reading", "stored", "screened_out", "done"}

PhasesFit == \A v \in Visitors : visitors[v].phase \in Phases

LEMMA PhaseBecomes ==
  ASSUME LocksHold, PhasesFit, NEW v \in Visitors, NEW x, x.phase \in Phases, Becomes(v, x)
  PROVE  PhasesFit'
<1>1. visitors' = [visitors EXCEPT ![v] = x] /\ DOMAIN visitors = Visitors
  BY DEF Becomes, LocksHold
<1>2. ASSUME NEW w \in Visitors PROVE visitors'[w] = x \/ visitors'[w] = visitors[w]
  BY <1>1
<1> QED BY <1>2 DEF PhasesFit

LEMMA PhaseGoes ==
  ASSUME LocksHold, PhasesFit, NEW v \in Visitors, NEW p \in Phases,
         Becomes(v, [visitors[v] EXCEPT !.phase = p])
  PROVE  PhasesFit'
<1> DEFINE x == [visitors[v] EXCEPT !.phase = p]
<1>1. x.phase = p
  BY DEF LocksHold, VisitorFits
<1>2. Becomes(v, x)
  OBVIOUS
<1> HIDE DEF x
<1> QED BY <1>1, <1>2, PhaseBecomes

LEMMA VisitsPhases == ASSUME LocksHold, PhasesFit, NEW v \in Visitors, Visits(v) PROVE PhasesFit'
<1>1. CASE AnswerScreening(v) \/ Reply(v)
  BY <1>1, PhaseGoes DEF AnswerScreening, Reply, Phases
<1>2. CASE StoreSubmission(v)
  BY <1>2, Stored, PhaseGoes DEF Phases
<1>3. CASE Visit(v)
  <2>1. PICK p \in RPages, phase \in {"opening", "opening with screening"} :
          Becomes(v, [Away EXCEPT !.phase = phase, !.token = pages[p].token, !.page = p])
    BY <1>3, OpeningPhases DEF Visit
  <2> DEFINE x == [Away EXCEPT !.phase = phase, !.token = pages[p].token, !.page = p]
  <2>2. x.phase \in Phases
    BY DEF Away, Phases
  <2> HIDE DEF x
  <2> QED BY <2>1, <2>2, PhaseBecomes DEF x
<1>6. CASE LoadQuestions(v)
  <2>1. PICK first \in {"screening", "form"} :
          Becomes(v, [visitors[v] EXCEPT !.phase = first, !.page = 0,
                                         !.shown = pages[visitors[v].page].questions])
    BY <1>6, OpeningPhases DEF LoadQuestions
  <2> DEFINE x == [visitors[v] EXCEPT !.phase = first, !.page = 0,
                                      !.shown = pages[visitors[v].page].questions]
  <2>2. x.phase \in Phases
    BY DEF LocksHold, VisitorFits, Phases
  <2> HIDE DEF x
  <2> QED BY <2>1, <2>2, PhaseBecomes DEF x
<1>4. CASE Submit(v)
  <2>1. PICK name, answers :
          Becomes(v, [visitors[v] EXCEPT !.phase = "sending", !.name = name, !.answers = answers])
    BY Zenon, <1>4 DEF Submit
  <2> DEFINE x == [visitors[v] EXCEPT !.phase = "sending", !.name = name, !.answers = answers]
  <2>2. x.phase \in Phases
    BY DEF LocksHold, VisitorFits, Phases
  <2> HIDE DEF x
  <2> QED BY <2>1, <2>2, PhaseBecomes DEF x
<1>5. CASE FindPage(v)
  <2>1. CASE Becomes(v, [visitors[v] EXCEPT !.phase = AfterRefusal])
    BY <2>1, PhaseGoes DEF AfterRefusal, Phases
  <2>2. ASSUME NEW p, Becomes(v, Locks(v, p)) PROVE PhasesFit'
    <3>1. Locks(v, p).phase \in Phases
      BY DEF Locks, LocksHold, VisitorFits, Phases
    <3> QED BY <2>2, <3>1, PhaseBecomes
  <2> QED BY Zenon, <1>5, <2>1, <2>2 DEF FindPage
<1> QED BY <1>1, <1>2, <1>3, <1>4, <1>5, <1>6 DEF Visits

LEMMA PhasesStep == LocksHold /\ PhasesFit /\ [Next]_vars => PhasesFit'
<1> SUFFICES ASSUME LocksHold, PhasesFit, [Next]_vars PROVE PhasesFit'
  OBVIOUS
<1>1. CASE visitors' = visitors
  BY <1>1 DEF PhasesFit
<1>2. CASE UNCHANGED recruitVars
  BY <1>1, <1>2 DEF recruitVars
<1>3. ASSUME NEW e \in Editors, Edits(e) PROVE PhasesFit'
  BY <1>1, <1>3, EditsLeaveVisitors
<1>4. Working \subseteq Editors
  BY DEF Working
<1> QED BY <1>2, <1>3, <1>4, VisitsPhases DEF Next, vars

LEMMA PhasesInit == Init => PhasesFit
<1>1. Away.phase \in Phases
  BY DEF Away, Phases
<1>2. Init => visitors = [v \in Visitors |-> Away]
  BY Zenon DEF Init, RecruitmentInit
<1> QED BY <1>1, <1>2 DEF PhasesFit
-----------------------------------------------------------------------------
(* What the screen of an import is at. *)
Stages == {"idle", "previewing", "ready", "importing", "error", "left"}

LEMMA StagesStep == ScreenFits /\ screen.status \in Stages /\ [Next]_vars => (screen.status \in Stages)'
<1> SUFFICES ASSUME ScreenFits, screen.status \in Stages, [Next]_vars PROVE screen'.status \in Stages
  OBVIOUS
<1>1. ASSUME NEW x \in Stages, screen' = [screen EXCEPT !.status = x] PROVE screen'.status \in Stages
  BY <1>1 DEF ScreenFits, ScreenShaped
<1>2. CASE UNCHANGED rawVars
  BY <1>2 DEF rawVars
<1>3. ASSUME NEW file, ChooseFile(file) PROVE screen'.status \in Stages
  BY <1>3 DEF ChooseFile, Stages
<1>4. ASSUME NEW k, ChooseSheet(k) PROVE screen'.status \in Stages
  BY <1>1, <1>4 DEF ChooseSheet, Stages
<1>5. ASSUME NEW i, UpdateVariable(i) PROVE screen'.status \in Stages
  <2>1. \E x : screen' = [screen EXCEPT !.specs = x]
    BY Zenon, <1>5 DEF UpdateVariable
  <2> QED BY <2>1 DEF ScreenFits, ScreenShaped
<1>6. ASSUME NEW name, SetDatasetName(name) PROVE screen'.status \in Stages
  BY <1>6 DEF SetDatasetName, ScreenFits, ScreenShaped
<1>7. CASE RunImport
  BY <1>1, <1>7 DEF RunImport, Stages
<1>8. CASE Replied
  <2>1. ASSUME NEW lost, PreviewReplied(lost) PROVE screen'.status \in Stages
    <3>1. \/ screen' = [screen EXCEPT !.preview = NoPreview, !.specs = <<>>, !.status = "error"]
          \/ \E f, p, s, n : screen' = [file |-> f, preview |-> p, specs |-> s, name |-> n, status |-> "ready"]
      BY Zenon, <2>1 DEF PreviewReplied
    <3>2. CASE screen' = [screen EXCEPT !.preview = NoPreview, !.specs = <<>>, !.status = "error"]
      BY <3>2 DEF ScreenFits, ScreenShaped, Stages
    <3>3. ASSUME NEW f, NEW p, NEW s, NEW n,
                 screen' = [file |-> f, preview |-> p, specs |-> s, name |-> n, status |-> "ready"]
          PROVE  screen'.status \in Stages
      BY <3>3 DEF Stages
    <3> QED BY Zenon, <3>1, <3>2, <3>3
  <2>2. ASSUME NEW lost, ImportReplied(lost) PROVE screen'.status \in Stages
    <3>1. \/ screen' = [screen EXCEPT !.status = "error"]
          \/ screen' = [EmptyScreen EXCEPT !.status = "left"]
      BY Zenon, <2>2 DEF ImportReplied
    <3> QED BY <1>1, <3>1 DEF EmptyScreen, Stages
  <2> QED BY <1>8, <2>1, <2>2 DEF Replied
<1>9. CASE ClearFile
  BY <1>9 DEF ClearFile, EmptyScreen, Stages
<1> QED BY <1>2, <1>3, <1>4, <1>5, <1>6, <1>7, <1>8, <1>9 DEF Next, vars, AtScreen

LEMMA StagesInit == Init => screen.status \in Stages
<1> SUFFICES ASSUME Init PROVE screen.status \in Stages
  OBVIOUS
<1> QED BY DEF Init, RawImportInit, EmptyScreen, Stages
-----------------------------------------------------------------------------
(* A page that is gone has nothing left, and a page asks about fields there are. *)
PageKnown(x) == (~x.exists => x = NoPage) /\ DOMAIN x.questions \subseteq fields

FieldsFit == \A p \in RPages : PageKnown(pages[p])

LEMMA PageBecomes ==
  ASSUME PagesFit, FieldsFit, NEW p, NEW x, pages' = [pages EXCEPT ![p] = x], fields \subseteq fields',
         p \in RPages => (x.exists \/ x = NoPage) /\ DOMAIN x.questions \subseteq fields'
  PROVE  FieldsFit'
<1>1. ASSUME NEW q \in RPages PROVE PageKnown(pages[q])'
  <2>1. pages'[q] = IF q = p THEN x ELSE pages[q]
    BY DEF PagesFit
  <2>2. PageKnown(pages[q])
    BY DEF FieldsFit
  <2> QED BY <2>1, <2>2 DEF PageKnown
<1> QED BY <1>1 DEF FieldsFit

\* The rest of a page that is there may change as it likes.
LEMMA PageChanges ==
  ASSUME PagesFit, FieldsFit, NEW p, NEW x, pages' = [pages EXCEPT ![p] = x], UNCHANGED fields,
         p \in RPages => /\ pages[p].exists /\ x.exists = pages[p].exists
                         /\ DOMAIN x.questions \subseteq DOMAIN pages[p].questions
  PROVE  FieldsFit'
<1>1. p \in RPages => DOMAIN x.questions \subseteq fields'
  BY DEF FieldsFit, PageKnown
<1> QED BY <1>1, PageBecomes

LEMMA SameFields == ASSUME FieldsFit, pages' = pages, fields \subseteq fields' PROVE FieldsFit'
  BY DEF FieldsFit, PageKnown

LEMMA UpdateFields == ASSUME PagesFit, FieldsFit, NEW e, UpdatePage(e) PROVE FieldsFit'
<1> DEFINE p == editors[e].call.job[2]
<1>1. CASE pages' = pages /\ fields' = fields
  BY <1>1, SameFields
<1>2. ASSUME NEW v, pages[p].exists, UNCHANGED fields,
             \/ pages' = [pages EXCEPT ![p].screening = v]
             \/ pages' = [pages EXCEPT ![p].active = v]
      PROVE  FieldsFit'
  <2>1. p \in RPages => PageShaped(pages[p])
    BY DEF PagesFit
  <2>2. CASE pages' = [pages EXCEPT ![p].screening = v]
    <3> DEFINE x == [pages[p] EXCEPT !.screening = v]
    <3>1. pages' = [pages EXCEPT ![p] = x]
      BY <2>2
    <3>2. p \in RPages => x.exists = pages[p].exists /\ x.questions = pages[p].questions
      BY <2>1 DEF PageShaped
    <3> HIDE DEF x, p
    <3> QED BY <1>2, <3>1, <3>2, PageChanges
  <2>3. CASE pages' = [pages EXCEPT ![p].active = v]
    <3> DEFINE x == [pages[p] EXCEPT !.active = v]
    <3>1. pages' = [pages EXCEPT ![p] = x]
      BY <2>3
    <3>2. p \in RPages => x.exists = pages[p].exists /\ x.questions = pages[p].questions
      BY <2>1 DEF PageShaped
    <3> HIDE DEF x, p
    <3> QED BY <1>2, <3>1, <3>2, PageChanges
  <2> QED BY <1>2, <2>2, <2>3
<1> QED BY Zenon, <1>1, <1>2 DEF UpdatePage, Commits, Fails

LEMMA SetLinkFields == ASSUME PagesFit, FieldsFit, NEW e, SetLink(e) PROVE FieldsFit'
<1> DEFINE p == editors[e].call.job[2]
<1> DEFINE link == editors[e].call.job[3]
<1>1. CASE pages' = pages /\ fields' = fields
  BY <1>1, SameFields
<1>2. CASE pages[p].exists /\ pages' = [pages EXCEPT ![p].token = link] /\ fields' = fields
  <2> DEFINE x == [pages[p] EXCEPT !.token = link]
  <2>1. pages' = [pages EXCEPT ![p] = x]
    BY <1>2
  <2>2. p \in RPages => x.exists = pages[p].exists /\ x.questions = pages[p].questions
    BY DEF PagesFit, PageShaped
  <2> HIDE DEF x, p
  <2> QED BY <1>2, <2>1, <2>2, PageChanges
<1>3. \/ pages' = pages /\ fields' = fields
      \/ pages[p].exists /\ pages' = [pages EXCEPT ![p].token = link] /\ fields' = fields
  BY Zenon DEF SetLink, Commits, Fails
<1> QED BY <1>1, <1>2, <1>3

LEMMA NewPageFields ==
  ASSUME PagesFit, FieldsFit, NEW e, NewPage(e),
         editors[e].call.job[1] = "clone" => editors[e].call.job[2] \in RPages
  PROVE  FieldsFit'
<1> DEFINE from == editors[e].call.job[2]
<1>1. CASE pages' = pages /\ fields' = fields
  BY <1>1, SameFields
<1>2. ASSUME NEW p \in RPages, UNCHANGED fields,
             pages' = [pages EXCEPT ![p] = [NoPage EXCEPT !.exists = TRUE, !.token = Fresh[p]]]
      PROVE  FieldsFit'
  <2> DEFINE x == [NoPage EXCEPT !.exists = TRUE, !.token = Fresh[p]]
  <2>1. x.exists /\ DOMAIN x.questions = {}
    BY DEF NoPage
  <2>2. pages' = [pages EXCEPT ![p] = x]
    BY <1>2
  <2> HIDE DEF x
  <2> QED BY <1>2, <2>1, <2>2, PageBecomes
<1>3. ASSUME NEW p \in RPages, UNCHANGED fields, from \in RPages, pages[from].exists,
             pages' = [pages EXCEPT ![p] = [pages[from] EXCEPT !.token = Fresh[p], !.active = FALSE]]
      PROVE  FieldsFit'
  <2> DEFINE x == [pages[from] EXCEPT !.token = Fresh[p], !.active = FALSE]
  <2>1. PageShaped(pages[from]) /\ PageKnown(pages[from])
    BY <1>3 DEF PagesFit, FieldsFit
  <2>2. x.exists = pages[from].exists /\ x.questions = pages[from].questions
    BY <2>1 DEF PageShaped
  <2>3. pages' = [pages EXCEPT ![p] = x]
    BY <1>3
  <2> HIDE DEF x, from
  <2>4. x.exists /\ DOMAIN x.questions \subseteq fields'
    BY <1>3, <2>1, <2>2 DEF PageKnown
  <2> QED BY <1>3, <2>3, <2>4, PageBecomes
<1> QED BY Zenon, <1>1, <1>2, <1>3 DEF NewPage, Commits, Fails, Free, At_

LEMMA DeletePageFields == ASSUME PagesFit, FieldsFit, NEW e, DeletePage(e) PROVE FieldsFit'
<1> DEFINE p == editors[e].call.job[2]
<1>1. DOMAIN NoPage.questions = {}
  BY DEF NoPage
<1>2. CASE pages' = pages /\ fields' = fields
  BY <1>2, SameFields
<1>3. CASE pages' = [pages EXCEPT ![p] = NoPage] /\ fields' = fields
  <2> HIDE DEF p
  <2> QED BY <1>1, <1>3, PageBecomes
<1> QED BY Zenon, <1>2, <1>3 DEF DeletePage, Deleted, Commits, Fails

LEMMA QuestionsFields ==
  ASSUME PagesFit, FieldsFit, NEW p, NEW qs, pages[p].exists, fields \subseteq fields',
         pages' = [pages EXCEPT ![p].questions = qs], DOMAIN qs \subseteq fields'
  PROVE  FieldsFit'
<1> DEFINE x == [pages[p] EXCEPT !.questions = qs]
<1>1. pages' = [pages EXCEPT ![p] = x]
  OBVIOUS
<1>2. p \in RPages => x.exists = pages[p].exists /\ x.questions = qs
  BY DEF PagesFit, PageShaped
<1> HIDE DEF x
<1> QED BY <1>1, <1>2, PageBecomes

LEMMA EditQuestionFields ==
  ASSUME PagesFit, FieldsFit, NEW e, EditQuestion(e), editors[e].call.job[2] \in RPages PROVE FieldsFit'
<1> DEFINE job == editors[e].call.job
<1> DEFINE p == job[2]
<1> DEFINE asked == DOMAIN pages[p].questions
<1> DEFINE kept == asked \ (IF job[1] = "remove" THEN {job[3]} ELSE {})
<1> DEFINE qs == [f \in kept |-> IF job[1] = "require" /\ f = job[3]
                                THEN [pages[p].questions[f] EXCEPT !.required = job[4]]
                                ELSE pages[p].questions[f]]
<1>1. CASE pages' = pages /\ fields' = fields
  BY <1>1, SameFields
<1>2. CASE pages[p].exists /\ fields' = fields /\ pages' = [pages EXCEPT ![p].questions = qs]
  <2>1. asked \subseteq fields /\ DOMAIN qs \subseteq asked
    BY DEF FieldsFit, PageKnown
  <2> HIDE DEF p, asked, qs
  <2> QED BY <1>2, <2>1, QuestionsFields
<1>3. \/ pages' = pages /\ fields' = fields
      \/ pages[p].exists /\ fields' = fields /\ pages' = [pages EXCEPT ![p].questions = qs]
  BY Zenon DEF EditQuestion, Commits, Fails
<1> QED BY Zenon, <1>1, <1>2, <1>3

LEMMA AddQuestionFields ==
  ASSUME PagesFit, FieldsFit, NEW e, AddQuestion(e), editors[e].call.job[2] \in RPages PROVE FieldsFit'
<1> DEFINE p == editors[e].call.job[2]
<1> DEFINE added == editors[e].call.job[3]
<1> DEFINE asked == DOMAIN pages[p].questions
<1>1. CASE pages' = pages /\ fields' = fields
  BY <1>1, SameFields
<1>2. ASSUME NEW qs, DOMAIN qs = asked \cup {added}, pages[p].exists, fields' = fields \cup {added},
             pages' = [pages EXCEPT ![p].questions = qs]
      PROVE  FieldsFit'
  <2>1. asked \subseteq fields
    BY DEF FieldsFit, PageKnown
  <2> HIDE DEF p, asked
  <2> QED BY <1>2, <2>1, QuestionsFields
<1>3. \/ pages' = pages /\ fields' = fields
      \/ /\ pages[p].exists /\ fields' = fields \cup {added}
         /\ \E qs : /\ DOMAIN qs = asked \cup {added}
                    /\ pages' = [pages EXCEPT ![p].questions = qs]
  BY Zenon DEF AddQuestion, Commits, Fails
<1> QED BY Zenon, <1>1, <1>2, <1>3

LEMMA EditsKeepFields ==
  ASSUME EditorsFit, PagesFit, FieldsFit, NEW e \in Editors, Edits(e) PROVE FieldsFit'
<1>1. CASE pages' = pages /\ fields' = fields
  BY <1>1, SameFields
<1>2. CASE (\E p \in RPages : Open(e, p)) \/ SetForm(e) \/ \E job \in Offers(e) : Send(e, job)
  BY <1>1, <1>2 DEF Open, SetForm, Send
<1>3. CASE LookForClash(e) \/ LookForPosition(e) \/ JobDies(e)
  BY Zenon, <1>1, <1>3 DEF LookForClash, LookForPosition, JobDies, Fails
<1>4. CASE UpdatePage(e) \/ SetLink(e) \/ DeletePage(e)
  BY <1>4, UpdateFields, SetLinkFields, DeletePageFields
<1>5. editors[e].call = Idle \/ editors[e].call.job[1] = "create" \/ editors[e].call.job[2] \in RPages
  BY DEF EditorsFit, EditorFits, CallFits
<1>6. NewPage(e) \/ EditQuestion(e) \/ AddQuestion(e) => editors[e].call # Idle
  <2>1. NewPage(e) \/ EditQuestion(e) \/ AddQuestion(e) => editors[e].call.phase # "idle"
    BY Zenon DEF NewPage, EditQuestion, AddQuestion, At_
  <2> QED BY <2>1 DEF Idle
<1>7. CASE NewPage(e)
  BY <1>5, <1>6, <1>7, NewPageFields
<1>8. EditQuestion(e) \/ AddQuestion(e) => editors[e].call.job[1] # "create"
  BY Zenon DEF EditQuestion, AddQuestion, At_
<1>9. CASE EditQuestion(e) \/ AddQuestion(e)
  BY <1>5, <1>6, <1>8, <1>9, EditQuestionFields, AddQuestionFields
<1> QED BY <1>2, <1>3, <1>4, <1>7, <1>9 DEF Edits

LEMMA FieldsStep == EditorsFit /\ PagesFit /\ FieldsFit /\ [Next]_vars => FieldsFit'
<1> SUFFICES ASSUME EditorsFit, PagesFit, FieldsFit, [Next]_vars PROVE FieldsFit'
  OBVIOUS
<1>1. CASE pages' = pages /\ fields' = fields
  BY <1>1, SameFields
<1>2. ASSUME NEW v, Visits(v) PROVE FieldsFit'
  <2>1. pages' = pages /\ fields' = fields
    BY Zenon, <1>2 DEF Visits, Visit, LoadQuestions, AnswerScreening, Submit, FindPage, StoreSubmission, Reply, Becomes
  <2> QED BY <1>1, <2>1
<1>3. CASE UNCHANGED recruitVars
  BY <1>1, <1>3 DEF recruitVars
<1>4. Working \subseteq Editors
  BY DEF Working
<1> QED BY <1>2, <1>3, <1>4, EditsKeepFields DEF Next, vars

LEMMA FieldsInit == Init => FieldsFit
<1> SUFFICES ASSUME Init, NEW p \in RPages PROVE PageKnown(pages[p])
  BY DEF FieldsFit
<1>1. /\ pages \in Pages0
      /\ fields = {f \in Fields : \E q \in RPages : f \in DOMAIN pages[q].questions}
  BY Zenon DEF Init, RecruitmentInit
<1>2. DOMAIN pages[p].questions \subseteq Fields /\ (~pages[p].exists => pages[p] = NoPage)
  BY <1>1, PagesAssumption
<1> QED BY <1>1, <1>2 DEF PageKnown
-----------------------------------------------------------------------------
(* The bound on the versions of a dataset: it is asked about before a number is *)
(* read, and nobody else reads one of the same dataset until that has ended.    *)
LengthsFit ==
    /\ \A name \in Names_ : Len(datasets[name]) <= MaxVersions
    /\ \A r \in Requests : At(r, "numbered") => Len(datasets[req[r].work.name]) < MaxVersions

LEMMA LengthsStay ==
  ASSUME RequestsFit, LengthsFit, NEW r \in Requests, Request(r), datasets' = datasets,
         req'[r].phase = "numbered" => Len(datasets[req'[r].work.name]) < MaxVersions
  PROVE  LengthsFit'
<1>1. ASSUME NEW s \in Requests, s # r PROVE Alike(req[s], req'[s])
  BY <1>1, OthersAlike
<1> QED BY <1>1 DEF LengthsFit, At, Alike

LEMMA LengthsRest == ASSUME LengthsFit, req' = req, datasets' = datasets PROVE LengthsFit'
  BY DEF LengthsFit, At

LEMMA BeginLengths ==
  ASSUME RequestsFit, DataFits, LengthsFit, NEW r \in Requests, Request(r), Begin(r) PROVE LengthsFit'
<1> DEFINE old == req[r].work
<1> DEFINE w == [old EXCEPT !.number = Number(old)]
<1>1. req[r].phase = "looked" /\ Len(datasets[old.name]) < MaxVersions
  BY Zenon DEF Begin, Works, At
<1>2. CASE \E why \in {"not found", "name", "variable"} : Refuse(r, why)
  <2>1. req'[r].phase = "idle"
    BY <1>2, EndsIdle DEF Refuse
  <2> QED BY <1>2, <2>1, LengthsStay DEF Refuse
<1>3. CASE Step(r, "numbered", w) /\ UNCHANGED dataVars
  <2>1. Onto(req[r], req'[r], "numbered") /\ req'[r].work = w
    <3>1. Onto(req[r], req'[r], "numbered")
      BY <1>1, <1>3, GoesOnto DEF Step
    <3>2. Shaped(req[r]) /\ DOMAIN req = Requests
      BY <1>1, BusyShaped DEF RequestsFit
    <3> QED BY Zenon, <1>3, <3>1, <3>2 DEF Step, Shaped
  <2>2. w.name = old.name
    BY <1>1 DEF DataFits, WorkFits
  <2> QED BY <1>1, <1>3, <2>1, <2>2, LengthsStay DEF dataVars
<1> QED BY Zenon, <1>2, <1>3 DEF Begin

LEMMA InsertLengths ==
  ASSUME RequestsFit, DataFits, LengthsFit, NEW r \in Requests, Request(r), Insert(r) PROVE LengthsFit'
<1> DEFINE name == req[r].work.name
<1> DEFINE v == req[r].work.content
<1>1. req[r].phase = "numbered"
  BY Zenon DEF Insert, Works, At
<1>2. Ends(r)
  BY Zenon DEF Insert, Refuse
<1>3. req'[r].phase = "idle"
  BY <1>2, EndsIdle
<1>4. CASE datasets' = datasets
  BY <1>3, <1>4, LengthsStay
<1>5. CASE datasets' = [datasets EXCEPT ![name] = Append(@, v)]
  <2>1. name \in Names_ /\ Len(datasets[name]) < MaxVersions
    BY <1>1 DEF DataFits, WorkFits, LengthsFit, At
  <2>2. PICK S : datasets[name] \in Seq(S)
    BY <2>1 DEF DataFits, DatasetsFit, Sequence
  <2>3. Len(Append(datasets[name], v)) = Len(datasets[name]) + 1 /\ Len(datasets[name]) \in Nat
    BY <2>2
  <2>4. DOMAIN datasets = Names_
    BY DEF DataFits, DatasetsFit
  <2>5. datasets' = [datasets EXCEPT ![name] = Append(datasets[name], v)]
    BY <1>5
  <2>6. /\ Len(datasets'[name]) <= MaxVersions
        /\ \A other \in Names_ : other # name => datasets'[other] = datasets[other]
    <3> HIDE DEF name, v
    <3> QED BY <2>1, <2>3, <2>4, <2>5, AnalysesAssumption
  <2>7. ASSUME NEW s \in Requests, req'[s].phase = "numbered"
        PROVE  Len(datasets'[req'[s].work.name]) < MaxVersions
    <3>1. s # r
      BY <1>3, <2>7
    <3>2. Alike(req[s], req'[s])
      BY <3>1, OthersAlike
    <3>3. req[s].phase = "numbered" /\ req'[s].work.name = req[s].work.name
      BY <2>7, <3>2 DEF Alike
    <3>4. req[s].work.name # name /\ req[s].work.name \in Names_
      BY <1>1, <3>1, <3>3 DEF DataFits, OneNumbers, WorkFits, At
    <3> QED BY <2>6, <3>3, <3>4 DEF LengthsFit, At
  <2> QED BY <2>6, <2>7 DEF LengthsFit, At
<1> QED BY Zenon, <1>4, <1>5 DEF Insert, Refuse

LEMMA RequestLengths ==
  ASSUME RequestsFit, DataFits, LengthsFit, NEW r \in Requests, Request(r) PROVE LengthsFit'
<1>1. ASSUME datasets' = datasets, req'[r].phase # "numbered" PROVE LengthsFit'
  BY <1>1, LengthsStay
<1>2. ASSUME datasets' = datasets, Unworked(req[r], req'[r]) PROVE LengthsFit'
  BY <1>1, <1>2 DEF Unworked
<1>3. CASE UNCHANGED dataVars /\ (Administer(r) \/ OrderIdea(r) \/ OrderRun(r))
  BY <1>2, <1>3, OrdersUnworked DEF dataVars
<1>4. CASE UNCHANGED dataVars /\ OrderDataset(r)
  <2>1. \E u, job : Arrive(r, u, "datasets.create", job)
    BY Zenon, <1>4 DEF OrderDataset
  <2> QED BY <1>1, <1>4, <2>1, ArriveUnlocked DEF dataVars
<1>5. CASE /\ UNCHANGED dataVars
           /\ Authorize(r) \/ Write(r) \/ Commit(r) \/ RollBack(r) \/ Handles(r)
  BY <1>2, <1>5, HandlesUnworked DEF dataVars
<1>6. CASE ReadRecipe(r) \/ Prepare(r) \/ Calls(r)
  <2>1. CASE ReadRecipe(r) \/ Prepare(r)
    <3>1. datasets' = datasets
      BY Zenon, <2>1 DEF ReadRecipe, Prepare, Refuse, dataVars
    <3> QED BY <1>2, <2>1, <3>1, HandlesUnworked
  <2>2. CASE Calls(r)
    <3>1. datasets' = datasets
      BY <2>2 DEF Calls, Answer, TimesOut, Returns, Again, Finalize, FinalizeFails, Dies, dataVars
    <3> QED BY <1>2, <2>2, <3>1, HandlesUnworked
  <2> QED BY <1>6, <2>1, <2>2
<1>7. CASE Pick(r) \/ Look(r) \/ Derive(r)
  <2>1. /\ req[r].phase # "idle" /\ datasets' = datasets
        /\ Ends(r) \/ \E p \in {"picked", "looked"} : \E w : Step(r, p, w)
    BY Zenon, <1>7 DEF Pick, Look, Derive, Refuse, Works, At, dataVars
  <2>2. CASE Ends(r)
    BY <1>1, <2>1, <2>2, EndsIdle
  <2>3. ASSUME NEW p \in {"picked", "looked"}, NEW w, Step(r, p, w) PROVE LengthsFit'
    <3>1. Onto(req[r], req'[r], p)
      BY <2>1, <2>3, GoesOnto DEF Step
    <3> QED BY <1>1, <2>1, <3>1 DEF Onto
  <2> QED BY <2>1, <2>2, <2>3
<1>8. CASE Begin(r) \/ Insert(r)
  BY <1>8, BeginLengths, InsertLengths
<1> QED BY <1>3, <1>4, <1>5, <1>6, <1>7, <1>8 DEF Request, Transacts

LEMMA LengthsStep == RequestsFit /\ DataFits /\ LengthsFit /\ [Next]_vars => LengthsFit'
<1> SUFFICES ASSUME RequestsFit, DataFits, LengthsFit, [Next]_vars PROVE LengthsFit'
  OBVIOUS
<1>1. CASE \E r \in Requests : Request(r)
  BY <1>1, RequestLengths
<1>2. CASE req' = req /\ datasets' = datasets
  BY <1>2, LengthsRest
<1>3. \/ \E r \in Requests : Request(r)
      \/ req' = req /\ datasets' = datasets
  BY DEF Next, vars, Sessions, SignIn, SignOut, Fieldwork, PublishNext, StartResponse, EndResponse,
     Render, memberVars, dataVars
<1> QED BY <1>1, <1>2, <1>3

LEMMA LengthsInit == Init => LengthsFit
<1> SUFFICES ASSUME Init PROVE LengthsFit
  OBVIOUS
<1>1. datasets \in Built /\ responses \in Started /\ \A r \in Requests : req[r] = NoRequest
  BY DEF Init, AnalysesInit, MembershipInit
<1>2. \A name \in Names_ : Len(datasets[name]) <= MaxVersions
  BY <1>1, BuiltAssumption
<1> QED BY <1>1, <1>2 DEF LengthsFit, At, NoRequest
-----------------------------------------------------------------------------
LEMMA TypesTell ==
  RequestsFit /\ RunsFit /\ RecordsFit /\ LengthsFit /\ FieldsFit /\ PhasesFit /\ screen.status \in Stages
    => TypeOK
<1> SUFFICES ASSUME RequestsFit, RunsFit, RecordsFit, LengthsFit, FieldsFit, PhasesFit,
                    screen.status \in Stages
             PROVE  TypeOK
  OBVIOUS
<1>1. ASSUME NEW r \in Requests, Busy(r) PROVE req[r].by \in Members /\ req[r].lawful \in BOOLEAN
  BY <1>1, BusyShaped DEF Busy, Shaped, RecordsFit, RequestKnown
<1>2. \A i \in DOMAIN runs : /\ runs[i].status \in {"running", "succeeded", "failed"}
                             /\ runs[i].verdict \in {"none", "ok", "error", "timeout"}
                             /\ runs[i].recipe \in 0 .. Len(recipes)
  BY DEF RunsFit, RunFits, RecordsFit
<1>3. \A p \in RPages : (~pages[p].exists => pages[p] = NoPage) /\ DOMAIN pages[p].questions \subseteq fields
  BY DEF FieldsFit, PageKnown
<1>4. members \in [Members -> [role : Roles, state : {"active", "deactivated", "none"}]]
  BY DEF RecordsFit, Memberships
<1> QED BY <1>1, <1>2, <1>3, <1>4 DEF TypeOK, LengthsFit, PhasesFit, Phases, Stages

\* What several parts write keeps its shape: a role that a job gives is a role, a
\* run's recipe is there, no dataset has more versions than a request may add while
\* it holds the dataset's row, a page that is deleted leaves nothing behind, and a
\* page asks about fields there are (admin/actions.ts, analytics/actions.ts,
\* datasets.ts:45-53, recruitment/actions.ts).
THEOREM TypeCorrect == Spec => []TypeOK
<1>1. Init => RequestsFit /\ DataFits /\ RunsFit /\ EditorsFit /\ PagesFit /\ LocksHold /\ ScreenFits
  BY InitFits, DataInit, RunsInit, PagesInit, LocksInit, ScreenInit
<1>2. Init => RecordsFit /\ LengthsFit /\ FieldsFit /\ PhasesFit /\ screen.status \in Stages
  BY RecordsInit, LengthsInit, FieldsInit, PhasesInit, StagesInit
<1> QED BY <1>1, <1>2, StepKeeps, DataStep, RunsStep, PagesStep, LocksStep, ScreenStep,
           RecordsStep, LengthsStep, FieldsStep, PhasesStep, StagesStep, TypesTell, PTL DEF Spec
===============================================================================
