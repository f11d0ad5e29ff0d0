----------------------------- MODULE Membership -----------------------------
(***************************************************************************)
(* The members of an organization and what each may do: sign-in and its    *)
(* cookie (lib/auth.ts), the permission table (domain/permissions.ts), the *)
(* members' administration (admin/actions.ts, admin-ui.tsx) and the row    *)
(* policy that hides everything from who is no active member.              *)
(*                                                                         *)
(* Every server action is a request.  It arrives with a cookie, opens a    *)
(* transaction, reads its author's role there, works, and commits.  What   *)
(* other transactions commit in between is seen by its later statements    *)
(* only (READ COMMITTED).                                                  *)
(***************************************************************************)
EXTENDS Integers, Sequences, FiniteSets

CONSTANTS Members,       \* users known to the application
          Requests,      \* server actions that may be in flight
          Hires,         \* roles an invitation or a change of role gives
          Founded,       \* the memberships there are at first
          MaxRequests    \* bound: server actions that arrive


Roles == {"owner", "administrator", "researcher", "panel_manager", "analyst", "viewer"}

ViewActions == {"panel.view", "studies.view", "distributions.view",
                "responses.view", "followup.view", "analytics.view"}

ResearchActions == ViewActions \cup
    {"comments.create", "comments.resolve", "studies.create", "studies.edit",
     "studies.publish", "studies.close", "distributions.create",
     "followup.manage", "analytics.run"}

PanelActions == ViewActions \cup
    {"comments.create", "panel.edit", "panel.import", "panel.export",
     "panel.anonymize", "segments.manage", "recruitment.manage",
     "distributions.create"}

AnalystActions == ViewActions \cup
    {"comments.create", "analytics.run", "datasets.create", "datasets.export",
     "panel.export"}

Actions == ResearchActions \cup PanelActions \cup AnalystActions \cup
    {"org.manage", "members.invite", "members.deactivate", "members.change_role",
     "audit.view", "studies.delete", "followup.rules.manage",
     "feature_requests.view", "feature_requests.create",
     "feature_requests.manage", "reports.create"}

MATRIX ==
    [r \in Roles |->
        CASE r \in {"owner", "administrator"} -> Actions
          [] r = "researcher"    -> ResearchActions
          [] r = "panel_manager" -> PanelActions
          [] r = "analyst"       -> AnalystActions
          [] r = "viewer"        -> ViewActions \cup {"comments.create"}]

Can(role, action) == action \in MATRIX[role]

VARIABLES
    members,      \* memberships: a role, and "active", "deactivated" or "none"
    cookie,       \* the role in each user's session cookie, "none" without one
    req,          \* the requests
    arrived,      \* how many have arrived
    overlapped,   \* history: one committed when its author was no administrator
    selfInvited   \* history: somebody invited their own address

memberVars == <<members, cookie, req, arrived, overlapped, selfInvited>>

NoRequest == [phase |-> "idle"]
Jobs == {"role", "state", "invite"}

\* What the tables say the author of a request may do.
Active(u) == members[u].state = "active"
Allowed(u, action) == Active(u) /\ Can(members[u].role, action)
Administrator(m) == m.state = "active" /\ Can(m.role, "members.change_role")

ASSUME MembershipAssumption ==
    /\ MaxRequests \in Nat /\ Hires \subseteq Roles
    /\ Founded \subseteq [Members -> [role : Roles, state : {"active", "deactivated", "none"}]]
    /\ \A first \in Founded : \E u \in Members : Administrator(first[u])

Busy(r)     == req[r].phase # "idle"
At(r, p)    == req[r].phase = p
Goes(r, p)  == req' = [req EXCEPT ![r].phase = p]
Ends(r)     == req' = [req EXCEPT ![r] = NoRequest]

\* The transaction of a request goes on.
Works(r, p) == At(r, p) /\ UNCHANGED <<members, cookie, arrived, overlapped, selfInvited>>

\* The row policy shows the author nothing once the membership has ended.
Hidden(r) == ~Active(req[r].by)
-----------------------------------------------------------------------------
(* Sessions *)

\* verifyCredentials and createSessionCookie: the role is copied to the cookie.
SignIn(u) ==
    /\ cookie[u] = "none" /\ Active(u)
    /\ cookie' = [cookie EXCEPT ![u] = members[u].role]
    /\ UNCHANGED <<members, req, arrived, overlapped, selfInvited>>

\* destroySession, or the twelve hours are over.
SignOut(u) ==
    /\ cookie[u] # "none"
    /\ cookie' = [cookie EXCEPT ![u] = "none"]
    /\ UNCHANGED <<members, req, arrived, overlapped, selfInvited>>

\* withAuthorized before its transaction: requireSession.  lawful is history:
\* the author has had the permission at some moment since the arrival.
Arrive(r, u, action, job) ==
    /\ ~Busy(r) /\ cookie[u] # "none" /\ arrived < MaxRequests
    /\ req' = [req EXCEPT ![r] = [phase |-> "arrived", by |-> u, action |-> action,
                                  job |-> job, work |-> <<>>,
                                  lawful |-> Allowed(u, action)]]
    /\ arrived' = arrived + 1
    /\ UNCHANGED <<members, cookie, overlapped, selfInvited>>

\* Mutant: the role is taken from the cookie.
Grants_Cookie(u, action) == cookie[u] # "none" /\ Can(cookie[u], action)

\* refreshSession and assertCan, read from the tables inside the transaction.
Grants(u, action) == Allowed(u, action)

Authorize(r) ==
    /\ At(r, "arrived")
    /\ IF Grants(req[r].by, req[r].action) THEN Goes(r, "authorized") ELSE Ends(r)
    /\ UNCHANGED <<members, cookie, arrived, overlapped, selfInvited>>
-----------------------------------------------------------------------------
(* Administration *)

\* Mutant: the row of the user's own membership has its controls as well.
Offered_Self(u, v) == members[v].state # "none"

\* MemberRow: the controls of one's own row are disabled.
Offered(u, v) == members[v].state # "none" /\ u # v

Administer(r) ==
    \E u \in Members, v \in Members, role \in Hires, state \in {"active", "deactivated"} :
        \/ /\ Offered(u, v) /\ role # members[v].role
           /\ Arrive(r, u, "members.change_role", <<"role", v, role>>)
        \/ /\ Offered(u, v) /\ state # members[v].state
           /\ Arrive(r, u, "members.deactivate", <<"state", v, state>>)
        \/ Arrive(r, u, "members.invite", <<"invite", v, role>>)

Changed(m, job) ==
    CASE job[1] = "role"   -> [m EXCEPT !.role = job[3]]
      [] job[1] = "state"  -> [m EXCEPT !.state = job[3]]
      [] job[1] = "invite" -> [role |-> job[3], state |-> "active"]

\* The statement that writes: it waits for the row, and the row policy shows a
\* deactivated author no row; inviteMember's connection is above the policy.
Write(r) ==
    /\ At(r, "authorized") /\ req[r].job[1] \in Jobs
    /\ \A s \in Requests :
          At(s, "written") => req[s].job[2] # req[r].job[2]
    /\ IF Active(req[r].by) \/ req[r].job[1] = "invite"
       THEN Goes(r, "written") ELSE Ends(r)
    /\ UNCHANGED <<members, cookie, arrived, overlapped, selfInvited>>

\* Whoever gains a permission makes the requests under way lawful.
Witnessed(now, rs) ==
    [s \in Requests |->
        IF rs[s].phase = "idle" THEN rs[s]
        ELSE [rs[s] EXCEPT !.lawful =
                 \/ @
                 \/ /\ now[rs[s].by].state = "active"
                    /\ Can(now[rs[s].by].role, rs[s].action)]]

Commit(r) ==
    /\ At(r, "written")
    /\ LET job == req[r].job
           now == [members EXCEPT ![job[2]] = Changed(members[job[2]], job)] IN
       /\ members' = now
       /\ req' = Witnessed(now, [req EXCEPT ![r] = NoRequest])
       /\ overlapped' = (overlapped \/ ~Administrator(members[req[r].by]))
       /\ selfInvited' = (selfInvited \/ (job[1] = "invite" /\ job[2] = req[r].by))
    /\ UNCHANGED <<cookie, arrived>>

\* The process dies, or the database refuses: the transaction is rolled back.
RollBack(r) ==
    /\ req[r].phase \in {"arrived", "authorized", "written"}
    /\ Ends(r)
    /\ UNCHANGED <<members, cookie, arrived, overlapped, selfInvited>>
-----------------------------------------------------------------------------
Sessions == \E u \in Members : SignIn(u) \/ SignOut(u)

MembershipInit ==
    /\ members \in Founded
    /\ cookie = [u \in Members |-> IF Active(u) THEN members[u].role ELSE "none"]
    /\ req = [r \in Requests |-> NoRequest]
    /\ arrived = 0 /\ overlapped = FALSE /\ selfInvited = FALSE
-----------------------------------------------------------------------------
\* No transaction works for an author who has not had the permission at some
\* moment since the request, or its last call of a service, arrived, whatever
\* the cookie says: "Role changes and deactivation therefore take effect on the
\* next server action" (auth.ts:132-137).
LawfulOnly ==
    \A r \in Requests :
        req[r].phase \notin {"idle", "arrived", "answered"} => req[r].lawful

\* Somebody can administer the members, unless a change was committed by someone
\* who no longer could, or somebody invited themselves: admin/actions.ts has no
\* guard for the last one, only the page's disabled controls.
AdministratorRemains ==
    (\E u \in Members : Administrator(members[u])) \/ overlapped \/ selfInvited
=============================================================================
