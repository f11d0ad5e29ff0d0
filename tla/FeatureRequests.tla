--------------------------- MODULE FeatureRequests --------------------------
(***************************************************************************)
(* The inbox of feature requests (feature-requests/actions.ts and          *)
(* feature-request-inbox.tsx): a status, an owner, and a trail of events.  *)
(*                                                                         *)
(* The inbox sends a status and an owner together: the one that was        *)
(* chosen, and the other as the page showed it.  A transaction checks the  *)
(* owner, locks the row, and writes it with the events of what differs.    *)
(***************************************************************************)
EXTENDS Membership

CONSTANTS Ideas,       \* feature requests there may be
          Suggested,   \* those there are at first
          Statuses     \* some of feature_request_status, "new" among them

ASSUME IdeasAssumption == Suggested \subseteq Ideas /\ "new" \in Statuses

VARIABLES
    ideas,    \* [there, status, owner] of each
    trail,    \* feature_request_events, in the order of their commits
    shown     \* what each member's page shows

ideaVars == <<ideas, trail, shown>>

Nobody == "nobody"
NewIdea == [there |-> TRUE, status |-> "new", owner |-> Nobody]
NoIdea  == [there |-> FALSE, status |-> "new", owner |-> Nobody]

\* One event for a field that differs.
Event(f, what, from, to) == IF from = to THEN <<>> ELSE <<[of |-> f, what |-> what, from |-> from, to |-> to]>>

\* The page is for those whose cookie lets them see it.
Sees(u) == cookie[u] # "none" /\ Can(cookie[u], "feature_requests.view")

Render(u) ==
    /\ Sees(u)
    /\ shown' = [shown EXCEPT ![u] = ideas]
    /\ UNCHANGED <<memberVars, ideas, trail>>

\* The form, and the two selects of a row; these keep what was chosen last even
\* when it has been refused.
OrderIdea(r) ==
    \E u \in {x \in Members : Sees(x)} :
        \/ Arrive(r, u, "feature_requests.create", <<"suggest">>)
        \/ \E f \in {x \in Ideas : shown[u][x].there} :
              \/ \E status \in Statuses :
                    Arrive(r, u, "feature_requests.manage", <<"update", f, status, shown[u][f].owner>>)
              \/ \E owner \in Members \cup {Nobody} :
                    Arrive(r, u, "feature_requests.manage", <<"update", f, shown[u][f].status, owner>>)

\* revalidatePath: the reply brings the page of its author up to date.
Stores(r, now) ==
    /\ ideas' = now /\ shown' = [shown EXCEPT ![req[r].by] = now]
    /\ Ends(r)

\* The policies of the tables ask for the role once more.
Barred(r) == ~Allowed(req[r].by, req[r].action)

\* The transaction throws: nothing is written, and the page says why.
Throws(r) == Ends(r) /\ UNCHANGED ideaVars

CreateFeatureRequest(r) ==
    /\ Works(r, "authorized") /\ req[r].job[1] = "suggest"
    /\ IF Barred(r) THEN Throws(r)
       ELSE \E f \in {x \in Ideas : ~ideas[x].there} :
               /\ Stores(r, [ideas EXCEPT ![f] = NewIdea])
               /\ trail' = Append(trail, [of |-> f, what |-> "created", from |-> "", to |-> ""])

\* updateFeatureRequest: the owner is an active member.
CheckOwner(r) ==
    /\ Works(r, "authorized") /\ req[r].job[1] = "update"
    /\ LET owner == req[r].job[4] IN
       IF owner # Nobody /\ (Hidden(r) \/ ~Active(owner)) THEN Throws(r)
       ELSE Goes(r, "checked") /\ UNCHANGED ideaVars

\* Mutant: the select is not "for update".
RowFree_NoLock(r) == TRUE

\* Whoever has locked the row writes it before anybody else locks it.
RowFree(r) == \A s \in Requests : At(s, "holding") => req[s].job[2] # req[r].job[2]

LockIdea(r) ==
    /\ Works(r, "checked") /\ RowFree(r)
    /\ IF Barred(r) THEN Throws(r)
       ELSE /\ req' = [req EXCEPT ![r].phase = "holding", ![r].work = ideas[req[r].job[2]]]
            /\ UNCHANGED ideaVars

\* The update finds no row when the role has been lost, and the first event is
\* refused.
WriteIdea(r) ==
    /\ Works(r, "holding")
    /\ LET f == req[r].job[2]
           before == req[r].work
           status == req[r].job[3]
           owner == req[r].job[4]
           events == Event(f, "status", before.status, status) \o Event(f, "owner", before.owner, owner)
       IN IF Hidden(r) \/ (Barred(r) /\ events # <<>>) THEN Throws(r)
          ELSE /\ Stores(r, [ideas EXCEPT ![f].status = status, ![f].owner = owner])
               /\ trail' = trail \o events

IdeaDies(r) ==
    /\ \E phase \in {"checked", "holding"} : Works(r, phase)
    /\ Throws(r)

Handles(r) == CreateFeatureRequest(r) \/ CheckOwner(r) \/ LockIdea(r) \/ WriteIdea(r) \/ IdeaDies(r)

FeatureRequestsInit ==
    /\ ideas = [f \in Ideas |-> IF f \in Suggested THEN NewIdea ELSE NoIdea]
    /\ trail = <<>>
    /\ shown = [u \in Members |-> [f \in Ideas |-> NoIdea]]
-----------------------------------------------------------------------------
\* What the events of one field of a feature request lead to.
Replayed(f, what, first) ==
    LET told == {i \in DOMAIN trail : trail[i].of = f /\ trail[i].what = what}
    IN IF told = {} THEN first
       ELSE trail[CHOOSE i \in told : \A j \in told : j <= i].to

\* The trail of a feature request leads step by step, with no gap, to the status
\* and the owner it has, whoever changed it at the same time (actions.ts:44-52).
TrailReplays ==
    /\ \A f \in Ideas :
          /\ ideas[f].status = Replayed(f, "status", "new")
          /\ ideas[f].owner = Replayed(f, "owner", Nobody)
    /\ \A i, j \in DOMAIN trail :
          /\ i < j /\ trail[i].of = trail[j].of /\ trail[i].what = trail[j].what
          /\ \A k \in i + 1 .. j - 1 :
                trail[k].of # trail[i].of \/ trail[k].what # trail[i].what
          => trail[j].from = trail[i].to
=============================================================================
