----------------------------- MODULE Respondent -----------------------------
(***************************************************************************)
(* Answering a study: concurrent requests open an invitation, start a      *)
(* response, complete it, while staff anonymize a panelist or change the   *)
(* status of the study.  The requests are transactions of PostgreSQL at    *)
(* READ COMMITTED: a statement reads what is committed when it begins, a   *)
(* locking statement waits for the row and then re-reads THAT row only,    *)
(* and the other tables of its join stay as the statement first saw them.  *)
(*                                                                         *)
(* An action is one statement, or a run of statements between which no     *)
(* other transaction can tell the difference.  Writes become visible at    *)
(* the action that commits; the locks held until then are explicit.        *)
(* A request refused before it locks or writes anything is no step.        *)
(***************************************************************************)
EXTENDS Naturals

CONSTANTS
  Conns,      \* database connections: each serves one request at a time
  Invites,    \* invitations, sent before the behaviour starts
  Responses,  \* rows of responses that can be inserted: a bound
  Panelists,
  InvitedAs,  \* the panelist each invitation was sent to
  Link,       \* the public link of the study, a channel without invitation
  Nobody      \* null in a panelist_id column

ASSUME InvitedAsAssumption == InvitedAs \in [Invites -> Panelists]
ASSUME NobodyAssumption == Nobody \notin Panelists
ASSUME RowsAssumption == Invites \cap Responses = {} /\ Link \notin Invites \cup Responses

VARIABLES
  live,        \* studies.status = 'live'
  invStatus,   \* invitations.status
  invOwner,    \* invitations.panelist_id
  revoked,     \* the invitations whose token was replaced
  respStatus,  \* responses.status, "none" before the row is inserted
  respInv,     \* responses.invitation_id, Link when null
  respOwner,   \* responses.panelist_id
  effects,     \* how often the side effects of completing were written
  tagged,      \* the panelists an add_tag rule tagged
  anonymized,
  pc,          \* where the request of each connection stands
  row,         \* the row it works on or waits for
  locks,       \* the rows its transaction holds
  todo,        \* the rows anonymizePanelist still has to lock
  who,         \* the panelist anonymizePanelist is about
  overwritten  \* history: completed invitations a late click overwrote

invites   == <<invStatus, invOwner, revoked>>
responses == <<respStatus, respInv, respOwner, effects>>
people    == <<tagged, anonymized>>
request   == <<pc, row, locks, todo, who>>
vars == <<live, invites, responses, people, request, overwritten>>

Channels == Invites \cup {Link}
Rows     == Invites \cup Responses

\* invitation_status, without the values no code path writes or reads apart.
Fresh       == {"sent"}                          \* sent, delivered, opened
Answerable  == {"sent", "clicked", "started"}
InvStatuses == Answerable \cup {"completed", "unsubscribed"}

Final == {"completed", "disqualified"}

Starting    == {"startLock", "find", "insert"}
Completing  == {"completeLock", "finalize"}
Anonymizing == {"anonInvites", "anonFind", "anonResponses", "anonCommit"}

TypeOK ==
  /\ live \in BOOLEAN
  /\ invStatus  \in [Invites -> InvStatuses]
  /\ invOwner   \in [Invites -> Panelists \cup {Nobody}]
  /\ revoked    \subseteq Invites
  /\ respStatus \in [Responses -> {"none", "started"} \cup Final]
  /\ respInv    \in [Responses -> Channels]
  /\ respOwner  \in [Responses -> Panelists \cup {Nobody}]
  /\ effects    \in [Responses -> 0 .. 1]
  /\ tagged     \subseteq Panelists
  /\ anonymized \subseteq Panelists
  /\ pc    \in [Conns -> {"idle", "click", "insertPublic"}
                           \cup Starting \cup Completing \cup Anonymizing]
  /\ row   \in [Conns -> Rows \cup {Link}]
  /\ locks \in [Conns -> SUBSET Rows]
  /\ todo  \in [Conns -> SUBSET Rows]
  /\ who   \in [Conns -> Panelists \cup {Nobody}]
  /\ overwritten \subseteq Invites

Init ==
  /\ live = TRUE
  /\ invStatus  = [i \in Invites |-> "sent"]
  /\ invOwner   = InvitedAs
  /\ revoked    = {}
  /\ respStatus = [r \in Responses |-> "none"]
  /\ respInv    = [r \in Responses |-> Link]
  /\ respOwner  = [r \in Responses |-> Nobody]
  /\ effects    = [r \in Responses |-> 0]
  /\ tagged     = {}
  /\ anonymized = {}
  /\ pc    = [c \in Conns |-> "idle"]
  /\ row   = [c \in Conns |-> Link]
  /\ locks = [c \in Conns |-> {}]
  /\ todo  = [c \in Conns |-> {}]
  /\ who   = [c \in Conns |-> Nobody]
  /\ overwritten = {}

----------------------------------------------------------------------------
(* Requests and row locks.                                                 *)

Free(c, x) == \A d \in Conns \ {c} : x \notin locks[d]

Goto(c, point, x, held) ==
  /\ pc'    = [pc EXCEPT ![c] = point]
  /\ row'   = [row EXCEPT ![c] = x]
  /\ locks' = [locks EXCEPT ![c] = held]
  /\ UNCHANGED <<todo, who>>

\* Commit or roll back, and answer.
EndRequest(c) ==
  /\ pc'    = [pc EXCEPT ![c] = "idle"]
  /\ row'   = [row EXCEPT ![c] = Link]
  /\ locks' = [locks EXCEPT ![c] = {}]
  /\ todo'  = [todo EXCEPT ![c] = {}]
  /\ who'   = [who EXCEPT ![c] = Nobody]

tables == <<live, invites, responses, people, overwritten>>

\* The process dies or the connection drops: the transaction rolls back.
Abort(c) ==
  /\ pc[c] # "idle"
  /\ EndRequest(c)
  /\ UNCHANGED tables

\* The points at which a request waits for its row.
Waiting == {"click", "startLock", "completeLock", "finalize",
            "anonInvites", "anonResponses"}

WaitsFor(c, d) == c # d /\ pc[c] \in Waiting /\ row[c] \in locks[d]

\* Waiting for one lock each, the members of a deadlock form a cycle.
Deadlocked(c) ==
  \E cycle \in SUBSET Conns :
    /\ c \in cycle
    /\ \A d \in cycle : /\ \E e \in cycle : WaitsFor(d, e)
                        /\ \E e \in cycle : WaitsFor(e, d)

\* PostgreSQL's deadlock detector aborts a member of the cycle.
DeadlockAbort(c) == Deadlocked(c) /\ Abort(c)

----------------------------------------------------------------------------
(* getInvitationSurvey: a read, then an update that looks at nothing.      *)

Usable(i) == i \notin revoked /\ invStatus[i] # "unsubscribed"

OpenRead(c, i) ==
  /\ pc[c] = "idle"
  /\ Usable(i)
  /\ invStatus[i] \in Fresh
  /\ Goto(c, "click", i, {})
  /\ UNCHANGED tables

OpenClick(c) ==
  /\ pc[c] = "click"
  /\ Free(c, row[c])
  /\ invStatus' = [invStatus EXCEPT ![row[c]] = "clicked"]
  /\ overwritten' = IF invStatus[row[c]] = "completed"
                      THEN overwritten \cup {row[c]} ELSE overwritten
  /\ EndRequest(c)
  /\ UNCHANGED <<live, invOwner, revoked, responses, people>>

----------------------------------------------------------------------------
(* startResponse.                                                          *)

StartRead(c, i) ==
  /\ pc[c] = "idle"
  /\ live
  /\ Usable(i)
  /\ Goto(c, "startLock", i, {})
  /\ UNCHANGED tables

\* Mutant: the statement does not lock the invitation.
StartLock_NoLock(c) ==
  /\ pc[c] = "startLock"
  /\ Free(c, row[c])
  /\ \/ /\ Usable(row[c])
        /\ invStatus[row[c]] # "completed"
        /\ Goto(c, "find", row[c], {})
     \/ EndRequest(c)
  /\ UNCHANGED tables

\* Mutant: a completed invitation may start again.
StartLock_CompletedRestarts(c) ==
  /\ pc[c] = "startLock"
  /\ Free(c, row[c])
  /\ \/ Usable(row[c]) /\ Goto(c, "find", row[c], {row[c]})
     \/ EndRequest(c)
  /\ UNCHANGED tables

\* The invitation is locked and read again, the study is not; refused also
\* when the device is not the study's.
StartLock(c) ==
  /\ pc[c] = "startLock"
  /\ Free(c, row[c])
  /\ \/ /\ Usable(row[c])
        /\ invStatus[row[c]] # "completed"
        /\ Goto(c, "find", row[c], {row[c]})
     \/ EndRequest(c)
  /\ UNCHANGED tables

Unused == { r \in Responses : respStatus[r] = "none" }

OpenResponses(i) ==
  { r \in Responses : respStatus[r] = "started" /\ respInv[r] = i }

\* Mutant: a reused response is answered without ending the transaction.
StartFind_KeepsLock(c) ==
  /\ pc[c] = "find"
  /\ \/ OpenResponses(row[c]) = {} /\ Goto(c, "insert", row[c], locks[c])
     \/ OpenResponses(row[c]) # {} /\ Goto(c, "idle", row[c], locks[c])
  /\ UNCHANGED tables

\* An open response is reused: starting again is how a client retries.
StartFind(c) ==
  /\ pc[c] = "find"
  /\ \/ OpenResponses(row[c]) = {} /\ Goto(c, "insert", row[c], locks[c])
     \/ OpenResponses(row[c]) # {} /\ EndRequest(c)
  /\ UNCHANGED tables

InsertResponse(channel, owner) ==
  \E r \in Unused :
    /\ respStatus' = [respStatus EXCEPT ![r] = "started"]
    /\ respInv'    = [respInv EXCEPT ![r] = channel]
    /\ respOwner'  = [respOwner EXCEPT ![r] = owner]
    /\ UNCHANGED effects

StartInsert(c) ==
  /\ pc[c] = "insert"
  /\ \/ /\ InsertResponse(row[c], invOwner[row[c]])
        /\ invStatus' = [invStatus EXCEPT ![row[c]] = "started"]
     \/ /\ Unused = {}     \* the bound of the model
        /\ UNCHANGED <<responses, invStatus>>
  /\ EndRequest(c)
  /\ UNCHANGED <<live, invOwner, revoked, people, overwritten>>

\* The public link locks nothing: a read, then an insert.
PublicRead(c) ==
  /\ pc[c] = "idle"
  /\ live
  /\ Unused # {}
  /\ Goto(c, "insertPublic", Link, {})
  /\ UNCHANGED tables

PublicInsert(c) ==
  /\ pc[c] = "insertPublic"
  /\ InsertResponse(Link, Nobody) \/ (Unused = {} /\ UNCHANGED responses)
  /\ EndRequest(c)
  /\ UNCHANGED <<live, invites, people, overwritten>>

----------------------------------------------------------------------------
(* completeResponse: locks the response, then the invitation.              *)

CompleteRead(c, r) ==
  /\ pc[c] = "idle"
  /\ live
  /\ respStatus[r] # "none"
  /\ respInv[r] \in Invites =>
       respInv[r] \notin revoked /\ invStatus[respInv[r]] \in Answerable
  /\ Goto(c, "completeLock", r, {})
  /\ UNCHANGED tables

\* Mutant: the response is finalized whatever its status after the wait.
CompleteLock_NoRecheck(c) ==
  /\ pc[c] = "completeLock"
  /\ Free(c, row[c])
  /\ Goto(c, "finalize", respInv[row[c]], {row[c]}) \/ EndRequest(c)
  /\ UNCHANGED tables

\* Only the response is read again; refused also when the answers are invalid.
CompleteLock(c) ==
  /\ pc[c] = "completeLock"
  /\ Free(c, row[c])
  /\ \/ /\ respStatus[row[c]] = "started"
        /\ Goto(c, "finalize", respInv[row[c]], {row[c]})
     \/ EndRequest(c)
  /\ UNCHANGED tables

\* Answers, interactions, contact event, cases and alerts count as effects.
Finalize(c) ==
  /\ pc[c] = "finalize"
  /\ Free(c, row[c])
  /\ \E r \in locks[c], outcome \in Final :
       /\ respStatus' = [respStatus EXCEPT ![r] = outcome]
       /\ effects' = [effects EXCEPT ![r] = @ + 1]
       /\ \/ UNCHANGED tagged
          \/ /\ outcome = "completed" /\ respOwner[r] # Nobody
             /\ tagged' = tagged \cup {respOwner[r]}
  /\ invStatus' = [i \in Invites |-> IF i = row[c] THEN "completed" ELSE invStatus[i]]
  /\ EndRequest(c)
  /\ UNCHANGED <<live, invOwner, revoked, respInv, respOwner, anonymized, overwritten>>

----------------------------------------------------------------------------
(* anonymizePanelist: invitations first, then responses, then the panelist.*)

\* The scan goes on with some row of the rest, or the statement is done.
Scan(c, point, done, rest, held) ==
  /\ todo'  = [todo EXCEPT ![c] = rest]
  /\ locks' = [locks EXCEPT ![c] = held]
  /\ \/ /\ rest = {}
        /\ pc'  = [pc EXCEPT ![c] = done]
        /\ row' = [row EXCEPT ![c] = Link]
     \/ \E x \in rest :
        /\ pc'  = [pc EXCEPT ![c] = point]
        /\ row' = [row EXCEPT ![c] = x]

AnonymizeRead(c, p) ==
  /\ pc[c] = "idle"
  /\ who' = [who EXCEPT ![c] = p]
  /\ Scan(c, "anonInvites", "anonFind", { i \in Invites : invOwner[i] = p }, {})
  /\ UNCHANGED tables

AnonymizeInvite(c) ==
  /\ pc[c] = "anonInvites"
  /\ Free(c, row[c])
  /\ Scan(c, "anonInvites", "anonFind", todo[c] \ {row[c]}, locks[c] \cup {row[c]})
  /\ UNCHANGED <<tables, who>>

\* Mutant: responses in progress are forgotten.
AnonymizeFind_FinalOnly(c) ==
  /\ pc[c] = "anonFind"
  /\ Scan(c, "anonResponses", "anonCommit",
          { r \in Responses : respOwner[r] = who[c] /\ respStatus[r] \in Final }, locks[c])
  /\ UNCHANGED <<tables, who>>

\* A new statement: it sees the responses inserted while the invitations waited.
AnonymizeFind(c) ==
  /\ pc[c] = "anonFind"
  /\ Scan(c, "anonResponses", "anonCommit",
          { r \in Responses : respOwner[r] = who[c] }, locks[c])
  /\ UNCHANGED <<tables, who>>

\* A row that another request unlinked meanwhile is skipped.
AnonymizeResponse(c) ==
  /\ pc[c] = "anonResponses"
  /\ Free(c, row[c])
  /\ Scan(c, "anonResponses", "anonCommit", todo[c] \ {row[c]},
          locks[c] \cup { r \in {row[c]} : respOwner[r] = who[c] })
  /\ UNCHANGED <<tables, who>>

AnonymizeCommit(c) ==
  /\ pc[c] = "anonCommit"
  /\ invOwner'   = [i \in Invites |-> IF i \in locks[c] THEN Nobody ELSE invOwner[i]]
  /\ invStatus'  = [i \in Invites |->
                      IF i \in locks[c] THEN "unsubscribed" ELSE invStatus[i]]
  /\ revoked'    = revoked \cup (locks[c] \cap Invites)
  /\ respOwner'  = [r \in Responses |-> IF r \in locks[c] THEN Nobody ELSE respOwner[r]]
  /\ tagged'     = tagged \ {who[c]}
  /\ anonymized' = anonymized \cup {who[c]}
  /\ EndRequest(c)
  /\ UNCHANGED <<live, respStatus, respInv, effects, overwritten>>

----------------------------------------------------------------------------
\* setStudyStatus; what is not live is treated alike here.
SetStudyStatus ==
  /\ live' \in BOOLEAN
  /\ UNCHANGED <<invites, responses, people, request, overwritten>>

Begin(c) ==
  \/ \E i \in Invites : OpenRead(c, i) \/ StartRead(c, i)
  \/ \E r \in Responses : CompleteRead(c, r)
  \/ \E p \in Panelists : AnonymizeRead(c, p)
  \/ PublicRead(c)

Step(c) ==
  \/ OpenClick(c)
  \/ StartLock(c) \/ StartFind(c) \/ StartInsert(c) \/ PublicInsert(c)
  \/ CompleteLock(c) \/ Finalize(c)
  \/ AnonymizeInvite(c) \/ AnonymizeFind(c) \/ AnonymizeResponse(c)
  \/ AnonymizeCommit(c)

Next ==
  \/ SetStudyStatus
  \/ \E c \in Conns : Begin(c) \/ Step(c) \/ Abort(c)

Spec == Init /\ [][Next]_vars

(***************************************************************************)
(* Fairness: PostgreSQL grants a row lock in the order of the requests, so *)
(* a waiting request is served if the row is free again and again; and its *)
(* deadlock detector ends a cycle.                                         *)
(***************************************************************************)
FairSpec ==
  /\ Spec
  /\ \A c \in Conns : SF_vars(Step(c))
  /\ WF_vars(\E c \in Conns : DeadlockAbort(c))

----------------------------------------------------------------------------
(* Properties.                                                             *)

(***************************************************************************)
(* However starts interleave or are retried, an invitation has at most one *)
(* response in progress (startResponse locks the invitation before it      *)
(* looks for one).                                                         *)
(***************************************************************************)
OneOpenResponse ==
  \A q, r \in Responses :
    /\ respStatus[q] = "started" /\ respStatus[r] = "started"
    /\ respInv[q] = respInv[r] /\ respInv[r] \in Invites
    => q = r

(***************************************************************************)
(* The side effects of completing (answers, contact event, cases, alerts)  *)
(* are written once for a finalized response and never for another,        *)
(* whichever completions of it run at the same time.                       *)
(***************************************************************************)
EffectsOnce ==
  \A r \in Responses : effects[r] = IF respStatus[r] \in Final THEN 1 ELSE 0

(***************************************************************************)
(* An invitation is answered once, unless a late open put 'clicked' over   *)
(* its 'completed': only then can it be answered again.                    *)
(***************************************************************************)
OneAnswerUnlessOverwritten ==
  \A q, r \in Responses :
    /\ respStatus[q] \in Final /\ respStatus[r] # "none" /\ q # r
    /\ respInv[q] = respInv[r] /\ respInv[r] \in Invites
    => respInv[r] \in overwritten

(***************************************************************************)
(* What the build plan says of a token: it cannot start a second response  *)
(* of an invitation that has one.                                          *)
(***************************************************************************)
NoDuplicateResponse ==
  \A q, r \in Responses :
    /\ respStatus[q] # "none" /\ respStatus[r] # "none"
    /\ respInv[q] = respInv[r] /\ respInv[r] \in Invites
    => q = r

(***************************************************************************)
(* Nothing leads from an invitation, a response or a tag to an anonymized  *)
(* panelist, also when starts and completions ran while anonymizePanelist  *)
(* did.                                                                    *)
(***************************************************************************)
AnonymizedUnlinked ==
  \A p \in anonymized :
    /\ \A i \in Invites : invOwner[i] # p
    /\ \A r \in Responses : respOwner[r] # p
    /\ p \notin tagged

(***************************************************************************)
(* The inductive invariant behind these: a row is locked by one request,   *)
(* and every request has locked what the statements it passed lock and     *)
(* still finds it as it read it.  The last three conjuncts are why         *)
(* anonymizePanelist locks invitations before it looks for responses: from *)
(* then on no request can insert a response of the panelist.               *)
(***************************************************************************)
LocksExclusive == \A c, d \in Conns : c # d => locks[c] \cap locks[d] = {}

Standing(c) ==
  /\ pc[c] \in {"idle", "click", "insertPublic", "startLock", "completeLock"}
       => locks[c] = {}
  /\ pc[c] \in {"click"} \cup Starting => row[c] \in Invites
  /\ pc[c] = "completeLock" => row[c] \in Responses
  /\ pc[c] \in {"find", "insert"} =>
       locks[c] = {row[c]} /\ row[c] \notin revoked /\ invStatus[row[c]] # "completed"
  /\ pc[c] = "insert" => OpenResponses(row[c]) = {}
  /\ pc[c] = "finalize" =>
       \E r \in Responses :
         locks[c] = {r} /\ respStatus[r] = "started" /\ row[c] = respInv[r]
  /\ pc[c] = "anonInvites" => row[c] \in todo[c] /\ todo[c] \subseteq Invites
  /\ pc[c] = "anonResponses" => row[c] \in todo[c] /\ todo[c] \subseteq Responses
  /\ pc[c] \in Anonymizing => who[c] \in Panelists
  /\ pc[c] \in Anonymizing => \A i \in Invites : invOwner[i] = who[c] =>
       i \in locks[c] \/ (pc[c] = "anonInvites" /\ i \in todo[c])
  /\ pc[c] \in {"anonResponses", "anonCommit"} =>
       \A r \in Responses : respOwner[r] = who[c] =>
         r \in locks[c] \/ (pc[c] = "anonResponses" /\ r \in todo[c])

\* A finished invitation stays closed until a late open reopens it.
AnswersClose ==
  \A r \in Responses : respStatus[r] \in Final /\ respInv[r] \in Invites =>
    \/ invStatus[respInv[r]] = "completed"
    \/ respInv[r] \in revoked \cup overwritten

RespondentInv ==
  /\ TypeOK /\ LocksExclusive /\ (\A c \in Conns : Standing(c))
  /\ AnswersClose /\ OneOpenResponse /\ EffectsOnce
  /\ OneAnswerUnlessOverwritten /\ AnonymizedUnlinked

(***************************************************************************)
(* A token that anonymization replaced starts nothing any more, not even   *)
(* for a request that had read the invitation before.                      *)
(***************************************************************************)
RevokedStartsNothing ==
  [][\A r \in Responses :
       respStatus[r] = "none" /\ respStatus'[r] = "started" => respInv'[r] \notin revoked]_vars

(***************************************************************************)
(* A finalized response is never reopened, decided again or moved to       *)
(* another invitation, and never linked to a panelist it was not of.       *)
(***************************************************************************)
FinalIsFinal ==
  [][\A r \in Responses : respStatus[r] \in Final =>
       /\ respStatus'[r] = respStatus[r]
       /\ respInv'[r] = respInv[r]
       /\ respOwner'[r] \in {respOwner[r], Nobody}]_responses

(***************************************************************************)
(* Every request ends: completeResponse and anonymizePanelist lock in      *)
(* opposite orders and can deadlock, and the detector undoes that.  What   *)
(* ends leaves its connection idle, so it is idle again and again.         *)
(***************************************************************************)
RequestsEnd == \A c \in Conns : []<>(pc[c] = "idle")

=============================================================================
