------------------------------ MODULE Audience ------------------------------
(***************************************************************************)
(* Panel invitations under contact governance: createPanelInvite resolves  *)
(* an audience in one transaction of several statements at READ COMMITTED  *)
(* (segment, candidates, eligibility, addresses) and then inserts a        *)
(* distribution with its invitations, messages and contact events.  Other  *)
(* invitations, consents, anonymizations and the deletion of the segment   *)
(* commit in between.  (Module PanelImport adds panelists.)                *)
(*                                                                         *)
(* Every "sent" contact event is inserted with an invitation and dated by  *)
(* now(), the start of its transaction, so the events are those of         *)
(* "dists".  A day is the unit of time.  A random sample is any subset of  *)
(* the right size.  The panel filters are left out, and one segment        *)
(* stands for all: the set Members.  A panelist has an address until       *)
(* anonymized: one without is excluded as one without consent is.          *)
(***************************************************************************)
EXTENDS Naturals, FiniteSets, Sequences

CONSTANTS Panelists,
          Members,    \* the panelists the segment describes
          Calls,      \* calls of createPanelInvite
          Cooldown,   \* contactCooldownDays
          Window,     \* the 30 days of the contact cap
          Cap,        \* monthlyContactCap
          MaxInvite,  \* maxInviteSize
          Sizes,      \* sample sizes asked for; All is the method "all"
          All,
          Past,       \* the distributions before the model begins, on FirstDay
          FirstDay,
          MaxDay,     \* bound on the days that pass
          MaxDists    \* bound on the distributions

ASSUME AudienceAssumption ==
  /\ IsFiniteSet(Panelists)
  /\ Members \subseteq Panelists
  /\ Cooldown \in Nat /\ Window \in Nat /\ Cap \in Nat /\ MaxInvite \in Nat
  /\ Sizes \subseteq Nat \ {0}
  /\ All \notin Nat
  /\ FirstDay \in Nat /\ MaxDay \in Nat /\ MaxDists \in Nat /\ FirstDay <= MaxDay
  /\ Past \in Seq([invited : SUBSET Panelists, day : 0..FirstDay])

VARIABLES today,
          consented,   \* panelists whose consent to survey_contact is granted
          anonymized,  \* panelists with lifecycle anonymized; the others are active
          segment,     \* the segment has not been deleted
          dists,       \* distributions of kind panel_invite, by commit
          calls

vars == <<today, consented, anonymized, segment, dists, calls>>

(* A distribution: whom it invited, and the day its transaction began. *)
Dist == [invited : SUBSET Panelists, day : Nat]

(* A call: the panelists it has come to (candidates, selected, addressed). *)
(* For the properties: how many distributions had committed as it began,   *)
(* and whom it then owed an invitation.                                    *)
Call == [pc : {"idle", "started", "listed", "resolved", "addressed"},
         day : Nat, inSegment : BOOLEAN, narrowed : BOOLEAN,
         size : Sizes \cup {All}, audience : SUBSET Panelists,
         began : Nat, owed : SUBSET Panelists]

TypeOK ==
  /\ today \in FirstDay..MaxDay
  /\ consented \subseteq Panelists
  /\ anonymized \subseteq Panelists
  /\ segment \in BOOLEAN
  /\ dists \in Seq(Dist)
  /\ calls \in [Calls -> Call]

IdleCall == [pc |-> "idle", day |-> 0, inSegment |-> FALSE, narrowed |-> FALSE,
             size |-> All, audience |-> {}, began |-> 0, owed |-> {}]

Init ==
  /\ today = FirstDay
  /\ consented \in SUBSET Panelists
  /\ anonymized = {}
  /\ segment = TRUE
  /\ dists = Past
  /\ calls = [c \in Calls |-> IdleCall]

-----------------------------------------------------------------------------
(* Contact governance. *)

Active == Panelists \ anonymized

(* The "sent" contact events of a panelist, each by its distribution. *)
Contacts(p) == {d \in DOMAIN dists : p \in dists[d].invited}

InCooldown(p, day) == \E d \in Contacts(p) : dists[d].day + Cooldown > day

\* Mutant: one contact too many.
UnderCap_OffByOne(p, day) ==
  Cardinality({d \in Contacts(p) : dists[d].day + Window > day}) <= Cap

UnderCap(p, day) ==
  Cardinality({d \in Contacts(p) : dists[d].day + Window > day}) < Cap

(* applyGovernance: one statement, with the day the transaction began. *)
Eligible(candidates, day) ==
  {p \in candidates \cap Active \cap consented :
     /\ ~InCooldown(p, day)
     /\ UnderCap(p, day)}

\* Mutant: an audience above the limit is cut to it.
Samples_Truncated(eligible, size) ==
  LET most == IF size # All /\ size < MaxInvite THEN size ELSE MaxInvite
  IN  {s \in SUBSET eligible :
         Cardinality(s) = IF most < Cardinality(eligible) THEN most ELSE Cardinality(eligible)}

(* randomSample draws size of more; otherwise everybody is selected. *)
Samples(eligible, size) ==
  IF size # All /\ size < Cardinality(eligible)
  THEN {s \in SUBSET eligible : Cardinality(s) = size}
  ELSE {eligible}

Invitable(selected) == selected # {} /\ Cardinality(selected) <= MaxInvite

-----------------------------------------------------------------------------
(* createPanelInvite. *)

(* Whom an invitation of everybody eligible should reach. *)
Owed(inSegment, size) ==
  IF size = All
  THEN Eligible(IF inSegment THEN Members ELSE Panelists, today)
  ELSE {}

(* The transaction begins and reads the segment: one that is not found     *)
(* narrows nothing.                                                        *)
StartInvite(c, inSegment, size) ==
  /\ calls[c].pc = "idle"
  /\ calls' = [calls EXCEPT ![c] =
       [pc |-> "started", day |-> today, inSegment |-> inSegment,
        narrowed |-> inSegment /\ segment, size |-> size, audience |-> {},
        began |-> Len(dists), owed |-> Owed(inSegment, size)]]
  /\ UNCHANGED <<today, consented, anonymized, segment, dists>>

(* listPanelistIds: everybody active, or everybody active in the segment. *)
ListCandidates(c) ==
  /\ calls[c].pc = "started"
  /\ calls' = [calls EXCEPT
       ![c] = [calls[c] EXCEPT
         !.pc = "listed",
         !.narrowed = FALSE,
         !.audience = IF calls[c].narrowed THEN Active \cap Members ELSE Active]]
  /\ UNCHANGED <<today, consented, anonymized, segment, dists>>

(* The rest of resolveAudience; an empty audience or one above the limit   *)
(* is an error.                                                            *)
ResolveAudience(c) ==
  /\ calls[c].pc = "listed"
  /\ \E selected \in Samples(Eligible(calls[c].audience, calls[c].day),
                             calls[c].size) :
       calls' = [calls EXCEPT ![c] =
         IF Invitable(selected)
         THEN [calls[c] EXCEPT !.pc = "resolved", !.size = All,
                               !.audience = selected]
         ELSE IdleCall]
  /\ UNCHANGED <<today, consented, anonymized, segment, dists>>

(* The addresses: of the selected, those that still have one. *)
ReadAddresses(c) ==
  /\ calls[c].pc = "resolved"
  /\ calls' = [calls EXCEPT
       ![c].pc = "addressed", ![c].audience = calls[c].audience \ anonymized]
  /\ UNCHANGED <<today, consented, anonymized, segment, dists>>

(* The inserts become visible together.  Bound: MaxDists. *)
CommitInvite(c) ==
  /\ calls[c].pc = "addressed"
  /\ Len(dists) < MaxDists
  /\ dists' = Append(dists, [invited |-> calls[c].audience, day |-> calls[c].day])
  /\ calls' = [calls EXCEPT ![c] = IdleCall]
  /\ UNCHANGED <<today, consented, anonymized, segment>>

(* A statement fails or the connection drops: nothing was written. *)
AbortInvite(c) ==
  /\ calls[c].pc # "idle"
  /\ calls' = [calls EXCEPT ![c] = IdleCall]
  /\ UNCHANGED <<today, consented, anonymized, segment, dists>>

-----------------------------------------------------------------------------
(* The panel around it. *)

(* submitRecruitment grants consent to the panelist with the address. *)
GrantConsent(p) ==
  /\ p \in Active \ consented
  /\ consented' = consented \cup {p}
  /\ UNCHANGED <<today, anonymized, segment, dists, calls>>

(* The commit of anonymizePanelist: identity and consent go together.  A   *)
(* consent granted beside it would change nothing, since nobody anonymized *)
(* is active again.                                                        *)
Anonymize(p) ==
  /\ anonymized' = anonymized \cup {p}
  /\ consented' = consented \ {p}
  /\ UNCHANGED <<today, segment, dists, calls>>

DeleteSegment ==
  /\ segment
  /\ segment' = FALSE
  /\ UNCHANGED <<today, consented, anonymized, dists, calls>>

(* Bound: MaxDay. *)
NextDay ==
  /\ today < MaxDay
  /\ today' = today + 1
  /\ UNCHANGED <<consented, anonymized, segment, dists, calls>>

-----------------------------------------------------------------------------
InviteStep(c) ==
  \/ \E inSegment \in BOOLEAN, size \in Sizes \cup {All} : StartInvite(c, inSegment, size)
  \/ ListCandidates(c)
  \/ ResolveAudience(c)
  \/ ReadAddresses(c)
  \/ CommitInvite(c)
  \/ AbortInvite(c)

PanelStep ==
  \/ \E p \in Panelists : GrantConsent(p) \/ Anonymize(p)
  \/ DeleteSegment
  \/ NextDay

Next ==
  \/ \E c \in Calls : InviteStep(c)
  \/ PanelStep

Spec == Init /\ [][Next]_vars

-----------------------------------------------------------------------------
(* Properties. *)

(* A call that is about to insert its invitations. *)
Sending == {c \in Calls : calls[c].pc = "addressed"}

(* Contact rules (distribution-actions.ts:49-55) hold between invitations  *)
(* that do not overlap: nobody is sent a message within the cooldown of    *)
(* one committed before the call began.  Overlapping calls do not see each *)
(* other's events and may both contact a panelist.                         *)
CooldownKept ==
  \A c \in Sending : \A p \in calls[c].audience, d \in 1..calls[c].began :
    p \in dists[d].invited => dists[d].day + Cooldown <= calls[c].day

(* ... nor once the contacts committed before the call began have reached  *)
(* the cap of the last 30 days.                                            *)
CapKept ==
  \A c \in Sending : \A p \in calls[c].audience :
    Cardinality({d \in 1..calls[c].began :
      p \in dists[d].invited /\ dists[d].day + Window > calls[c].day}) < Cap

(* Both rules, for every message about to be sent.                          *)
ContactRulesKept == CooldownKept /\ CapKept

(* "'all' invitations include every eligible panelist"                     *)
(* (audience.test.ts): who could be contacted when the call began is       *)
(* invited, unless the panelist has been anonymized or an overlapping call *)
(* contacted the panelist first.  Nobody is silently cut off.              *)
NobodyLeftOut ==
  \A c \in Sending : \A p \in calls[c].owed \ calls[c].audience :
    \/ p \in anonymized
    \/ \E d \in calls[c].began + 1 .. Len(dists) : p \in dists[d].invited

(* The inductive invariant.  An obstacle is a contact the call could see   *)
(* when it began; an excuse is what may have happened to a panelist since. *)
Unobstructed(c, p) ==
  /\ \A d \in 1..calls[c].began :
       p \in dists[d].invited => dists[d].day + Cooldown <= calls[c].day
  /\ Cardinality({d \in 1..calls[c].began :
       p \in dists[d].invited /\ dists[d].day + Window > calls[c].day}) < Cap

Excused(c, p) ==
  \/ p \in anonymized
  \/ \E d \in calls[c].began + 1 .. Len(dists) : p \in dists[d].invited

(* Nobody who is owed an invitation and has no excuse has become unfit or  *)
(* has dropped out of the audience.                                        *)
OwedKept(c) ==
  \A p \in calls[c].owed :
    \/ Excused(c, p)
    \/ /\ p \in consented
       /\ calls[c].pc \in {"started", "listed"} =>
            calls[c].size = All /\ Unobstructed(c, p)
       /\ calls[c].narrowed => p \in Members
       /\ calls[c].pc # "started" => p \in calls[c].audience

SelectedFit(c) ==
  calls[c].pc \in {"resolved", "addressed"} =>
    /\ \A p \in calls[c].audience : Unobstructed(c, p)
    /\ Cardinality(calls[c].audience) <= MaxInvite

AudienceInv ==
  /\ TypeOK
  /\ \A c \in Calls : /\ calls[c].began <= Len(dists)
                      /\ OwedKept(c)
                      /\ SelectedFit(c)
=============================================================================
