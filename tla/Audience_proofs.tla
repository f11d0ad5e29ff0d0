-------------------------- MODULE Audience_proofs --------------------------
(***************************************************************************)
(* Proofs about module Audience, for every panel, every history of         *)
(* contacts and any number of overlapping invitations.                     *)
(***************************************************************************)
EXTENDS Audience, FiniteSetTheorems, TLAPS

(* What AudienceInv says of one call. *)
CallInv(c) ==
  /\ calls[c].began <= Len(dists)
  /\ OwedKept(c)
  /\ SelectedFit(c)

(* A step that at most appends distributions. *)
DistsGrow ==
  /\ Len(dists) \in Nat /\ Len(dists') \in Nat
  /\ Len(dists) <= Len(dists')
  /\ \A d \in 1..Len(dists) : dists'[d] = dists[d]

(* ... and leaves when a call began, and on which day, alone. *)
SameBeginning(c) ==
  /\ calls[c].began \in Nat
  /\ calls[c].began <= Len(dists)
  /\ calls'[c].began = calls[c].began
  /\ calls'[c].day = calls[c].day

(* The contacts a call could see when it began do not change any more. *)
LEMMA UnobstructedSame ==
  ASSUME NEW c, NEW p, DistsGrow, SameBeginning(c)
  PROVE  Unobstructed(c, p)' <=> Unobstructed(c, p)
<1>1. \A d \in 1..calls[c].began : dists'[d] = dists[d]
  BY DEF DistsGrow, SameBeginning
<1>2. {d \in 1..calls'[c].began :
         p \in dists'[d].invited /\ dists'[d].day + Window > calls'[c].day}
      = {d \in 1..calls[c].began :
           p \in dists[d].invited /\ dists[d].day + Window > calls[c].day}
  BY <1>1 DEF SameBeginning
<1>3. (\A d \in 1..calls'[c].began :
         p \in dists'[d].invited => dists'[d].day + Cooldown <= calls'[c].day)
      <=> (\A d \in 1..calls[c].began :
             p \in dists[d].invited => dists[d].day + Cooldown <= calls[c].day)
  BY <1>1 DEF SameBeginning
<1> QED
  BY <1>2, <1>3 DEF Unobstructed

(* What excuses a call for not reaching a panelist stays an excuse. *)
LEMMA ExcusedKept ==
  ASSUME NEW c, NEW p, DistsGrow, SameBeginning(c),
         anonymized \subseteq anonymized', Excused(c, p)
  PROVE  Excused(c, p)'
<1>1. CASE p \in anonymized
  BY <1>1 DEF Excused
<1>2. CASE \E d \in calls[c].began + 1 .. Len(dists) : p \in dists[d].invited
  <2>1. PICK d \in calls[c].began + 1 .. Len(dists) : p \in dists[d].invited
    BY <1>2
  <2>2. d \in calls'[c].began + 1 .. Len(dists') /\ d \in 1..Len(dists)
    BY <2>1 DEF DistsGrow, SameBeginning
  <2>3. p \in dists'[d].invited
    BY <2>1, <2>2 DEF DistsGrow
  <2> QED
    BY <2>2, <2>3 DEF Excused
<1> QED
  BY <1>1, <1>2 DEF Excused

(* Consent is lost by anonymization only. *)
ConsentKept == consented \ anonymized' \subseteq consented'

(* A step of somebody else preserves what the invariant says of a call. *)
LEMMA CallUntouched ==
  ASSUME NEW c, DistsGrow, calls'[c] = calls[c], calls[c].began \in Nat,
         anonymized \subseteq anonymized', ConsentKept, CallInv(c)
  PROVE  CallInv(c)'
<1>1. SameBeginning(c)
  BY DEF SameBeginning, CallInv
<1>2. (calls[c].began <= Len(dists))'
  BY DEF CallInv, DistsGrow
<1>3. SelectedFit(c)'
  BY UnobstructedSame, <1>1 DEF CallInv, SelectedFit
<1>4. OwedKept(c)'
  <2> SUFFICES ASSUME NEW p \in calls[c].owed, ~Excused(c, p)'
               PROVE  (/\ p \in consented
                       /\ calls[c].pc \in {"started", "listed"} =>
                            calls[c].size = All /\ Unobstructed(c, p)
                       /\ calls[c].narrowed => p \in Members
                       /\ calls[c].pc # "started" => p \in calls[c].audience)'
    BY DEF OwedKept
  <2>1. ~Excused(c, p)
    BY ExcusedKept, <1>1
  <2>2. p \in consented'
    BY <2>1 DEF CallInv, OwedKept, ConsentKept, Excused
  <2>3. Unobstructed(c, p)' <=> Unobstructed(c, p)
    BY UnobstructedSame, <1>1
  <2> QED
    BY <2>1, <2>2, <2>3 DEF CallInv, OwedKept
<1> QED
  BY <1>2, <1>3, <1>4 DEF CallInv

(* A call that has ended, or has not begun, owes nothing. *)
LEMMA CallIdle ==
  ASSUME NEW c, calls'[c] = IdleCall, Len(dists') \in Nat
  PROVE  CallInv(c)'
BY DEF CallInv, IdleCall, OwedKept, SelectedFit

-----------------------------------------------------------------------------
(* Contact governance. *)

(* What a call that begins now can see is all there is. *)
LEMMA ContactsFinite ==
  ASSUME NEW p, dists \in Seq(Dist)
  PROVE  /\ Contacts(p) = {d \in 1..Len(dists) : p \in dists[d].invited}
         /\ IsFiniteSet(Contacts(p))
<1>1. Contacts(p) = {d \in 1..Len(dists) : p \in dists[d].invited}
  BY DEF Contacts
<1>2. IsFiniteSet(1..Len(dists))
  BY FS_Interval
<1> QED
  BY <1>1, <1>2, FS_Subset

(* Of the first contacts, none is within the cooldown of a day and fewer   *)
(* than the cap are in its window.                                         *)
Clear(p, began, day) ==
  /\ \A d \in 1..began :
       p \in dists[d].invited => dists[d].day + Cooldown <= day
  /\ Cardinality({d \in 1..began :
       p \in dists[d].invited /\ dists[d].day + Window > day}) < Cap

(* Who is eligible has no obstacle among them. *)
LEMMA EligibleClear ==
  ASSUME NEW p, NEW began \in Nat, NEW day \in Nat, dists \in Seq(Dist),
         began <= Len(dists), ~InCooldown(p, day), UnderCap(p, day)
  PROVE  Clear(p, began, day)
<1> DEFINE Seen == {d \in 1..began :
              p \in dists[d].invited /\ dists[d].day + Window > day}
           Counted == {d \in Contacts(p) : dists[d].day + Window > day}
<1>0. 1..began \subseteq 1..Len(dists) /\ Len(dists) \in Nat
  OBVIOUS
<1>1. ASSUME NEW d \in 1..began, p \in dists[d].invited
      PROVE  dists[d].day + Cooldown <= day
  <2>1. d \in Contacts(p)
    BY <1>0, <1>1 DEF Contacts
  <2>2. dists[d] \in Dist
    BY <1>0
  <2>3. dists[d].day \in Nat
    BY <2>2 DEF Dist
  <2> QED
    BY <2>1, <2>3, AudienceAssumption DEF InCooldown
<1>2. Seen \in SUBSET Counted
  BY <1>0 DEF Contacts
<1>3. IsFiniteSet(Counted)
  BY ContactsFinite, FS_Subset
<1>4. Cardinality(Seen) <= Cardinality(Counted)
      /\ Cardinality(Seen) \in Nat /\ Cardinality(Counted) \in Nat
  BY <1>2, <1>3, FS_Subset, FS_CardinalityType
<1>5. Cardinality(Counted) < Cap
  BY DEF UnderCap
<1>6. Cardinality(Seen) < Cap
  BY <1>4, <1>5, AudienceAssumption
<1> HIDE DEF Seen, Counted
<1> QED
  BY <1>1, <1>6 DEF Clear, Seen

(* And the other way round, unless somebody contacted the panelist since. *)
LEMMA UnobstructedEligible ==
  ASSUME NEW c \in Calls, NEW p \in Panelists, NEW candidates,
         dists \in Seq(Dist), calls[c] \in Call,
         calls[c].began <= Len(dists),
         p \in candidates, p \in consented,
         Unobstructed(c, p), ~Excused(c, p)
  PROVE  p \in Eligible(candidates, calls[c].day)
<1>0. calls[c].began \in Nat /\ calls[c].day \in Nat /\ Len(dists) \in Nat
  BY DEF Call
<1>1. \A d \in DOMAIN dists : p \in dists[d].invited => d \in 1..calls[c].began
  BY <1>0 DEF Excused
<1>2. \A d \in Contacts(p) : d \in 1..calls[c].began /\ d \in 1..Len(dists) /\ p \in dists[d].invited
  BY <1>1 DEF Contacts
<1>3. ~InCooldown(p, calls[c].day)
  <2> SUFFICES ASSUME NEW d \in Contacts(p)
               PROVE  ~(dists[d].day + Cooldown > calls[c].day)
    BY DEF InCooldown
  <2>1. dists[d].day + Cooldown <= calls[c].day
    BY <1>2 DEF Unobstructed
  <2>2. dists[d] \in Dist
    BY <1>2
  <2>3. dists[d].day \in Nat
    BY <2>2 DEF Dist
  <2> QED
    BY <2>1, <2>3, <1>0, AudienceAssumption
<1>4. UnderCap(p, calls[c].day)
  <2>1. {d \in Contacts(p) : dists[d].day + Window > calls[c].day}
        = {d \in 1..calls[c].began :
             p \in dists[d].invited /\ dists[d].day + Window > calls[c].day}
    <3>1. 1..calls[c].began \subseteq DOMAIN dists
      BY <1>0
    <3> QED
      BY <1>2, <3>1 DEF Contacts
  <2> QED
    BY <2>1 DEF UnderCap, Unobstructed
<1>5. p \in candidates \cap Active \cap consented
  BY DEF Excused, Active
<1> QED
  BY <1>3, <1>4, <1>5 DEF Eligible

-----------------------------------------------------------------------------
(* What holds of the other calls in a step of one of them. *)
OthersAlone(c) == \A e \in Calls \ {c} : calls'[e] = calls[e]

(* A step of call "c" that writes no panelist and no distribution. *)
Reads(c) ==
  /\ OthersAlone(c)
  /\ UNCHANGED <<today, consented, anonymized, segment, dists>>

LEMMA DistsSame ==
  ASSUME dists \in Seq(Dist), UNCHANGED dists
  PROVE  DistsGrow
BY DEF DistsGrow

LEMMA OthersKeep ==
  ASSUME AudienceInv, NEW c \in Calls, DistsGrow, OthersAlone(c),
         anonymized \subseteq anonymized', ConsentKept,
         CallInv(c)'
  PROVE  \A e \in Calls : CallInv(e)'
<1> SUFFICES ASSUME NEW e \in Calls \ {c}
             PROVE  CallInv(e)'
  OBVIOUS
<1>1. CallInv(e)
  BY DEF AudienceInv, CallInv
<1>2. calls'[e] = calls[e]
  BY DEF OthersAlone
<1>3. calls[e].began \in Nat
  BY DEF AudienceInv, TypeOK, Call
<1> QED
  BY CallUntouched, <1>1, <1>2, <1>3

(* A step of call "c" to a state of the call that satisfies the invariant. *)
LEMMA ReadStep ==
  ASSUME AudienceInv, NEW c \in Calls, NEW r \in Call,
         calls' = [calls EXCEPT ![c] = r],
         UNCHANGED <<today, consented, anonymized, segment, dists>>,
         CallInv(c)'
  PROVE  AudienceInv'
<1>1. OthersAlone(c)
  BY DEF OthersAlone, AudienceInv, TypeOK
<1>2. DistsGrow
  BY DistsSame DEF AudienceInv, TypeOK
<1>3. \A e \in Calls : CallInv(e)'
  BY OthersKeep, <1>1, <1>2 DEF ConsentKept
<1>4. TypeOK'
  BY DEF AudienceInv, TypeOK
<1> QED
  BY <1>3, <1>4 DEF AudienceInv, CallInv

LEMMA IdleIsCall == IdleCall \in Call
BY DEF IdleCall, Call

LEMMA EligibleType ==
  ASSUME NEW candidates, NEW day
  PROVE  Eligible(candidates, day) \subseteq Panelists
BY DEF Eligible, Active

LEMMA StartKeeps ==
  ASSUME AudienceInv, NEW c \in Calls,
         NEW inSegment \in BOOLEAN, NEW size \in Sizes \cup {All},
         StartInvite(c, inSegment, size)
  PROVE  AudienceInv'
<1> DEFINE r == [pc |-> "started", day |-> today, inSegment |-> inSegment,
                 narrowed |-> inSegment /\ segment, size |-> size, audience |-> {},
                 began |-> Len(dists), owed |-> Owed(inSegment, size)]
<1>1. TypeOK
  BY DEF AudienceInv
<1>2. today \in Nat /\ Len(dists) \in Nat
  BY <1>1, AudienceAssumption DEF TypeOK
<1>3. Owed(inSegment, size) \subseteq Panelists
  BY EligibleType DEF Owed
<1>4. r \in Call
  <2>1. (inSegment /\ segment) \in BOOLEAN
    OBVIOUS
  <2> QED
    BY <1>2, <1>3, <2>1 DEF Call
<1>5. calls' = [calls EXCEPT ![c] = r]
      /\ UNCHANGED <<today, consented, anonymized, segment, dists>>
  BY DEF StartInvite
<1>6. calls'[c] = r
  BY <1>1, <1>5 DEF TypeOK
<1>7. CallInv(c)'
  <2>1. (calls[c].began <= Len(dists))'
    BY <1>2, <1>5, <1>6
  <2>2. SelectedFit(c)'
    BY <1>6 DEF SelectedFit
  <2>3. ASSUME NEW p \in Owed(inSegment, size)
        PROVE  /\ p \in consented
               /\ size = All
               /\ inSegment => p \in Members
               /\ ~InCooldown(p, today) /\ UnderCap(p, today)
    BY <2>3 DEF Owed, Eligible
  <2>4. ASSUME NEW p \in Owed(inSegment, size)
        PROVE  Unobstructed(c, p)'
    <3>1. Clear(p, Len(dists), today)
      BY <1>1, <1>2, <2>3, EligibleClear DEF TypeOK
    <3>2. dists' = dists /\ calls'[c].began = Len(dists) /\ calls'[c].day = today
      BY <1>5, <1>6
    <3> QED
      BY <3>1, <3>2 DEF Clear, Unobstructed
  <2>5. OwedKept(c)'
    BY <1>5, <1>6, <2>3, <2>4 DEF OwedKept
  <2> QED
    BY <2>1, <2>2, <2>5 DEF CallInv
<1> QED
  BY <1>4, <1>5, <1>7, ReadStep

LEMMA ListKeeps ==
  ASSUME AudienceInv, NEW c \in Calls, ListCandidates(c)
  PROVE  AudienceInv'
<1> DEFINE r == [calls[c] EXCEPT
                   !.pc = "listed", !.narrowed = FALSE,
                   !.audience = IF calls[c].narrowed THEN Active \cap Members ELSE Active]
<1>1. TypeOK /\ calls[c] \in Call /\ CallInv(c)
  BY DEF AudienceInv, TypeOK, CallInv
<1>2. r \in Call
  <2>1. (IF calls[c].narrowed THEN Active \cap Members ELSE Active) \in SUBSET Panelists
    BY DEF Active
  <2> QED
    BY <1>1, <2>1 DEF Call
<1>3. calls' = [calls EXCEPT ![c] = r]
      /\ UNCHANGED <<today, consented, anonymized, segment, dists>>
  BY DEF ListCandidates
<1>4. calls'[c] = r
  BY <1>1, <1>3 DEF TypeOK
<1>5. /\ r.pc = "listed" /\ r.narrowed = FALSE
      /\ r.audience = IF calls[c].narrowed THEN Active \cap Members ELSE Active
      /\ r.owed = calls[c].owed /\ r.began = calls[c].began
      /\ r.day = calls[c].day /\ r.size = calls[c].size
  BY <1>1 DEF Call
<1> HIDE DEF r
<1>6. CallInv(c)'
  <2>0. SameBeginning(c) /\ DistsGrow
    BY <1>1, <1>3, <1>4, <1>5, DistsSame DEF SameBeginning, CallInv, TypeOK, Call
  <2>1. (calls[c].began <= Len(dists))'
    BY <1>1, <1>3, <1>4, <1>5 DEF CallInv
  <2>2. SelectedFit(c)'
    BY <1>4, <1>5 DEF SelectedFit
  <2>3. ASSUME NEW p \in calls[c].owed, ~Excused(c, p)'
        PROVE  /\ p \in consented
               /\ r.size = All /\ Unobstructed(c, p)'
               /\ p \in r.audience
    <3>1. ~Excused(c, p)
      BY <2>0, <2>3, <1>3, ExcusedKept
    <3>2. /\ p \in consented
          /\ calls[c].size = All /\ Unobstructed(c, p)
          /\ calls[c].narrowed => p \in Members
      BY <1>1, <3>1 DEF CallInv, OwedKept, ListCandidates
    <3>3. p \in Active
      BY <1>1, <3>1 DEF Excused, Active, Call
    <3> QED
      BY <1>5, <2>0, <3>2, <3>3, UnobstructedSame
  <2>4. OwedKept(c)'
    BY <1>3, <1>4, <1>5, <2>3 DEF OwedKept
  <2> QED
    BY <2>1, <2>2, <2>4 DEF CallInv
<1> QED
  BY <1>2, <1>3, <1>6, ReadStep

LEMMA ResolveKeeps ==
  ASSUME AudienceInv, NEW c \in Calls, ResolveAudience(c)
  PROVE  AudienceInv'
<1> DEFINE eligible == Eligible(calls[c].audience, calls[c].day)
<1>1. TypeOK /\ calls[c] \in Call /\ CallInv(c)
  BY DEF AudienceInv, TypeOK, CallInv
<1>2. PICK selected \in Samples(eligible, calls[c].size) :
        calls' = [calls EXCEPT ![c] =
          IF Invitable(selected)
          THEN [calls[c] EXCEPT !.pc = "resolved", !.size = All,
                                !.audience = selected]
          ELSE IdleCall]
  BY DEF ResolveAudience
<1>3. UNCHANGED <<today, consented, anonymized, segment, dists>>
  BY DEF ResolveAudience
<1>4. selected \subseteq eligible /\ (calls[c].size = All => selected = eligible)
  BY <1>2 DEF Samples
<1>5. CASE ~Invitable(selected)
  <2>1. calls' = [calls EXCEPT ![c] = IdleCall] /\ calls'[c] = IdleCall
    BY <1>1, <1>2, <1>5 DEF TypeOK
  <2>2. CallInv(c)'
    BY <1>1, <1>3, <2>1, CallIdle DEF TypeOK
  <2> QED
    BY <1>3, <2>1, <2>2, IdleIsCall, ReadStep
<1>6. CASE Invitable(selected)
  <2> DEFINE r == [calls[c] EXCEPT !.pc = "resolved", !.size = All, !.audience = selected]
  <2>1. r \in Call
    BY <1>1, <1>4, EligibleType DEF Call
  <2>2. calls' = [calls EXCEPT ![c] = r] /\ calls'[c] = r
    BY <1>1, <1>2, <1>6 DEF TypeOK
  <2>3. /\ r.pc = "resolved" /\ r.audience = selected
        /\ r.narrowed = calls[c].narrowed
        /\ r.owed = calls[c].owed /\ r.began = calls[c].began /\ r.day = calls[c].day
    BY <1>1 DEF Call
  <2> HIDE DEF r
  <2>4. SameBeginning(c) /\ DistsGrow
    BY <1>1, <1>3, <2>2, <2>3, DistsSame DEF SameBeginning, CallInv, TypeOK, Call
  <2>5. (calls[c].began <= Len(dists))'
    BY <1>1, <1>3, <2>2, <2>3 DEF CallInv
  <2>6. SelectedFit(c)'
    <3>1. ASSUME NEW p \in selected
          PROVE  Unobstructed(c, p)'
      <4>1. ~InCooldown(p, calls[c].day) /\ UnderCap(p, calls[c].day)
        BY <1>4 DEF Eligible
      <4>2. Clear(p, calls[c].began, calls[c].day)
        BY <1>1, <4>1, EligibleClear DEF CallInv, TypeOK, Call
      <4>3. Unobstructed(c, p)
        BY <4>2 DEF Clear, Unobstructed
      <4> QED
        BY <2>4, <4>3, UnobstructedSame
    <3>2. Cardinality(selected) <= MaxInvite
      BY <1>6 DEF Invitable
    <3> QED
      BY <2>2, <2>3, <3>1, <3>2 DEF SelectedFit
  <2>7. ASSUME NEW p \in calls[c].owed, ~Excused(c, p)'
        PROVE  p \in consented /\ (calls[c].narrowed => p \in Members) /\ p \in selected
    <3>1. ~Excused(c, p)
      BY <1>3, <2>4, <2>7, ExcusedKept
    <3>2. /\ p \in consented
          /\ calls[c].size = All /\ Unobstructed(c, p)
          /\ calls[c].narrowed => p \in Members
          /\ p \in calls[c].audience
      BY <1>1, <3>1 DEF CallInv, OwedKept, ResolveAudience
    <3>3. p \in eligible
      BY <1>1, <3>1, <3>2, UnobstructedEligible DEF CallInv, TypeOK, Call
    <3> QED
      BY <1>4, <3>2, <3>3
  <2>8. OwedKept(c)'
    BY <1>3, <2>2, <2>3, <2>7 DEF OwedKept
  <2> QED
    BY <1>3, <2>1, <2>2, <2>5, <2>6, <2>8, ReadStep DEF CallInv
<1> QED
  BY <1>5, <1>6

LEMMA AddressesKeep ==
  ASSUME AudienceInv, NEW c \in Calls, ReadAddresses(c)
  PROVE  AudienceInv'
<1> DEFINE r == [calls[c] EXCEPT !.pc = "addressed", !.audience = calls[c].audience \ anonymized]
<1>1. TypeOK /\ calls[c] \in Call /\ CallInv(c)
  BY DEF AudienceInv, TypeOK, CallInv
<1>2. r \in Call
  BY <1>1 DEF Call
<1>3. calls' = [calls EXCEPT ![c] = r]
      /\ UNCHANGED <<today, consented, anonymized, segment, dists>>
  BY <1>1 DEF ReadAddresses, TypeOK, Call
<1>4. calls'[c] = r
  BY <1>1, <1>3 DEF TypeOK
<1>5. /\ r.pc = "addressed" /\ r.audience = calls[c].audience \ anonymized
      /\ r.narrowed = calls[c].narrowed
      /\ r.owed = calls[c].owed /\ r.began = calls[c].began /\ r.day = calls[c].day
  BY <1>1 DEF Call
<1> HIDE DEF r
<1>6. SameBeginning(c) /\ DistsGrow
  BY <1>1, <1>3, <1>4, <1>5, DistsSame DEF SameBeginning, CallInv, TypeOK, Call
<1>7. (calls[c].began <= Len(dists))'
  BY <1>1, <1>3, <1>4, <1>5 DEF CallInv
<1>8. SelectedFit(c)'
  <2>1. \A p \in calls[c].audience : Unobstructed(c, p)'
    BY <1>1, <1>6, UnobstructedSame DEF CallInv, SelectedFit, ReadAddresses
  <2>2. Cardinality(r.audience) <= MaxInvite
    <3>1. IsFiniteSet(calls[c].audience)
      BY <1>1, AudienceAssumption, FS_Subset DEF Call
    <3>2. Cardinality(calls[c].audience) <= MaxInvite
      BY <1>1 DEF CallInv, SelectedFit, ReadAddresses
    <3>3. r.audience \in SUBSET calls[c].audience
      BY <1>5
    <3>4. /\ Cardinality(r.audience) <= Cardinality(calls[c].audience)
          /\ Cardinality(r.audience) \in Nat /\ Cardinality(calls[c].audience) \in Nat
      BY <3>1, <3>3, FS_Subset, FS_CardinalityType
    <3> QED
      BY <3>2, <3>4, AudienceAssumption
  <2> QED
    BY <1>4, <1>5, <2>1, <2>2 DEF SelectedFit
<1>9. OwedKept(c)'
  <2>1. ASSUME NEW p \in calls[c].owed, ~Excused(c, p)'
        PROVE  p \in consented /\ (calls[c].narrowed => p \in Members) /\ p \in r.audience
    <3>1. ~Excused(c, p)
      BY <1>3, <1>6, <2>1, ExcusedKept
    <3>2. /\ p \in consented
          /\ calls[c].narrowed => p \in Members
          /\ p \in calls[c].audience
      BY <1>1, <3>1 DEF CallInv, OwedKept, ReadAddresses
    <3> QED
      BY <1>5, <3>1, <3>2 DEF Excused
  <2> QED
    BY <1>3, <1>4, <1>5, <2>1 DEF OwedKept
<1> QED
  BY <1>2, <1>3, <1>7, <1>8, <1>9, ReadStep DEF CallInv

LEMMA CommitKeeps ==
  ASSUME AudienceInv, NEW c \in Calls, CommitInvite(c)
  PROVE  AudienceInv'
<1> DEFINE dist == [invited |-> calls[c].audience, day |-> calls[c].day]
<1>1. TypeOK /\ calls[c] \in Call
  BY DEF AudienceInv, TypeOK
<1>2. dist \in Dist
  BY <1>1 DEF Call, Dist
<1>3. dists' = Append(dists, dist) /\ calls' = [calls EXCEPT ![c] = IdleCall]
      /\ UNCHANGED <<today, consented, anonymized, segment>>
  BY DEF CommitInvite
<1> HIDE DEF dist
<1>4. dists' \in Seq(Dist) /\ DistsGrow
  BY <1>1, <1>2, <1>3 DEF TypeOK, DistsGrow
<1>5. OthersAlone(c) /\ calls'[c] = IdleCall
  BY <1>1, <1>3 DEF OthersAlone, TypeOK
<1>6. CallInv(c)'
  BY <1>4, <1>5, CallIdle DEF DistsGrow
<1>7. \A e \in Calls : CallInv(e)'
  BY <1>3, <1>4, <1>5, <1>6, OthersKeep DEF ConsentKept
<1>8. TypeOK'
  BY <1>1, <1>3, <1>4, IdleIsCall DEF TypeOK
<1> QED
  BY <1>7, <1>8 DEF AudienceInv, CallInv

LEMMA AbortKeeps ==
  ASSUME AudienceInv, NEW c \in Calls, AbortInvite(c)
  PROVE  AudienceInv'
<1>1. TypeOK
  BY DEF AudienceInv
<1>2. calls' = [calls EXCEPT ![c] = IdleCall]
      /\ UNCHANGED <<today, consented, anonymized, segment, dists>>
  BY DEF AbortInvite
<1>3. calls'[c] = IdleCall /\ Len(dists') \in Nat
  BY <1>1, <1>2 DEF TypeOK
<1> QED
  BY <1>2, <1>3, CallIdle, IdleIsCall, ReadStep

(* A step of the panel around the calls. *)
LEMMA PanelKeeps ==
  ASSUME AudienceInv, PanelStep
  PROVE  AudienceInv'
<1>1. TypeOK
  BY DEF AudienceInv
<1>2. calls' = calls /\ dists' = dists
  BY DEF PanelStep, GrantConsent, Anonymize, DeleteSegment, NextDay
<1>3. anonymized \subseteq anonymized' /\ ConsentKept
  BY DEF PanelStep, GrantConsent, Anonymize, DeleteSegment, NextDay, ConsentKept
<1>4. TypeOK'
  <2>1. /\ consented' \subseteq Panelists
        /\ anonymized' \subseteq Panelists
        /\ segment' \in BOOLEAN
    BY <1>1 DEF PanelStep, GrantConsent, Anonymize, DeleteSegment, NextDay, Active, TypeOK
  <2>2. today' \in FirstDay..MaxDay
    BY <1>1, AudienceAssumption
    DEF PanelStep, GrantConsent, Anonymize, DeleteSegment, NextDay, TypeOK
  <2> QED
    BY <1>1, <1>2, <2>1, <2>2 DEF TypeOK
<1>5. DistsGrow
  BY <1>1, <1>2, DistsSame DEF TypeOK
<1>6. ASSUME NEW c \in Calls
      PROVE  CallInv(c)'
  <2>1. CallInv(c) /\ calls[c].began \in Nat
    BY <1>1 DEF AudienceInv, CallInv, TypeOK, Call
  <2> QED
    BY <1>2, <1>3, <1>5, <2>1, CallUntouched
<1> QED
  BY <1>4, <1>6 DEF AudienceInv, CallInv

LEMMA SeqMonotone ==
  ASSUME NEW S, NEW T, \A x \in S : x \in T, NEW s \in Seq(S)
  PROVE  s \in Seq(T)
OBVIOUS

LEMMA InitHolds ==
  ASSUME Init
  PROVE  AudienceInv
<1>1. dists \in Seq(Dist)
  <2> DEFINE Old == [invited : SUBSET Panelists, day : 0..FirstDay]
  <2>1. \A d \in Old : d \in Dist
    BY AudienceAssumption DEF Dist
  <2>2. Past \in Seq(Old)
    BY AudienceAssumption
  <2> HIDE DEF Old
  <2>3. Past \in Seq(Dist)
    BY <2>1, <2>2, SeqMonotone
  <2> QED
    BY <2>3 DEF Init
<1>2. TypeOK
  BY <1>1, IdleIsCall, AudienceAssumption DEF Init, TypeOK
<1>3. ASSUME NEW c \in Calls
      PROVE  CallInv(c)
  <2>1. calls[c] = IdleCall /\ Len(dists) \in Nat
    BY <1>1, <1>3 DEF Init
  <2> QED
    BY <2>1 DEF IdleCall, CallInv, OwedKept, SelectedFit
<1> QED
  BY <1>2, <1>3 DEF AudienceInv, CallInv

LEMMA StepKeeps ==
  ASSUME AudienceInv, [Next]_vars
  PROVE  AudienceInv'
<1>1. CASE \E c \in Calls : InviteStep(c)
  BY <1>1, StartKeeps, ListKeeps, ResolveKeeps, AddressesKeep, CommitKeeps, AbortKeeps
  DEF InviteStep
<1>2. CASE PanelStep
  BY <1>2, PanelKeeps
<1>3. CASE UNCHANGED vars
  <2>1. TypeOK'
    BY <1>3 DEF vars, AudienceInv, TypeOK
  <2>2. DistsGrow
    BY <1>3, DistsSame DEF vars, AudienceInv, TypeOK
  <2>3. ASSUME NEW c \in Calls
        PROVE  CallInv(c)'
    <3>1. CallInv(c) /\ calls[c].began \in Nat
      BY DEF AudienceInv, CallInv, TypeOK, Call
    <3> QED
      BY <1>3, <2>2, <3>1, CallUntouched DEF vars, ConsentKept
  <2> QED
    BY <2>1, <2>3 DEF AudienceInv, CallInv
<1> QED
  BY <1>1, <1>2, <1>3 DEF Next

-----------------------------------------------------------------------------
(* What the code promises. *)

(* The inductive invariant: every owed panelist still fits or is excused,  *)
(* and everybody selected fits.                                            *)
THEOREM AudienceInvCorrect == Spec => []AudienceInv
<1>1. Init => AudienceInv
  BY InitHolds
<1>2. AudienceInv /\ [Next]_vars => AudienceInv'
  BY StepKeeps
<1> QED
  BY <1>1, <1>2, PTL DEF Spec

(* Nobody is messaged within the cooldown of a contact that had committed  *)
(* when the invitation began (applyGovernance).                            *)
THEOREM CooldownCorrect == Spec => []CooldownKept
<1>1. AudienceInv => CooldownKept
  BY DEF AudienceInv, SelectedFit, Unobstructed, CooldownKept, Sending
<1> QED
  BY <1>1, AudienceInvCorrect, PTL

(* Nobody is messaged over the contact cap, counting the contacts that had *)
(* committed when the invitation began (applyGovernance).                  *)
THEOREM CapCorrect == Spec => []CapKept
<1>1. AudienceInv => CapKept
  BY DEF AudienceInv, SelectedFit, Unobstructed, CapKept, Sending
<1> QED
  BY <1>1, AudienceInvCorrect, PTL

(* The contact rules hold for every message about to be sent.              *)
THEOREM ContactRulesCorrect == Spec => []ContactRulesKept
BY CooldownCorrect, CapCorrect, PTL DEF ContactRulesKept

(* Inviting "all" reaches everybody who could be contacted, but for those  *)
(* excused by what was committed in the meantime (resolveAudience).        *)
THEOREM NobodyLeftOutCorrect == Spec => []NobodyLeftOut
<1>1. AudienceInv => NobodyLeftOut
  BY DEF AudienceInv, OwedKept, Excused, NobodyLeftOut, Sending
<1> QED
  BY <1>1, AudienceInvCorrect, PTL
=============================================================================
