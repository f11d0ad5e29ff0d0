------------------------- MODULE Respondent_proofs -------------------------
(***************************************************************************)
(* Proofs about Respondent: RespondentInv is inductive, and the safety     *)
(* properties follow from it.  Steps that only move a request share one    *)
(* lemma; steps that commit keep what every other request relies on.       *)
(***************************************************************************)
EXTENDS Respondent, TLAPS

OthersStay(c) ==
  \A d \in Conns \ {c} :
    /\ pc'[d] = pc[d] /\ row'[d] = row[d] /\ locks'[d] = locks[d]
    /\ todo'[d] = todo[d] /\ who'[d] = who[d]

----------------------------------------------------------------------------
(* Steps of the request alone.                                             *)

(***************************************************************************)
(* What a request reads and locks disturbs no table and no other request.  *)
(***************************************************************************)
LEMMA RequestStep ==
  ASSUME RespondentInv, NEW c \in Conns, UNCHANGED tables, TypeOK',
         OthersStay(c), Standing(c)',
         \A d \in Conns \ {c} : locks'[c] \cap locks[d] = {}
  PROVE  RespondentInv'
<1>1. ASSUME NEW d \in Conns PROVE Standing(d)'
  <2>1. CASE d = c
    BY <2>1
  <2>2. CASE d # c
    <3>1. Standing(d)
      BY DEF RespondentInv
    <3>2. /\ pc'[d] = pc[d] /\ row'[d] = row[d] /\ locks'[d] = locks[d]
          /\ todo'[d] = todo[d] /\ who'[d] = who[d]
      BY <2>2 DEF OthersStay
    <3>. QED
      BY <3>1, <3>2 DEF Standing, tables, invites, responses, OpenResponses
  <2>. QED
    BY <2>1, <2>2
<1>2. LocksExclusive'
  <2>. SUFFICES ASSUME NEW d \in Conns, NEW e \in Conns, d # e
                PROVE  locks'[d] \cap locks'[e] = {}
    BY DEF LocksExclusive
  <2>1. locks[d] \cap locks[e] = {}
    BY DEF RespondentInv, LocksExclusive
  <2>2. /\ d # c => locks'[d] = locks[d]
        /\ e # c => locks'[e] = locks[e]
    BY DEF OthersStay
  <2>. QED
    BY <2>1, <2>2
<1>3. /\ AnswersClose' /\ OneOpenResponse' /\ EffectsOnce'
      /\ OneAnswerUnlessOverwritten' /\ AnonymizedUnlinked'
  BY DEF RespondentInv, tables, invites, responses, people, AnswersClose, OneOpenResponse,
         EffectsOnce, OneAnswerUnlessOverwritten, AnonymizedUnlinked
<1>. QED
  BY <1>1, <1>2, <1>3 DEF RespondentInv

(***************************************************************************)
(* A request that ends holds nothing.                                      *)
(***************************************************************************)
LEMMA EndStands ==
  ASSUME TypeOK, NEW c \in Conns, EndRequest(c)
  PROVE  /\ OthersStay(c) /\ Standing(c)'
         /\ pc'[c] = "idle" /\ locks'[c] = {}
         /\ pc'    \in [Conns -> {"idle", "click", "insertPublic"}
                                  \cup Starting \cup Completing \cup Anonymizing]
         /\ row'   \in [Conns -> Rows \cup {Link}]
         /\ locks' \in [Conns -> SUBSET Rows]
         /\ todo'  \in [Conns -> SUBSET Rows]
         /\ who'   \in [Conns -> Panelists \cup {Nobody}]
<1>1. pc'[c] = "idle" /\ locks'[c] = {}
  BY DEF EndRequest, TypeOK
<1>2. Standing(c)'
  BY <1>1 DEF Standing, Starting, Anonymizing
<1>3. OthersStay(c)
  BY DEF EndRequest, OthersStay, TypeOK
<1>. QED
  BY <1>1, <1>2, <1>3 DEF EndRequest, TypeOK

LEMMA EndKeepsInv ==
  ASSUME RespondentInv, NEW c \in Conns, EndRequest(c), UNCHANGED tables
  PROVE  RespondentInv'
<1>. TypeOK
  BY DEF RespondentInv
<1>1. TypeOK'
  BY EndStands DEF TypeOK, tables, invites, responses, people
<1>. QED
  BY <1>1, EndStands, RequestStep

(***************************************************************************)
(* A request that goes on to a point where it stands well.                 *)
(***************************************************************************)
LEMMA GotoKeepsInv ==
  ASSUME RespondentInv, NEW c \in Conns, NEW point, NEW x \in Rows \cup {Link},
         NEW held \in SUBSET Rows, Goto(c, point, x, held), UNCHANGED tables,
         point \in {"click", "insertPublic"} \cup Starting \cup Completing,
         Standing(c)',
         \A d \in Conns \ {c} : held \cap locks[d] = {}
  PROVE  RespondentInv'
<1>1. TypeOK'
  BY DEF RespondentInv, TypeOK, Goto, tables, invites, responses, people
<1>2. OthersStay(c) /\ locks'[c] = held
  BY DEF RespondentInv, TypeOK, Goto, OthersStay
<1>. QED
  BY <1>1, <1>2, RequestStep

LEMMA ScanFacts ==
  ASSUME TypeOK, NEW c \in Conns, NEW point \in Anonymizing, NEW done \in Anonymizing,
         NEW rest \in SUBSET Rows, NEW held \in SUBSET Rows,
         Scan(c, point, done, rest, held),
         who' \in [Conns -> Panelists \cup {Nobody}]
  PROVE  /\ todo'[c] = rest /\ locks'[c] = held
         /\ \/ rest = {} /\ pc'[c] = done
            \/ rest # {} /\ pc'[c] = point /\ row'[c] \in rest
         /\ pc'    \in [Conns -> {"idle", "click", "insertPublic"}
                                  \cup Starting \cup Completing \cup Anonymizing]
         /\ row'   \in [Conns -> Rows \cup {Link}]
         /\ locks' \in [Conns -> SUBSET Rows]
         /\ todo'  \in [Conns -> SUBSET Rows]
         /\ \A d \in Conns \ {c} :
              /\ pc'[d] = pc[d] /\ row'[d] = row[d]
              /\ locks'[d] = locks[d] /\ todo'[d] = todo[d]
BY DEF Scan, TypeOK

LEMMA ScanKeepsInv ==
  ASSUME RespondentInv, NEW c \in Conns, NEW point \in Anonymizing, NEW done \in Anonymizing,
         NEW rest \in SUBSET Rows, NEW held \in SUBSET Rows,
         Scan(c, point, done, rest, held), UNCHANGED tables,
         who' \in [Conns -> Panelists \cup {Nobody}],
         \A d \in Conns \ {c} : who'[d] = who[d],
         Standing(c)',
         \A d \in Conns \ {c} : held \cap locks[d] = {}
  PROVE  RespondentInv'
<1>. TypeOK
  BY DEF RespondentInv
<1>1. TypeOK'
  BY ScanFacts DEF TypeOK, tables, invites, responses, people
<1>2. OthersStay(c) /\ locks'[c] = held
  BY ScanFacts DEF OthersStay
<1>. QED
  BY <1>1, <1>2, RequestStep

----------------------------------------------------------------------------
(* Each action keeps the invariant: the ones that only move a request.     *)

LEMMA BeginKeepsInv ==
  ASSUME RespondentInv, NEW c \in Conns, Begin(c)
  PROVE  RespondentInv'
<1>. TypeOK
  BY DEF RespondentInv
<1>1. ASSUME NEW i \in Invites, OpenRead(c, i) PROVE RespondentInv'
  <2>1. pc'[c] = "click" /\ row'[c] = i /\ locks'[c] = {}
    BY <1>1 DEF OpenRead, Goto, TypeOK
  <2>2. Standing(c)'
    BY <2>1 DEF Standing, Starting, Anonymizing
  <2>. QED
    BY <1>1, <2>2, GotoKeepsInv DEF OpenRead, Rows
<1>2. ASSUME NEW i \in Invites, StartRead(c, i) PROVE RespondentInv'
  <2>1. pc'[c] = "startLock" /\ row'[c] = i /\ locks'[c] = {}
    BY <1>2 DEF StartRead, Goto, TypeOK
  <2>2. Standing(c)'
    BY <2>1 DEF Standing, Starting, Anonymizing
  <2>. QED
    BY <1>2, <2>2, GotoKeepsInv DEF StartRead, Rows, Starting
<1>3. ASSUME NEW r \in Responses, CompleteRead(c, r) PROVE RespondentInv'
  <2>1. pc'[c] = "completeLock" /\ row'[c] = r /\ locks'[c] = {}
    BY <1>3 DEF CompleteRead, Goto, TypeOK
  <2>2. Standing(c)'
    BY <2>1 DEF Standing, Starting, Anonymizing
  <2>. QED
    BY <1>3, <2>2, GotoKeepsInv DEF CompleteRead, Rows, Completing
<1>4. CASE PublicRead(c)
  <2>1. pc'[c] = "insertPublic" /\ locks'[c] = {}
    BY <1>4 DEF PublicRead, Goto, TypeOK
  <2>2. Standing(c)'
    BY <2>1 DEF Standing, Starting, Anonymizing
  <2>. QED
    BY <1>4, <2>2, GotoKeepsInv DEF PublicRead
<1>5. ASSUME NEW p \in Panelists, AnonymizeRead(c, p) PROVE RespondentInv'
  <2>. DEFINE rest == { i \in Invites : invOwner[i] = p }
  <2>1. /\ Scan(c, "anonInvites", "anonFind", rest, {})
        /\ UNCHANGED tables
        /\ who'[c] = p
        /\ who' \in [Conns -> Panelists \cup {Nobody}]
        /\ \A d \in Conns \ {c} : who'[d] = who[d]
    BY <1>5 DEF AnonymizeRead, TypeOK
  <2>2. rest \in SUBSET Rows /\ {} \in SUBSET Rows
    BY DEF Rows
  <2>3. "anonInvites" \in Anonymizing /\ "anonFind" \in Anonymizing
    BY DEF Anonymizing
  <2>4. /\ todo'[c] = rest /\ locks'[c] = {}
        /\ \/ rest = {} /\ pc'[c] = "anonFind"
           \/ rest # {} /\ pc'[c] = "anonInvites" /\ row'[c] \in rest
    BY <2>1 DEF Scan, TypeOK
  <2>5. invOwner' = invOwner
    BY <2>1 DEF tables, invites
  <2>6. Standing(c)'
    BY <2>1, <2>4, <2>5 DEF Standing, Starting, Anonymizing
  <2>7. \A d \in Conns \ {c} : {} \cap locks[d] = {}
    OBVIOUS
  <2>. QED
    BY <2>1, <2>2, <2>3, <2>6, <2>7, ScanKeepsInv
<1>. QED
  BY <1>1, <1>2, <1>3, <1>4, <1>5 DEF Begin

LEMMA StartMovesKeepInv ==
  ASSUME RespondentInv, NEW c \in Conns, StartLock(c) \/ StartFind(c)
  PROVE  RespondentInv'
<1>. TypeOK /\ Standing(c)
  BY DEF RespondentInv
<1>1. CASE EndRequest(c)
  BY <1>1, EndKeepsInv DEF StartLock, StartFind
<1>2. CASE /\ pc[c] = "startLock" /\ Free(c, row[c])
           /\ Usable(row[c]) /\ invStatus[row[c]] # "completed"
           /\ Goto(c, "find", row[c], {row[c]})
           /\ UNCHANGED tables
  <2>1. row[c] \in Invites
    BY <1>2 DEF Standing, Starting
  <2>2. pc'[c] = "find" /\ row'[c] = row[c] /\ locks'[c] = {row[c]}
    BY <1>2 DEF Goto, TypeOK
  <2>3. revoked' = revoked /\ invStatus' = invStatus
    BY <1>2 DEF tables, invites
  <2>4. Standing(c)'
    BY <1>2, <2>1, <2>2, <2>3 DEF Standing, Starting, Anonymizing, Usable
  <2>5. \A d \in Conns \ {c} : {row[c]} \cap locks[d] = {}
    BY <1>2 DEF Free
  <2>. QED
    BY <1>2, <2>1, <2>4, <2>5, GotoKeepsInv DEF Rows, Starting
<1>3. CASE /\ pc[c] = "find"
           /\ OpenResponses(row[c]) = {} /\ Goto(c, "insert", row[c], locks[c])
           /\ UNCHANGED tables
  <2>1. /\ row[c] \in Invites /\ locks[c] = {row[c]}
        /\ row[c] \notin revoked /\ invStatus[row[c]] # "completed"
    BY <1>3 DEF Standing, Starting
  <2>2. pc'[c] = "insert" /\ row'[c] = row[c] /\ locks'[c] = {row[c]}
    BY <1>3, <2>1 DEF Goto, TypeOK
  <2>3. OpenResponses(row[c])' = {} /\ revoked' = revoked /\ invStatus' = invStatus
    BY <1>3, <2>2 DEF tables, invites, responses, OpenResponses
  <2>4. Standing(c)'
    BY <2>1, <2>2, <2>3 DEF Standing, Starting, Anonymizing
  <2>5. \A d \in Conns \ {c} : locks[c] \cap locks[d] = {}
    BY DEF RespondentInv, LocksExclusive
  <2>6. locks[c] \in SUBSET Rows
    BY DEF TypeOK
  <2>. QED
    BY <1>3, <2>1, <2>4, <2>5, <2>6, GotoKeepsInv DEF Rows, Starting
<1>. QED
  BY <1>1, <1>2, <1>3 DEF StartLock, StartFind

LEMMA CompleteLockKeepsInv ==
  ASSUME RespondentInv, NEW c \in Conns, CompleteLock(c)
  PROVE  RespondentInv'
<1>. TypeOK /\ Standing(c)
  BY DEF RespondentInv
<1>1. CASE EndRequest(c)
  BY <1>1, EndKeepsInv DEF CompleteLock
<1>2. CASE /\ respStatus[row[c]] = "started"
           /\ Goto(c, "finalize", respInv[row[c]], {row[c]})
  <2>1. row[c] \in Responses /\ Free(c, row[c]) /\ UNCHANGED tables
    BY DEF CompleteLock, Standing
  <2>2. /\ pc'[c] = "finalize" /\ row'[c] = respInv[row[c]] /\ locks'[c] = {row[c]}
        /\ respStatus' = respStatus /\ respInv' = respInv
    BY <1>2, <2>1 DEF Goto, TypeOK, tables, responses
  <2>3. Standing(c)'
    BY <1>2, <2>1, <2>2 DEF Standing, Starting, Anonymizing
  <2>4. \A d \in Conns \ {c} : {row[c]} \cap locks[d] = {}
    BY <2>1 DEF Free
  <2>5. respInv[row[c]] \in Rows \cup {Link} /\ {row[c]} \in SUBSET Rows
    BY <2>1 DEF TypeOK, Channels, Rows
  <2>. QED
    BY <1>2, <2>1, <2>3, <2>4, <2>5, GotoKeepsInv DEF Completing
<1>. QED
  BY <1>1, <1>2 DEF CompleteLock

LEMMA AnonymizeMovesKeepInv ==
  ASSUME RespondentInv, NEW c \in Conns,
         AnonymizeInvite(c) \/ AnonymizeFind(c) \/ AnonymizeResponse(c)
  PROVE  RespondentInv'
<1>. TypeOK /\ Standing(c)
  BY DEF RespondentInv
<1>. /\ \A d \in Conns \ {c} : locks[c] \cap locks[d] = {}
     /\ todo[c] \in SUBSET Rows /\ locks[c] \in SUBSET Rows /\ Responses \subseteq Rows
     /\ {"anonInvites", "anonFind", "anonResponses", "anonCommit"} \subseteq Anonymizing
  BY DEF RespondentInv, LocksExclusive, TypeOK, Rows, Anonymizing
<1>. /\ UNCHANGED tables /\ who' = who
     /\ who' \in [Conns -> Panelists \cup {Nobody}]
     /\ \A d \in Conns \ {c} : who'[d] = who[d]
     /\ invOwner' = invOwner /\ respOwner' = respOwner
  BY DEF AnonymizeInvite, AnonymizeFind, AnonymizeResponse, TypeOK, tables, invites, responses
<1>1. CASE AnonymizeInvite(c)
  <2>. DEFINE rest == todo[c] \ {row[c]}
              held == locks[c] \cup {row[c]}
  <2>1. /\ pc[c] = "anonInvites" /\ row[c] \in todo[c] /\ todo[c] \subseteq Invites
        /\ who[c] \in Panelists /\ Free(c, row[c])
        /\ \A i \in Invites : invOwner[i] = who[c] => i \in locks[c] \cup todo[c]
        /\ Scan(c, "anonInvites", "anonFind", rest, held)
    BY <1>1 DEF AnonymizeInvite, Standing, Anonymizing
  <2>2. rest \in SUBSET Rows /\ held \in SUBSET Rows
    BY <2>1
  <2>3. /\ todo'[c] = rest /\ locks'[c] = held
        /\ \/ rest = {} /\ pc'[c] = "anonFind"
           \/ rest # {} /\ pc'[c] = "anonInvites" /\ row'[c] \in rest
    BY <2>1 DEF Scan, TypeOK
  <2>4. Standing(c)'
    BY <2>1, <2>3 DEF Standing, Starting, Anonymizing
  <2>5. \A d \in Conns \ {c} : held \cap locks[d] = {}
    BY <2>1 DEF Free
  <2>. QED
    BY <2>1, <2>2, <2>4, <2>5, ScanKeepsInv
<1>2. CASE AnonymizeFind(c)
  <2>. DEFINE rest == { r \in Responses : respOwner[r] = who[c] }
  <2>1. /\ pc[c] = "anonFind" /\ who[c] \in Panelists
        /\ \A i \in Invites : invOwner[i] = who[c] => i \in locks[c]
        /\ Scan(c, "anonResponses", "anonCommit", rest, locks[c])
    BY <1>2 DEF AnonymizeFind, Standing, Anonymizing
  <2>2. rest \in SUBSET Rows
    OBVIOUS
  <2>3. /\ todo'[c] = rest /\ locks'[c] = locks[c]
        /\ \/ rest = {} /\ pc'[c] = "anonCommit"
           \/ rest # {} /\ pc'[c] = "anonResponses" /\ row'[c] \in rest
    BY <2>1 DEF Scan, TypeOK
  <2>4. Standing(c)'
    BY <2>1, <2>3 DEF Standing, Starting, Anonymizing
  <2>. QED
    BY <2>1, <2>2, <2>4, ScanKeepsInv
<1>3. CASE AnonymizeResponse(c)
  <2>. DEFINE rest == todo[c] \ {row[c]}
              held == locks[c] \cup { r \in {row[c]} : respOwner[r] = who[c] }
  <2>1. /\ pc[c] = "anonResponses" /\ row[c] \in todo[c] /\ todo[c] \subseteq Responses
        /\ who[c] \in Panelists /\ Free(c, row[c])
        /\ \A i \in Invites : invOwner[i] = who[c] => i \in locks[c]
        /\ \A r \in Responses : respOwner[r] = who[c] => r \in locks[c] \cup todo[c]
        /\ Scan(c, "anonResponses", "anonCommit", rest, held)
    BY <1>3 DEF AnonymizeResponse, Standing, Anonymizing
  <2>2. rest \in SUBSET Rows /\ held \in SUBSET Rows
    BY <2>1
  <2>3. /\ todo'[c] = rest /\ locks'[c] = held
        /\ \/ rest = {} /\ pc'[c] = "anonCommit"
           \/ rest # {} /\ pc'[c] = "anonResponses" /\ row'[c] \in rest
    BY <2>1 DEF Scan, TypeOK
  <2>4. Standing(c)'
    BY <2>1, <2>3 DEF Standing, Starting, Anonymizing
  <2>5. \A d \in Conns \ {c} : held \cap locks[d] = {}
    BY <2>1 DEF Free
  <2>. QED
    BY <2>1, <2>2, <2>4, <2>5, ScanKeepsInv
<1>. QED
  BY <1>1, <1>2, <1>3

----------------------------------------------------------------------------
(* Each action keeps the invariant: the ones that commit.                  *)

LEMMA CommitStep ==
  ASSUME RespondentInv, NEW c \in Conns, EndRequest(c), TypeOK',
         \A d \in Conns \ {c} : Standing(d)',
         AnswersClose', OneOpenResponse', EffectsOnce',
         OneAnswerUnlessOverwritten', AnonymizedUnlinked'
  PROVE  RespondentInv'
<1>1. OthersStay(c) /\ Standing(c)' /\ locks'[c] = {}
  BY EndStands DEF RespondentInv
<1>2. \A d \in Conns : Standing(d)'
  BY <1>1
<1>3. LocksExclusive'
  BY <1>1 DEF RespondentInv, LocksExclusive, OthersStay
<1>. QED
  BY <1>2, <1>3 DEF RespondentInv

(***************************************************************************)
(* The late write of an open waits for the invitation, so it never changes *)
(* one under a start that has it locked.                                   *)
(***************************************************************************)
LEMMA OpenClickKeepsInv ==
  ASSUME RespondentInv, NEW c \in Conns, OpenClick(c)
  PROVE  RespondentInv'
<1>. TypeOK /\ Standing(c) /\ EndRequest(c)
  BY DEF RespondentInv, OpenClick
<1>1. PICK i \in Invites :
        /\ i = row[c] /\ Free(c, i)
        /\ invStatus' = [invStatus EXCEPT ![i] = "clicked"]
        /\ overwritten' = IF invStatus[i] = "completed"
                            THEN overwritten \cup {i} ELSE overwritten
        /\ UNCHANGED <<live, invOwner, revoked, responses, people>>
  BY DEF OpenClick, Standing
<1>2. TypeOK'
  BY <1>1, EndStands DEF TypeOK, responses, people, InvStatuses, Answerable
<1>3. ASSUME NEW d \in Conns \ {c} PROVE Standing(d)'
  <2>1. Standing(d) /\ i \notin locks[d]
    BY <1>1 DEF RespondentInv, Free
  <2>2. /\ pc'[d] = pc[d] /\ row'[d] = row[d] /\ locks'[d] = locks[d]
        /\ todo'[d] = todo[d] /\ who'[d] = who[d]
    BY EndStands DEF OthersStay
  <2>3. \A j \in Invites : j # i => invStatus'[j] = invStatus[j]
    BY <1>1 DEF TypeOK
  <2>. QED
    BY <1>1, <2>1, <2>2, <2>3 DEF Standing, responses, OpenResponses, Starting
<1>4. AnswersClose'
  BY <1>1 DEF RespondentInv, AnswersClose, TypeOK, responses
<1>5. /\ OneOpenResponse' /\ EffectsOnce'
      /\ OneAnswerUnlessOverwritten' /\ AnonymizedUnlinked'
  BY <1>1 DEF RespondentInv, OneOpenResponse, EffectsOnce, OneAnswerUnlessOverwritten,
              AnonymizedUnlinked, responses, people
<1>. QED
  BY <1>2, <1>3, <1>4, <1>5, CommitStep

(***************************************************************************)
(* A new response of an invitation: the lock its start holds keeps away    *)
(* every other start of it and every anonymization of its panelist.        *)
(***************************************************************************)
LEMMA StartInsertKeepsInv ==
  ASSUME RespondentInv, NEW c \in Conns, StartInsert(c)
  PROVE  RespondentInv'
<1>. TypeOK /\ Standing(c) /\ EndRequest(c)
  BY DEF RespondentInv, StartInsert
<1>1. CASE UNCHANGED <<responses, invStatus>>
  BY <1>1, EndKeepsInv DEF StartInsert, tables, invites
<1>2. CASE /\ InsertResponse(row[c], invOwner[row[c]])
           /\ invStatus' = [invStatus EXCEPT ![row[c]] = "started"]
  <2>1. PICK i \in Invites :
          /\ i = row[c] /\ locks[c] = {i} /\ i \notin revoked
          /\ invStatus[i] # "completed" /\ OpenResponses(i) = {}
    BY DEF StartInsert, Standing, Starting
  <2>2. PICK r \in Responses :
          /\ respStatus[r] = "none"
          /\ respStatus' = [respStatus EXCEPT ![r] = "started"]
          /\ respInv'    = [respInv EXCEPT ![r] = i]
          /\ respOwner'  = [respOwner EXCEPT ![r] = invOwner[i]]
          /\ effects' = effects
          /\ invStatus' = [invStatus EXCEPT ![i] = "started"]
    BY <1>2, <2>1 DEF InsertResponse, Unused
  <2>3. UNCHANGED <<live, invOwner, revoked, people, overwritten>>
    BY DEF StartInsert
  <2>4. TypeOK'
    BY <2>2, <2>3, EndStands DEF TypeOK, people, Channels, InvStatuses, Answerable
  <2>5. ASSUME NEW d \in Conns \ {c} PROVE Standing(d)'
    <3>1. Standing(d) /\ i \notin locks[d]
      BY <2>1 DEF RespondentInv, LocksExclusive
    <3>2. /\ pc'[d] = pc[d] /\ row'[d] = row[d] /\ locks'[d] = locks[d]
          /\ todo'[d] = todo[d] /\ who'[d] = who[d]
      BY EndStands DEF OthersStay
    <3>3. \A j \in Invites : j # i =>
            invStatus'[j] = invStatus[j] /\ (OpenResponses(j) = {} => OpenResponses(j)' = {})
      BY <2>2 DEF TypeOK, OpenResponses
    <3>4. pc[d] \in {"anonResponses", "anonCommit"} => respOwner'[r] # who[d]
      BY <2>2, <3>1 DEF Standing, Anonymizing, TypeOK
    <3>5. pc[d] = "finalize" => \E q \in Responses :
            locks'[d] = {q} /\ respStatus'[q] = "started" /\ row'[d] = respInv'[q]
      BY <2>2, <3>1, <3>2 DEF Standing, TypeOK
    <3>6. pc[d] = "insert" => OpenResponses(row[d])' = {}
      BY <3>1, <3>2, <3>3 DEF Standing, Starting, OpenResponses
    <3>7. \A q \in Responses : q # r => respOwner'[q] = respOwner[q]
      BY <2>2 DEF TypeOK
    <3>. QED
      BY <2>3, <3>1, <3>2, <3>3, <3>4, <3>5, <3>6, <3>7 DEF Standing, Starting, OpenResponses
  <2>6. AnswersClose'
    BY <2>1, <2>2, <2>3 DEF RespondentInv, AnswersClose, TypeOK, Final
  <2>7. OneOpenResponse'
    BY <2>1, <2>2 DEF RespondentInv, OneOpenResponse, OpenResponses, TypeOK
  <2>8. EffectsOnce'
    BY <2>2 DEF RespondentInv, EffectsOnce, TypeOK, Final
  <2>9. OneAnswerUnlessOverwritten'
    BY <2>1, <2>2, <2>3 DEF RespondentInv, OneAnswerUnlessOverwritten, AnswersClose,
                            TypeOK, Final
  <2>10. AnonymizedUnlinked'
    BY <2>2, <2>3 DEF RespondentInv, AnonymizedUnlinked, TypeOK, people
  <2>. QED
    BY <2>4, <2>5, <2>6, <2>7, <2>8, <2>9, <2>10, CommitStep
<1>. QED
  BY <1>1, <1>2 DEF StartInsert

LEMMA PublicInsertKeepsInv ==
  ASSUME RespondentInv, NEW c \in Conns, PublicInsert(c)
  PROVE  RespondentInv'
<1>. TypeOK /\ EndRequest(c) /\ Link \notin Invites /\ Nobody \notin Panelists
  BY RowsAssumption, NobodyAssumption DEF RespondentInv, PublicInsert
<1>1. CASE UNCHANGED responses
  BY <1>1, EndKeepsInv DEF PublicInsert, tables
<1>2. CASE InsertResponse(Link, Nobody)
  <2>1. PICK r \in Responses :
          /\ respStatus[r] = "none"
          /\ respStatus' = [respStatus EXCEPT ![r] = "started"]
          /\ respInv'    = [respInv EXCEPT ![r] = Link]
          /\ respOwner'  = [respOwner EXCEPT ![r] = Nobody]
          /\ effects' = effects
    BY <1>2 DEF InsertResponse, Unused
  <2>2. UNCHANGED <<live, invStatus, invOwner, revoked, people, overwritten>>
    BY DEF PublicInsert, invites
  <2>3. TypeOK'
    BY <2>1, <2>2, EndStands DEF TypeOK, people, Channels
  <2>4. ASSUME NEW d \in Conns \ {c} PROVE Standing(d)'
    <3>1. Standing(d)
      BY DEF RespondentInv
    <3>2. /\ pc'[d] = pc[d] /\ row'[d] = row[d] /\ locks'[d] = locks[d]
          /\ todo'[d] = todo[d] /\ who'[d] = who[d]
      BY EndStands DEF OthersStay
    <3>3. pc[d] = "insert" => OpenResponses(row[d])' = {}
      BY <2>1, <3>1, <3>2 DEF Standing, Starting, OpenResponses, TypeOK
    <3>4. pc[d] = "finalize" => \E q \in Responses :
            locks'[d] = {q} /\ respStatus'[q] = "started" /\ row'[d] = respInv'[q]
      BY <2>1, <3>1, <3>2 DEF Standing, TypeOK
    <3>5. /\ \A q \in Responses : q # r => respOwner'[q] = respOwner[q]
          /\ respOwner'[r] = Nobody
      BY <2>1 DEF TypeOK
    <3>. QED
      BY <2>2, <3>1, <3>2, <3>3, <3>4, <3>5 DEF Standing, Anonymizing
  <2>5. AnswersClose'
    BY <2>1, <2>2 DEF RespondentInv, AnswersClose, TypeOK, Final
  <2>6. OneOpenResponse' /\ OneAnswerUnlessOverwritten'
    BY <2>1, <2>2 DEF RespondentInv, OneOpenResponse, OneAnswerUnlessOverwritten, TypeOK, Final
  <2>7. EffectsOnce'
    BY <2>1 DEF RespondentInv, EffectsOnce, TypeOK, Final
  <2>8. AnonymizedUnlinked'
    BY <2>1, <2>2 DEF RespondentInv, AnonymizedUnlinked, TypeOK, people
  <2>. QED
    BY <2>3, <2>4, <2>5, <2>6, <2>7, <2>8, CommitStep
<1>. QED
  BY <1>1, <1>2 DEF PublicInsert

(***************************************************************************)
(* The commit of completeResponse: it holds the response since it read it  *)
(* 'started', and waits for the invitation.                                *)
(***************************************************************************)
LEMMA FinalizeKeepsInv ==
  ASSUME RespondentInv, NEW c \in Conns, Finalize(c)
  PROVE  RespondentInv'
<1>. TypeOK /\ Standing(c) /\ EndRequest(c) /\ Free(c, row[c])
  BY DEF RespondentInv, Finalize
<1>1. PICK r \in Responses :
        /\ locks[c] = {r} /\ respStatus[r] = "started" /\ row[c] = respInv[r]
  BY DEF Finalize, Standing
<1>2. PICK outcome \in Final :
        /\ respStatus' = [respStatus EXCEPT ![r] = outcome]
        /\ effects' = [effects EXCEPT ![r] = @ + 1]
        /\ \/ UNCHANGED tagged
           \/ respOwner[r] # Nobody /\ tagged' = tagged \cup {respOwner[r]}
  BY <1>1 DEF Finalize
<1>3. /\ invStatus' = [i \in Invites |->
                         IF i = respInv[r] THEN "completed" ELSE invStatus[i]]
      /\ UNCHANGED <<live, invOwner, revoked, respInv, respOwner, anonymized, overwritten>>
  BY <1>1 DEF Finalize
<1>4. effects[r] = 0 /\ effects'[r] = 1
  BY <1>1, <1>2 DEF RespondentInv, EffectsOnce, Final, TypeOK
<1>5. TypeOK'
  <2>1. effects' \in [Responses -> 0 .. 1]
    BY <1>2, <1>4 DEF TypeOK
  <2>2. tagged' \subseteq Panelists /\ respStatus' \in [Responses -> {"none", "started"} \cup Final]
    BY <1>2 DEF TypeOK
  <2>3. invStatus' \in [Invites -> InvStatuses]
    BY <1>3 DEF TypeOK, InvStatuses
  <2>. QED
    BY <1>3, <2>1, <2>2, <2>3, EndStands DEF TypeOK
<1>6. ASSUME NEW d \in Conns \ {c} PROVE Standing(d)'
  <2>1. Standing(d) /\ r \notin locks[d] /\ respInv[r] \notin locks[d]
    BY <1>1 DEF RespondentInv, LocksExclusive, Free
  <2>2. /\ pc'[d] = pc[d] /\ row'[d] = row[d] /\ locks'[d] = locks[d]
        /\ todo'[d] = todo[d] /\ who'[d] = who[d]
    BY EndStands DEF OthersStay
  <2>3. pc[d] \in {"find", "insert"} => invStatus'[row[d]] = invStatus[row[d]]
    BY <1>3, <2>1 DEF Standing, Starting
  <2>4. pc[d] = "insert" => OpenResponses(row[d])' = {}
    BY <1>2, <1>3, <2>1, <2>2 DEF Standing, OpenResponses, TypeOK, Final
  <2>5. pc[d] = "finalize" => \E q \in Responses :
          locks'[d] = {q} /\ respStatus'[q] = "started" /\ row'[d] = respInv'[q]
    BY <1>2, <1>3, <2>1, <2>2 DEF Standing, TypeOK
  <2>. QED
    BY <1>3, <2>1, <2>2, <2>3, <2>4, <2>5 DEF Standing
<1>7. AnswersClose'
  BY <1>1, <1>2, <1>3 DEF RespondentInv, AnswersClose, TypeOK
<1>8. OneOpenResponse'
  BY <1>1, <1>2, <1>3 DEF RespondentInv, OneOpenResponse, TypeOK, Final
<1>9. EffectsOnce'
  BY <1>1, <1>2, <1>4 DEF RespondentInv, EffectsOnce, TypeOK
<1>10. OneAnswerUnlessOverwritten'
  BY <1>1, <1>2, <1>3 DEF RespondentInv, OneAnswerUnlessOverwritten, OneOpenResponse,
                          TypeOK, Final
<1>11. AnonymizedUnlinked'
  BY <1>1, <1>2, <1>3 DEF RespondentInv, AnonymizedUnlinked, TypeOK
<1>. QED
  BY <1>5, <1>6, <1>7, <1>8, <1>9, <1>10, <1>11, CommitStep

(***************************************************************************)
(* The commit of anonymizePanelist: by then it holds every invitation and  *)
(* every response of the panelist.                                         *)
(***************************************************************************)
LEMMA AnonymizeCommitKeepsInv ==
  ASSUME RespondentInv, NEW c \in Conns, AnonymizeCommit(c)
  PROVE  RespondentInv'
<1>. TypeOK /\ Standing(c) /\ EndRequest(c) /\ Nobody \notin Panelists
  BY NobodyAssumption DEF RespondentInv, AnonymizeCommit
<1>1. /\ who[c] \in Panelists
      /\ \A i \in Invites : invOwner[i] = who[c] => i \in locks[c]
      /\ \A r \in Responses : respOwner[r] = who[c] => r \in locks[c]
  BY DEF AnonymizeCommit, Standing, Anonymizing
<1>2. /\ invOwner'  = [i \in Invites |-> IF i \in locks[c] THEN Nobody ELSE invOwner[i]]
      /\ invStatus' = [i \in Invites |->
                         IF i \in locks[c] THEN "unsubscribed" ELSE invStatus[i]]
      /\ revoked'   = revoked \cup (locks[c] \cap Invites)
      /\ respOwner' = [r \in Responses |-> IF r \in locks[c] THEN Nobody ELSE respOwner[r]]
      /\ tagged'     = tagged \ {who[c]}
      /\ anonymized' = anonymized \cup {who[c]}
      /\ UNCHANGED <<live, respStatus, respInv, effects, overwritten>>
  BY DEF AnonymizeCommit
<1>3. TypeOK'
  BY <1>1, <1>2, EndStands DEF TypeOK, InvStatuses
<1>4. ASSUME NEW d \in Conns \ {c} PROVE Standing(d)'
  <2>1. Standing(d) /\ locks[d] \cap locks[c] = {}
    BY DEF RespondentInv, LocksExclusive
  <2>2. /\ pc'[d] = pc[d] /\ row'[d] = row[d] /\ locks'[d] = locks[d]
        /\ todo'[d] = todo[d] /\ who'[d] = who[d]
    BY EndStands DEF OthersStay
  <2>3. pc[d] \in {"find", "insert"} =>
          row[d] \notin revoked' /\ invStatus'[row[d]] # "completed"
    BY <1>2, <2>1 DEF Standing, Starting
  <2>4. OpenResponses(row[d])' = OpenResponses(row[d])
    BY <1>2, <2>2 DEF OpenResponses
  <2>5. pc[d] \in Anonymizing => \A i \in Invites : invOwner'[i] = who[d] =>
          i \in locks[d] \/ (pc[d] = "anonInvites" /\ i \in todo[d])
    BY <1>2, <2>1 DEF Standing
  <2>6. pc[d] \in {"anonResponses", "anonCommit"} =>
          \A r \in Responses : respOwner'[r] = who[d] =>
            r \in locks[d] \/ (pc[d] = "anonResponses" /\ r \in todo[d])
    BY <1>2, <2>1 DEF Standing, Anonymizing
  <2>7. pc[d] = "finalize" => \E r \in Responses :
          locks'[d] = {r} /\ respStatus'[r] = "started" /\ row'[d] = respInv'[r]
    BY <1>2, <2>1, <2>2 DEF Standing
  <2>. QED
    BY <2>1, <2>2, <2>3, <2>4, <2>5, <2>6, <2>7 DEF Standing
<1>5. AnswersClose'
  BY <1>2 DEF RespondentInv, AnswersClose
<1>6. OneOpenResponse' /\ EffectsOnce' /\ OneAnswerUnlessOverwritten'
  BY <1>2 DEF RespondentInv, OneOpenResponse, EffectsOnce, OneAnswerUnlessOverwritten
<1>7. AnonymizedUnlinked'
  BY <1>1, <1>2 DEF RespondentInv, AnonymizedUnlinked, TypeOK
<1>. QED
  BY <1>3, <1>4, <1>5, <1>6, <1>7, CommitStep

----------------------------------------------------------------------------
(* The theorems.                                                           *)

LEMMA NextKeepsInv == RespondentInv /\ [Next]_vars => RespondentInv'
<1>. SUFFICES ASSUME RespondentInv, [Next]_vars PROVE RespondentInv'
  OBVIOUS
<1>1. CASE SetStudyStatus \/ UNCHANGED vars
  <2>1. /\ UNCHANGED <<invites, responses, people, request, overwritten>>
        /\ live' \in BOOLEAN
    BY <1>1 DEF SetStudyStatus, vars, RespondentInv, TypeOK
  <2>2. TypeOK'
    BY <2>1 DEF RespondentInv, TypeOK, invites, responses, people, request
  <2>3. LocksExclusive' /\ \A c \in Conns : Standing(c)'
    BY <2>1 DEF RespondentInv, LocksExclusive, Standing, OpenResponses,
                invites, responses, request
  <2>4. /\ AnswersClose' /\ OneOpenResponse' /\ EffectsOnce'
        /\ OneAnswerUnlessOverwritten' /\ AnonymizedUnlinked'
    BY <2>1 DEF RespondentInv, AnswersClose, OneOpenResponse, EffectsOnce,
                OneAnswerUnlessOverwritten, AnonymizedUnlinked, invites, responses, people
  <2>. QED
    BY <2>2, <2>3, <2>4 DEF RespondentInv
<1>2. ASSUME NEW c \in Conns, Abort(c) PROVE RespondentInv'
  BY <1>2, EndKeepsInv DEF Abort
<1>. QED
  BY <1>1, <1>2, BeginKeepsInv, StartMovesKeepInv, CompleteLockKeepsInv,
     AnonymizeMovesKeepInv, OpenClickKeepsInv, StartInsertKeepsInv, PublicInsertKeepsInv,
     FinalizeKeepsInv, AnonymizeCommitKeepsInv DEF Next, Step

(***************************************************************************)
(* The invariant holds, for any number of connections, invitations,        *)
(* responses and panelists.                                                *)
(***************************************************************************)
THEOREM InvCorrect == Spec => []RespondentInv
<1>1. Init => RespondentInv
  BY InvitedAsAssumption
     DEF Init, RespondentInv, TypeOK, LocksExclusive, Standing, AnswersClose,
         OneOpenResponse, EffectsOnce, OneAnswerUnlessOverwritten, AnonymizedUnlinked,
         InvStatuses, Answerable, Channels, Starting, Anonymizing, Final
<1>. QED
  BY <1>1, NextKeepsInv, PTL DEF Spec

(***************************************************************************)
(* Every variable keeps its type; in particular no completion writes its   *)
(* side effects twice.                                                     *)
(***************************************************************************)
THEOREM TypeCorrect == Spec => []TypeOK
<1>1. RespondentInv => TypeOK
  BY DEF RespondentInv
<1>. QED
  BY <1>1, InvCorrect, PTL

(***************************************************************************)
(* Starts never leave two open responses of one invitation (startResponse  *)
(* holds the row lock from its check to its insert).                       *)
(***************************************************************************)
THEOREM OneOpenCorrect == Spec => []OneOpenResponse
<1>1. RespondentInv => OneOpenResponse
  BY DEF RespondentInv
<1>. QED
  BY <1>1, InvCorrect, PTL

(***************************************************************************)
(* Concurrent completions of a response write its side effects once.       *)
(***************************************************************************)
THEOREM EffectsCorrect == Spec => []EffectsOnce
<1>1. RespondentInv => EffectsOnce
  BY DEF RespondentInv
<1>. QED
  BY <1>1, InvCorrect, PTL

(***************************************************************************)
(* The late write of getInvitationSurvey is the only way to a second       *)
(* answer of an invitation.                                                *)
(***************************************************************************)
THEOREM OneAnswerCorrect == Spec => []OneAnswerUnlessOverwritten
<1>1. RespondentInv => OneAnswerUnlessOverwritten
  BY DEF RespondentInv
<1>. QED
  BY <1>1, InvCorrect, PTL

(***************************************************************************)
(* Once anonymizePanelist has committed, no invitation, response or tag    *)
(* leads to the panelist, whatever starts and completions it met.          *)
(***************************************************************************)
THEOREM UnlinkedCorrect == Spec => []AnonymizedUnlinked
<1>1. RespondentInv => AnonymizedUnlinked
  BY DEF RespondentInv
<1>. QED
  BY <1>1, InvCorrect, PTL

LEMMA BeginLeavesTables ==
  ASSUME NEW c \in Conns,
         \/ Begin(c) \/ Abort(c)
         \/ StartLock(c) \/ StartFind(c) \/ CompleteLock(c)
         \/ AnonymizeInvite(c) \/ AnonymizeFind(c) \/ AnonymizeResponse(c)
  PROVE  UNCHANGED <<respStatus, respInv, respOwner>>
BY DEF Begin, OpenRead, StartRead, CompleteRead, AnonymizeRead, PublicRead, Abort, StartLock,
       StartFind, CompleteLock, AnonymizeInvite, AnonymizeFind, AnonymizeResponse,
       tables, responses

(***************************************************************************)
(* No step starts a response through a revoked token.                      *)
(***************************************************************************)
LEMMA RevokedStep ==
  ASSUME RespondentInv, [Next]_vars, NEW r \in Responses,
         respStatus[r] = "none", respStatus'[r] = "started"
  PROVE  respInv'[r] \notin revoked
<1>. TypeOK
  BY DEF RespondentInv
<1>1. ASSUME NEW c \in Conns, StartInsert(c) PROVE respInv'[r] \notin revoked
  <2>1. row[c] \notin revoked
    BY <1>1 DEF StartInsert, RespondentInv, Standing
  <2>2. respInv'[r] = row[c]
    BY <1>1 DEF StartInsert, InsertResponse, TypeOK, responses
  <2>. QED
    BY <2>1, <2>2
<1>2. ASSUME NEW c \in Conns, PublicInsert(c) PROVE respInv'[r] \notin revoked
  <2>1. respInv'[r] = Link
    BY <1>2 DEF PublicInsert, InsertResponse, TypeOK, responses
  <2>. QED
    BY <2>1, RowsAssumption DEF TypeOK
<1>3. ASSUME NEW c \in Conns, OpenClick(c) \/ AnonymizeCommit(c)
      PROVE  respStatus' = respStatus
  BY <1>3 DEF OpenClick, AnonymizeCommit, responses
<1>4. ASSUME NEW c \in Conns, Finalize(c) PROVE FALSE
  BY <1>4 DEF Finalize, TypeOK, Final
<1>5. CASE SetStudyStatus \/ UNCHANGED vars
  BY <1>5 DEF SetStudyStatus, vars, responses
<1>. QED
  BY <1>1, <1>2, <1>3, <1>4, <1>5, BeginLeavesTables DEF Next, Step

(***************************************************************************)
(* A replaced token starts nothing: the locking read sees the new one.     *)
(***************************************************************************)
THEOREM RevokedCorrect == Spec => RevokedStartsNothing
<1>1. RespondentInv /\ [Next]_vars =>
        [\A r \in Responses :
           respStatus[r] = "none" /\ respStatus'[r] = "started"
             => respInv'[r] \notin revoked]_vars
  BY RevokedStep
<1>. QED
  BY <1>1, InvCorrect, PTL DEF Spec, RevokedStartsNothing

(***************************************************************************)
(* No step changes a finalized response, but for unlinking its panelist.   *)
(***************************************************************************)
LEMMA FinalStep ==
  ASSUME RespondentInv, [Next]_vars, NEW r \in Responses, respStatus[r] \in Final
  PROVE  /\ respStatus'[r] = respStatus[r]
         /\ respInv'[r] = respInv[r]
         /\ respOwner'[r] \in {respOwner[r], Nobody}
<1>. TypeOK /\ respStatus[r] # "none" /\ respStatus[r] # "started"
  BY DEF RespondentInv, Final
<1>1. ASSUME NEW c \in Conns, StartInsert(c) \/ PublicInsert(c)
      PROVE  respStatus'[r] = respStatus[r] /\ respInv'[r] = respInv[r]
             /\ respOwner'[r] = respOwner[r]
  BY <1>1 DEF StartInsert, PublicInsert, InsertResponse, Unused, responses, TypeOK
<1>2. ASSUME NEW c \in Conns, OpenClick(c)
      PROVE  UNCHANGED <<respStatus, respInv, respOwner>>
  BY <1>2 DEF OpenClick, responses
<1>3. ASSUME NEW c \in Conns, AnonymizeCommit(c)
      PROVE  /\ UNCHANGED <<respStatus, respInv>>
             /\ respOwner'[r] \in {respOwner[r], Nobody}
  BY <1>3 DEF AnonymizeCommit, TypeOK
<1>4. ASSUME NEW c \in Conns, Finalize(c)
      PROVE  respStatus'[r] = respStatus[r] /\ UNCHANGED <<respInv, respOwner>>
  <2>1. PICK q \in Responses : locks[c] = {q} /\ respStatus[q] = "started"
    BY <1>4 DEF Finalize, RespondentInv, Standing
  <2>. QED
    BY <1>4, <2>1 DEF Finalize, TypeOK
<1>5. CASE SetStudyStatus \/ UNCHANGED vars
  BY <1>5 DEF SetStudyStatus, vars, responses
<1>. QED
  BY <1>1, <1>2, <1>3, <1>4, <1>5, BeginLeavesTables DEF Next, Step

(***************************************************************************)
(* A finalized response stays as it is.                                    *)
(***************************************************************************)
THEOREM FinalCorrect == Spec => FinalIsFinal
<1>1. RespondentInv /\ [Next]_vars =>
        [\A r \in Responses : respStatus[r] \in Final =>
           /\ respStatus'[r] = respStatus[r]
           /\ respInv'[r] = respInv[r]
           /\ respOwner'[r] \in {respOwner[r], Nobody}]_responses
  BY FinalStep
<1>. QED
  BY <1>1, InvCorrect, PTL DEF Spec, FinalIsFinal

=============================================================================
