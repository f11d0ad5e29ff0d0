---------------------------- MODULE Builder_proofs ----------------------------
(***************************************************************************)
(* The builders, for any number of pages, documents, edits, saves, uploads  *)
(* and Figma calls, in any order.                                           *)
(*                                                                          *)
(* What the legacy page says of its edits is true.  The argument is the     *)
(* revision: a save remembers the one it was taken at, every edit makes a   *)
(* larger one, so a reply that finds the same revision finds the same       *)
(* document.                                                                *)
(*                                                                          *)
(* Every document, open, sent or stored, stays sound: its codes differ in   *)
(* every two places, lists of images are within the limit and a Figma       *)
(* version is of the file it stands with.  Each edit is shown to keep that  *)
(* (by where the questions of the new document come from), then each late   *)
(* answer, and last the steps of the pages.                                 *)
(***************************************************************************)
EXTENDS Builder, WellFoundedInduction, FiniteSetTheorems, TLAPS

(* The shape of a page, and that the revision of a save is not ahead. *)
PageOK(page) ==
    /\ {"doc", "dirty", "shared", "revision", "save", "picker"} \subseteq DOMAIN page
    /\ page.revision \in Nat
    /\ page.save # NoSave =>
          /\ {"stage", "doc", "revision"} \subseteq DOMAIN page.save
          /\ page.save.revision \in Nat
          /\ page.save.revision <= page.revision

(* An unchanged revision means an unchanged document. *)
RevisionTells(page) ==
    /\ ~page.dirty => Content(page.doc) = Content(page.shared)
    /\ page.save # NoSave /\ page.save.revision = page.revision => page.save.doc = page.doc

PageInv(t, page) == PageOK(page) /\ (Editor[t] = "legacy" => RevisionTells(page))

PagesInv == /\ DOMAIN tab = Tabs
            /\ \A t \in Tabs : PageInv(t, tab[t])
-----------------------------------------------------------------------------
(* A freshly opened page shows what it holds as confirmed. *)
LEMMA OpenedOK == ASSUME NEW t, NEW doc PROVE PageInv(t, Opened(doc))
  BY DEF PageInv, PageOK, RevisionTells, Opened, NoSave, NoPicker

(* An edit makes the page dirty and its revision new. *)
LEMMA MutatedOK ==
  ASSUME NEW t, NEW page, NEW doc, PageInv(t, page) PROVE PageInv(t, Mutated(page, doc))
<1> DEFINE new == Mutated(page, doc)
<1>1. /\ DOMAIN new = DOMAIN page /\ new.dirty = TRUE /\ new.revision = page.revision + 1
      /\ new.save = page.save
  BY DEF Mutated, PageInv, PageOK
<1>2. page.revision \in Nat /\ (page.save # NoSave => page.save.revision \in Nat
                                   /\ page.save.revision <= page.revision)
  BY DEF PageInv, PageOK
<1> HIDE DEF new
<1>3. PageOK(new)
  BY <1>1, <1>2 DEF PageInv, PageOK
<1>4. RevisionTells(new)
  BY <1>1, <1>2 DEF RevisionTells
<1> QED BY <1>3, <1>4 DEF PageInv, new

(* What only touches the picker touches nothing of this. *)
LEMMA PickerOK ==
  ASSUME NEW t, NEW page, NEW new, PageInv(t, page), DOMAIN new = DOMAIN page,
         new.doc = page.doc, new.dirty = page.dirty, new.shared = page.shared,
         new.revision = page.revision, new.save = page.save
  PROVE PageInv(t, new)
  BY DEF PageInv, PageOK, RevisionTells

(* One page changes at a time. *)
LEMMA OnePage ==
  ASSUME PagesInv, NEW t \in Tabs, NEW page, PageInv(t, page),
         tab' = [tab EXCEPT ![t] = page]
  PROVE PagesInv'
<1>1. DOMAIN tab' = Tabs
  BY DEF PagesInv
<1>2. ASSUME NEW u \in Tabs PROVE PageInv(u, tab'[u])
  BY DEF PagesInv
<1>3. \A u \in Tabs : PageInv(u, tab[u])'
  BY <1>2 DEF PageInv, PageOK, RevisionTells, Content, NoSave
<1> QED BY <1>1, <1>3 DEF PagesInv

LEMMA NoPage == ASSUME PagesInv, tab' = tab PROVE PagesInv'
  BY DEF PagesInv, PageInv, PageOK, RevisionTells, Content, NoSave
-----------------------------------------------------------------------------
LEMMA InitPages == Init => PagesInv
  BY OpenedOK DEF Init, PagesInv

LEMMA ReloadPages == ASSUME PagesInv, NEW t \in Tabs, Reload(t) PROVE PagesInv'
  BY OnePage, OpenedOK DEF Reload

LEMMA EditPages == ASSUME PagesInv, NEW t \in Tabs, Edit(t) PROVE PagesInv'
<1>1. PICK doc : tab' = [tab EXCEPT ![t] = Mutated(tab[t], doc)]
  BY DEF Edit, PagesInv
<1>2. PageInv(t, Mutated(tab[t], doc))
  BY MutatedOK DEF PagesInv
<1> QED BY <1>1, <1>2, OnePage

(* The save takes the document and its revision together. *)
LEMMA SavePages == ASSUME PagesInv, NEW t \in Tabs, Save(t) PROVE PagesInv'
<1> DEFINE save == [stage |-> "sent", doc |-> tab[t].doc, revision |-> tab[t].revision]
           new == [tab[t] EXCEPT !.save = save]
<1>1. tab' = [tab EXCEPT ![t] = new] /\ PageInv(t, tab[t])
  BY DEF Save, PagesInv
<1>2. /\ DOMAIN new = DOMAIN tab[t] /\ new.doc = tab[t].doc /\ new.dirty = tab[t].dirty
      /\ new.revision = tab[t].revision /\ new.save = save /\ new.shared = tab[t].shared
      /\ tab[t].dirty
  BY <1>1 DEF PageInv, PageOK, Save
<1>3. /\ save.doc = tab[t].doc /\ save.revision = tab[t].revision
      /\ {"stage", "doc", "revision"} \subseteq DOMAIN save
  OBVIOUS
<1> HIDE DEF new, save
<1>4. PageOK(new)
  BY <1>1, <1>2, <1>3 DEF PageInv, PageOK
<1>5. RevisionTells(new)
  BY <1>2, <1>3 DEF RevisionTells
<1> QED BY <1>1, <1>4, <1>5, OnePage DEF PageInv

(* The server answers without touching document or revision. *)
LEMMA StagePages ==
  ASSUME PagesInv, NEW t \in Tabs, NEW stage, tab[t].save # NoSave,
         stage # "none", tab' = [tab EXCEPT ![t].save.stage = stage]
  PROVE PagesInv'
<1> DEFINE save == [tab[t].save EXCEPT !.stage = stage]
           new == [tab[t] EXCEPT !.save = save]
<1>1. tab' = [tab EXCEPT ![t] = new] /\ PageInv(t, tab[t])
  BY DEF PagesInv
<1>2. /\ DOMAIN new = DOMAIN tab[t] /\ new.doc = tab[t].doc /\ new.dirty = tab[t].dirty
      /\ new.revision = tab[t].revision /\ new.save = save /\ new.shared = tab[t].shared
  BY <1>1 DEF PageInv, PageOK
<1>3. /\ DOMAIN save = DOMAIN tab[t].save /\ save.doc = tab[t].save.doc
      /\ save.revision = tab[t].save.revision
  BY <1>1 DEF PageInv, PageOK
<1> HIDE DEF new, save
<1>4. PageOK(new)
  BY <1>1, <1>2, <1>3 DEF PageInv, PageOK
<1>5. Editor[t] = "legacy" => RevisionTells(new)
  BY <1>1, <1>2, <1>3 DEF PageInv, RevisionTells
<1> QED BY <1>1, <1>4, <1>5, OnePage DEF PageInv

LEMMA UpdateDraftPages == ASSUME PagesInv, NEW t \in Tabs, UpdateDraft(t) PROVE PagesInv'
<1>1. tab[t].save # NoSave
  BY DEF UpdateDraft, NoSave
<1>2. CASE tab' = [tab EXCEPT ![t].save.stage = "stored"]
  BY <1>1, <1>2, StagePages
<1>3. CASE tab' = [tab EXCEPT ![t].save.stage = "refused"]
  BY <1>1, <1>3, StagePages
<1> QED BY <1>2, <1>3 DEF UpdateDraft

(* A reply that finds the revision it left with finds that document. *)
LEMMA SaveReplyPages == ASSUME PagesInv, NEW t \in Tabs, SaveReply(t) PROVE PagesInv'
<1> DEFINE old == tab[t]
           new == Confirmed(t)
<1>1. tab' = [tab EXCEPT ![t] = new] /\ PageInv(t, old) /\ old.save # NoSave
  BY DEF SaveReply, PagesInv, NoSave
<1>2. /\ DOMAIN new = DOMAIN old /\ new.doc = old.doc /\ new.revision = old.revision
      /\ new.save = NoSave /\ new.shared = old.save.doc
      /\ new.dirty = (Editor[t] = "legacy" /\ old.save.revision # old.revision)
  BY <1>1 DEF Confirmed, PageInv, PageOK
<1> HIDE DEF new, old
<1>3. PageOK(new)
  BY <1>1, <1>2 DEF PageInv, PageOK
<1>4. Editor[t] = "legacy" => RevisionTells(new)
  BY <1>1, <1>2 DEF PageInv, RevisionTells
<1> QED BY <1>1, <1>3, <1>4, OnePage DEF PageInv

LEMMA SaveErrorPages == ASSUME PagesInv, NEW t \in Tabs, SaveError(t) PROVE PagesInv'
<1> DEFINE new == [tab[t] EXCEPT !.save = NoSave]
<1>1. tab' = [tab EXCEPT ![t] = new] /\ PageInv(t, tab[t])
  BY DEF SaveError, PagesInv
<1>2. /\ DOMAIN new = DOMAIN tab[t] /\ new.doc = tab[t].doc /\ new.dirty = tab[t].dirty
      /\ new.revision = tab[t].revision /\ new.save = NoSave /\ new.shared = tab[t].shared
  BY <1>1 DEF PageInv, PageOK
<1> HIDE DEF new
<1>3. PageInv(t, new)
  BY <1>1, <1>2 DEF PageInv, PageOK, RevisionTells
<1> QED BY <1>1, <1>3, OnePage

LEMMA PickerPages ==
  ASSUME PagesInv, NEW t \in Tabs, NEW picker, tab' = [tab EXCEPT ![t].picker = picker]
  PROVE PagesInv'
<1> DEFINE new == [tab[t] EXCEPT !.picker = picker]
<1>1. tab' = [tab EXCEPT ![t] = new] /\ PageInv(t, tab[t])
  BY DEF PagesInv
<1>2. /\ DOMAIN new = DOMAIN tab[t] /\ new.doc = tab[t].doc /\ new.dirty = tab[t].dirty
      /\ new.revision = tab[t].revision /\ new.save = tab[t].save
      /\ new.shared = tab[t].shared
  BY <1>1 DEF PageInv, PageOK
<1> HIDE DEF new
<1>3. PageInv(t, new)
  BY <1>1, <1>2, PickerOK
<1> QED BY <1>1, <1>3, OnePage

LEMMA PresentPages == ASSUME PagesInv, NEW t \in Tabs, Present(t) PROVE PagesInv'
<1>1. PICK frame : tab' = [tab EXCEPT ![t].picker.frame = frame]
  BY DEF Present
<1>2. tab' = [tab EXCEPT ![t].picker = [tab[t].picker EXCEPT !.frame = frame]]
  BY <1>1 DEF PagesInv
<1> QED BY <1>2, PickerPages

LEMMA SelectPages == ASSUME PagesInv, NEW t \in Tabs, SelectCurrentFrame(t) PROVE PagesInv'
<1>1. PICK doc : tab' = [tab EXCEPT ![t] = [Mutated(tab[t], doc) EXCEPT !.picker = NoPicker]]
  BY DEF SelectCurrentFrame, PagesInv
<1> DEFINE old == Mutated(tab[t], doc)
           new == [old EXCEPT !.picker = NoPicker]
<1>2. PageInv(t, old)
  BY MutatedOK DEF PagesInv
<1>3. /\ DOMAIN new = DOMAIN old /\ new.doc = old.doc /\ new.dirty = old.dirty
      /\ new.revision = old.revision /\ new.save = old.save /\ new.shared = old.shared
  BY <1>2 DEF PageInv, PageOK
<1>4. tab' = [tab EXCEPT ![t] = new]
  BY <1>1
<1> HIDE DEF new, old
<1>5. PageInv(t, new)
  BY <1>2, <1>3, PickerOK
<1> QED BY <1>4, <1>5, OnePage

(* An answer is one more edit of the page that asked. *)
LEMMA AnswerPages ==
  ASSUME PagesInv, NEW t, NEW doc, tab' = [tab EXCEPT ![t] = Mutated(tab[t], doc)]
  PROVE PagesInv'
<1>1. CASE t \in Tabs
  <2>1. PageInv(t, Mutated(tab[t], doc))
    BY <1>1, MutatedOK DEF PagesInv
  <2> QED BY <1>1, <2>1, OnePage
<1>2. CASE t \notin Tabs
  <2>1. DOMAIN tab' = Tabs /\ \A u \in Tabs : tab'[u] = tab[u]
    BY <1>2 DEF PagesInv
  <2>2. \A u \in Tabs : PageInv(u, tab[u])'
    BY <2>1 DEF PagesInv, PageInv, PageOK, RevisionTells, Content, NoSave
  <2> QED BY <2>1, <2>2 DEF PagesInv
<1> QED BY <1>1, <1>2
-----------------------------------------------------------------------------
LEMMA PageStep == ASSUME PagesInv, NEW t \in Tabs, Page(t) PROVE PagesInv'
<1>1. CASE Upload(t) \/ UploadScreenshot(t) \/ SyncFrames(t)
  BY <1>1, NoPage DEF Upload, UploadScreenshot, SyncFrames, Start
<1>2. CASE OpenPicker(t)
  <2>1. PICK picker : tab' = [tab EXCEPT ![t].picker = picker]
    BY <1>2 DEF OpenPicker
  <2> QED BY <2>1, PickerPages
<1>3. CASE ClosePicker(t)
  BY <1>3, PickerPages DEF ClosePicker
<1> QED BY <1>1, <1>2, <1>3, ReloadPages, EditPages, SavePages, UpdateDraftPages,
           SaveReplyPages, SaveErrorPages, PresentPages, SelectPages DEF Page

LEMMA JobStep ==
  ASSUME PagesInv, NEW j \in jobs, Uploaded(j) \/ Illustrated(j) \/ Synced(j) \/ Failed(j) PROVE PagesInv'
<1>1. CASE Uploaded(j)
  <2>1. PICK doc : tab' = [tab EXCEPT ![j.tab] = Mutated(tab[j.tab], doc)]
    BY <1>1 DEF Uploaded, Answer
  <2> QED BY <2>1, AnswerPages
<1>2. CASE Synced(j)
  <2>1. PICK doc : tab' = [tab EXCEPT ![j.tab] = Mutated(tab[j.tab], doc)]
    BY <1>2 DEF Synced, Answer
  <2> QED BY <2>1, AnswerPages
<1>3. CASE Illustrated(j)
  <2>1. PICK doc : tab' = [tab EXCEPT ![j.tab] = Mutated(tab[j.tab], doc)]
    BY <1>3 DEF Illustrated, Answer
  <2> QED BY <2>1, AnswerPages
<1>4. CASE Failed(j)
  BY <1>4, NoPage DEF Failed
<1> QED BY <1>1, <1>2, <1>3, <1>4

LEMMA NextPages == PagesInv /\ [Next]_vars => PagesInv'
<1> SUFFICES ASSUME PagesInv, [Next]_vars PROVE PagesInv'
  OBVIOUS
<1>1. CASE \E t \in Tabs : Page(t)
  BY <1>1, PageStep
<1>2. CASE \E j \in jobs : Uploaded(j) \/ Illustrated(j) \/ Synced(j) \/ Failed(j)
  BY <1>2, JobStep
<1>3. CASE SetStatus \/ UNCHANGED vars
  BY <1>3, NoPage DEF SetStatus, vars
<1> QED BY <1>1, <1>2, <1>3 DEF Next

(* The legacy builder's "Gemt" is true: a page that is not dirty shows what   *)
(* the server last confirmed to it (builder.tsx save, editRevision).          *)
THEOREM LegacySavedCorrect == Spec => []LegacySavedMeansSaved
<1>1. PagesInv => LegacySavedMeansSaved
  BY DEF PagesInv, PageInv, RevisionTells, LegacySavedMeansSaved
<1> QED BY <1>1, InitPages, NextPages, PTL DEF Spec
-----------------------------------------------------------------------------
(* Lists. *)
LEMMA Lists ==
  ASSUME NEW n \in Nat, NEW f, f = [k \in 1..n |-> f[k]]
  PROVE  IsList(f) /\ Len(f) = n /\ DOMAIN f = 1..n
<1>1. f \in Seq({f[k] : k \in 1..n})
  OBVIOUS
<1>2. Len(f) = n
  BY <1>1
<1> QED BY <1>2 DEF IsList

LEMMA ListDomain == ASSUME NEW s, IsList(s) PROVE Len(s) \in Nat /\ DOMAIN s = 1..Len(s)
  BY DEF IsList

LEMMA ListIsSeq == ASSUME NEW s, IsList(s) PROVE s \in Seq(ToSet(s))
  BY DEF IsList, ToSet

LEMMA SeqIsList == ASSUME NEW S, NEW s, s \in Seq(S) PROVE IsList(s)
<1>1. Len(s) \in Nat
  OBVIOUS
<1>2. s = [k \in 1..Len(s) |-> s[k]]
  OBVIOUS
<1> QED BY <1>1, <1>2 DEF IsList

LEMMA Joined ==
  ASSUME NEW s, NEW t, IsList(s), IsList(t)
  PROVE  /\ IsList(s \o t) /\ Len(s \o t) = Len(s) + Len(t)
         /\ \A k \in 1..Len(s) : (s \o t)[k] = s[k]
         /\ \A k \in 1..Len(t) : (s \o t)[Len(s) + k] = t[k]
<1>1. PICK S : S = ToSet(s) \cup ToSet(t)
  OBVIOUS
<1>2. s \in Seq(S) /\ t \in Seq(S)
  BY <1>1, ListIsSeq
<1>3. s \o t \in Seq(S) /\ Len(s \o t) = Len(s) + Len(t)
  BY <1>2
<1>4. /\ \A k \in 1..Len(s) : (s \o t)[k] = s[k]
      /\ \A k \in 1..Len(t) : (s \o t)[Len(s) + k] = t[k]
  BY <1>2
<1>5. IsList(s \o t)
  BY Zenon, <1>3, SeqIsList
<1> QED BY <1>3, <1>4, <1>5

LEMMA Appended ==
  ASSUME NEW s, IsList(s), NEW x
  PROVE  /\ IsList(Append(s, x)) /\ Len(Append(s, x)) = Len(s) + 1
         /\ \A k \in 1..Len(s) : Append(s, x)[k] = s[k]
         /\ Append(s, x)[Len(s) + 1] = x
<1>1. PICK S : S = ToSet(s) \cup {x}
  OBVIOUS
<1>2. s \in Seq(S) /\ x \in S
  BY <1>1, ListIsSeq
<1>3. Append(s, x) \in Seq(S) /\ Len(Append(s, x)) = Len(s) + 1
  BY <1>2
<1>4. /\ \A k \in 1..Len(s) : Append(s, x)[k] = s[k]
      /\ Append(s, x)[Len(s) + 1] = x
  BY <1>2
<1>5. IsList(Append(s, x))
  BY Zenon, <1>3, SeqIsList
<1> QED BY <1>3, <1>4, <1>5

LEMMA Taken ==
  ASSUME NEW s, IsList(s), NEW a \in 1..Len(s) + 1, NEW b \in 0..Len(s), a <= b + 1
  PROVE  /\ IsList(SubSeq(s, a, b)) /\ Len(SubSeq(s, a, b)) = b - a + 1
         /\ \A k \in 1..b - a + 1 : SubSeq(s, a, b)[k] = s[a + k - 1]
<1>1. Len(s) \in Nat /\ s \in Seq(ToSet(s))
  BY ListIsSeq DEF IsList
<1>2. SubSeq(s, a, b) = [k \in 1..b - a + 1 |-> s[a + k - 1]]
  BY <1>1
<1>3. b - a + 1 \in Nat
  BY <1>1
<1> QED BY <1>2, <1>3, Lists

LEMMA Removed ==
  ASSUME NEW s, IsList(s), NEW i \in DOMAIN s
  PROVE  /\ IsList(RemoveAt(s, i)) /\ Len(RemoveAt(s, i)) = Len(s) - 1
         /\ \A k \in 1..Len(s) - 1 : RemoveAt(s, i)[k] = s[IF k < i THEN k ELSE k + 1]
<1> DEFINE u == SubSeq(s, 1, i - 1)
           v == SubSeq(s, i + 1, Len(s))
<1>1. Len(s) \in Nat /\ i \in 1..Len(s)
  BY ListDomain
<1>2. IsList(u) /\ Len(u) = i - 1 /\ \A k \in 1..i - 1 : u[k] = s[k]
  <2>1. 1 \in 1..Len(s) + 1 /\ i - 1 \in 0..Len(s) /\ 1 <= (i - 1) + 1 /\ (i - 1) - 1 + 1 = i - 1
    BY <1>1
  <2> QED BY <1>1, <2>1, Taken
<1>3. IsList(v) /\ Len(v) = Len(s) - i /\ \A k \in 1..Len(s) - i : v[k] = s[i + k]
  <2>1. /\ i + 1 \in 1..Len(s) + 1 /\ Len(s) \in 0..Len(s) /\ i + 1 <= Len(s) + 1
        /\ Len(s) - (i + 1) + 1 = Len(s) - i
    BY <1>1
  <2>2. \A k \in 1..Len(s) - i : (i + 1) + k - 1 = i + k
    BY <1>1
  <2> QED BY <2>1, <2>2, Taken
<1> HIDE DEF u, v
<1>4. /\ IsList(u \o v) /\ Len(u \o v) = Len(s) - 1
      /\ \A k \in 1..i - 1 : (u \o v)[k] = u[k]
      /\ \A k \in 1..Len(s) - i : (u \o v)[(i - 1) + k] = v[k]
  <2>1. /\ IsList(u \o v) /\ Len(u \o v) = Len(u) + Len(v)
        /\ \A k \in 1..Len(u) : (u \o v)[k] = u[k]
        /\ \A k \in 1..Len(v) : (u \o v)[Len(u) + k] = v[k]
    <3>1. IsList(u) /\ IsList(v)
      BY <1>2, <1>3
    <3>2. PICK x, y : x = u /\ y = v
      OBVIOUS
    <3>3. /\ IsList(x \o y) /\ Len(x \o y) = Len(x) + Len(y)
          /\ \A k \in 1..Len(x) : (x \o y)[k] = x[k]
          /\ \A k \in 1..Len(y) : (x \o y)[Len(x) + k] = y[k]
      BY <3>1, <3>2, Joined
    <3> QED BY <3>2, <3>3
  <2>2. Len(u) = i - 1 /\ Len(v) = Len(s) - i /\ (i - 1) + (Len(s) - i) = Len(s) - 1
    BY <1>1, <1>2, <1>3
  <2> QED BY <2>1, <2>2
<1>5. ASSUME NEW k \in 1..Len(s) - 1 PROVE (u \o v)[k] = s[IF k < i THEN k ELSE k + 1]
  <2>1. CASE k < i
    BY <1>1, <1>2, <1>4, <2>1
  <2>2. CASE ~(k < i)
    <3>1. k - (i - 1) \in 1..Len(s) - i /\ (i - 1) + (k - (i - 1)) = k /\ i + (k - (i - 1)) = k + 1
      BY <1>1, <2>2
    <3>2. (u \o v)[(i - 1) + (k - (i - 1))] = v[k - (i - 1)]
      BY <1>4, <3>1
    <3>3. v[k - (i - 1)] = s[k + 1]
      BY <1>3, <3>1
    <3> QED BY <2>2, <3>1, <3>2, <3>3
  <2> QED BY <2>1, <2>2
<1> QED BY <1>4, <1>5 DEF RemoveAt, u, v
-----------------------------------------------------------------------------
(* Induction: a set of naturals that each bad number but 0 passes to its     *)
(* predecessor is empty or holds 0.                                          *)
LEMMA LeastOfBad ==
  ASSUME NEW S, S \subseteq Nat, S # {}
  PROVE  0 \in S \/ \E k \in Nat : k \notin S /\ k + 1 \in S
<1>1. \E m \in S : \A j \in S : ~ (<<j, m>> \in OpToRel(<, Nat))
  BY NatLessThanWellFounded, WFMin
<1>2. PICK m \in S : \A j \in S : ~ (<<j, m>> \in OpToRel(<, Nat))
  BY <1>1
<1>3. m \in Nat
  OBVIOUS
<1>4. CASE m # 0
  <2>1. m - 1 \in Nat /\ (m - 1) + 1 = m /\ m - 1 < m
    BY <1>3, <1>4
  <2>2. m - 1 \notin S
    BY <1>2, <1>3, <2>1 DEF OpToRel
  <2> QED BY <2>1, <2>2
<1> QED BY <1>4

(* Every recursive function of the module exists. *)
Flats(ss, n, f) == f = [i \in 1..n |-> IF i = 1 THEN ss[i] ELSE f[i - 1] \o ss[i]]

Glued(list, next) == list \o next

LEMMA FlatsOn ==
  ASSUME NEW ss, NEW n \in Nat \ {0}, NEW f, Flats(ss, n, f) PROVE \E g : Flats(ss, n + 1, g)
<1> DEFINE g == [k \in 1..n + 1 |-> IF k <= n THEN f[k] ELSE Glued(f[n], ss[n + 1])]
<1>1. ASSUME NEW k \in 1..n PROVE f[k] = IF k = 1 THEN ss[k] ELSE Glued(f[k - 1], ss[k])
  BY Zenon DEF Flats, Glued
<1>2. ASSUME NEW k \in 1..n + 1 PROVE g[k] = IF k = 1 THEN ss[k] ELSE Glued(g[k - 1], ss[k])
  <2>1. CASE k <= n
    <3>1. g[k] = f[k] /\ k \in 1..n /\ (k # 1 => g[k - 1] = f[k - 1])
      BY <2>1
    <3> HIDE DEF g
    <3> QED BY <1>1, <3>1
  <2>2. CASE ~(k <= n)
    <3>1. k = n + 1 /\ k - 1 = n /\ k # 1
      BY <2>2
    <3>2. g[k] = Glued(f[n], ss[n + 1]) /\ g[n] = f[n]
      BY <2>2, <3>1
    <3> HIDE DEF g
    <3> QED BY <3>1, <3>2
  <2> QED BY <2>1, <2>2
<1>3. g = [k \in 1..n + 1 |-> g[k]]
  OBVIOUS
<1> HIDE DEF g
<1>4. g = [k \in 1..n + 1 |-> IF k = 1 THEN ss[k] ELSE Glued(g[k - 1], ss[k])]
  BY Zenon, <1>2, <1>3
<1> QED BY Zenon, <1>4 DEF Flats, Glued

LEMMA FlatExists == ASSUME NEW ss, NEW n \in Nat PROVE \E f : Flats(ss, n + 1, f)
<1> DEFINE S == {k \in Nat : ~\E f : Flats(ss, k + 1, f)}
<1>1. 0 \notin S
  <2> DEFINE f == [k \in 1..0 + 1 |-> ss[k]]
  <2>1. f = [k \in 1..0 + 1 |-> IF k = 1 THEN ss[k] ELSE f[k - 1] \o ss[k]]
    OBVIOUS
  <2> HIDE DEF f
  <2>2. Flats(ss, 0 + 1, f)
    BY Zenon, <2>1 DEF Flats
  <2> QED BY <2>2
<1>2. ASSUME NEW k \in Nat, k \notin S PROVE k + 1 \notin S
  <2>1. PICK f : Flats(ss, k + 1, f)
    BY <1>2
  <2>2. k + 1 \in Nat \ {0}
    OBVIOUS
  <2>3. \E g : Flats(ss, (k + 1) + 1, g)
    BY Zenon, <2>1, <2>2, FlatsOn
  <2> QED BY <2>3
<1>3. S \subseteq Nat
  OBVIOUS
<1>4. S = {}
  <2> HIDE DEF S
  <2> QED BY <1>1, <1>2, <1>3, LeastOfBad
<1> QED BY <1>4

LEMMA FlattenIs ==
  ASSUME NEW ss, NEW n \in Nat \ {0}, n = Len(ss)
  PROVE  \E f : Flats(ss, n, f) /\ FlattenSeq(ss) = f[n]
<1>1. \E f : Flats(ss, n, f)
  <2>1. n - 1 \in Nat /\ (n - 1) + 1 = n
    OBVIOUS
  <2>2. \E f : Flats(ss, (n - 1) + 1, f)
    BY <2>1, FlatExists
  <2> QED BY <2>1, <2>2
<1> DEFINE w == CHOOSE f : f = [i \in 1..Len(ss) |-> IF i = 1 THEN ss[i] ELSE f[i - 1] \o ss[i]]
<1>2. w = [i \in 1..n |-> IF i = 1 THEN ss[i] ELSE w[i - 1] \o ss[i]]
  BY Zenon, <1>1 DEF Flats
<1>3. FlattenSeq(ss) = w[Len(ss)]
  <2>1. ~(Len(ss) = 0)
    OBVIOUS
  <2> QED BY Zenon, <2>1 DEF FlattenSeq
<1> HIDE DEF w
<1>4. Flats(ss, n, w)
  BY Zenon, <1>2 DEF Flats
<1> QED BY <1>3, <1>4

Keeps(questions, code, m, f) ==
  f = [n \in 0..m |-> IF n = 0 THEN <<>> ELSE IF questions[n].code = code THEN f[n - 1]
                                              ELSE Append(f[n - 1], questions[n])]
Keep(questions, code, list, n) ==
  IF questions[n].code = code THEN list ELSE Append(list, questions[n])

LEMMA KeepsOn ==
  ASSUME NEW qs, NEW c, NEW n \in Nat, NEW f, Keeps(qs, c, n, f) PROVE \E g : Keeps(qs, c, n + 1, g)
<1> DEFINE g == [k \in 0..n + 1 |-> IF k <= n THEN f[k] ELSE Keep(qs, c, f[n], n + 1)]
<1>1. ASSUME NEW k \in 0..n PROVE f[k] = IF k = 0 THEN <<>> ELSE Keep(qs, c, f[k - 1], k)
  BY Zenon DEF Keeps, Keep
<1>2. ASSUME NEW k \in 0..n + 1 PROVE g[k] = IF k = 0 THEN <<>> ELSE Keep(qs, c, g[k - 1], k)
  <2>1. CASE k <= n
    <3>1. g[k] = f[k] /\ k \in 0..n /\ (k # 0 => g[k - 1] = f[k - 1])
      BY <2>1
    <3> HIDE DEF g
    <3> QED BY <1>1, <3>1
  <2>2. CASE ~(k <= n)
    <3>1. k = n + 1 /\ k - 1 = n /\ k # 0
      BY <2>2
    <3>2. g[k] = Keep(qs, c, f[n], n + 1) /\ g[n] = f[n]
      BY <2>2, <3>1
    <3> HIDE DEF g
    <3> QED BY <3>1, <3>2
  <2> QED BY <2>1, <2>2
<1>3. g = [k \in 0..n + 1 |-> g[k]]
  OBVIOUS
<1> HIDE DEF g
<1>4. g = [k \in 0..n + 1 |-> IF k = 0 THEN <<>> ELSE Keep(qs, c, g[k - 1], k)]
  BY Zenon, <1>2, <1>3
<1> QED BY Zenon, <1>4 DEF Keeps, Keep

LEMMA KeepExists == ASSUME NEW qs, NEW c, NEW n \in Nat PROVE \E f : Keeps(qs, c, n, f)
<1> DEFINE S == {k \in Nat : ~\E f : Keeps(qs, c, k, f)}
<1>1. 0 \notin S
  <2> DEFINE f == [k \in 0..0 |-> <<>>]
  <2>1. f = [k \in 0..0 |-> IF k = 0 THEN <<>> ELSE Keep(qs, c, f[k - 1], k)]
    OBVIOUS
  <2> HIDE DEF f
  <2>2. Keeps(qs, c, 0, f)
    BY Zenon, <2>1 DEF Keeps, Keep
  <2> QED BY <2>2
<1>2. \A k \in Nat : k \notin S => k + 1 \notin S
  BY KeepsOn
<1>3. S \subseteq Nat
  OBVIOUS
<1>4. S = {}
  <2> HIDE DEF S
  <2> QED BY <1>1, <1>2, <1>3, LeastOfBad
<1> QED BY <1>4

(* The filter of a list, question by question.                               *)
Filters(qs, c, n, f) ==
  /\ f[0] = <<>> /\ Filter(qs, c) = f[n]
  /\ \A k \in 1..n : f[k] = Keep(qs, c, f[k - 1], k)

LEMMA FilterIs ==
  ASSUME NEW qs, NEW c, NEW n \in Nat, n = Len(qs)
  PROVE  \E f : Filters(qs, c, n, f)
<1>1. \E f : Keeps(qs, c, n, f)
  BY KeepExists
<1> DEFINE w == CHOOSE f : f = [k \in 0..Len(qs) |->
                   IF k = 0 THEN <<>> ELSE IF qs[k].code = c THEN f[k - 1] ELSE Append(f[k - 1], qs[k])]
<1>2. w = [k \in 0..n |->
             IF k = 0 THEN <<>> ELSE IF qs[k].code = c THEN w[k - 1] ELSE Append(w[k - 1], qs[k])]
  BY Zenon, <1>1 DEF Keeps
<1>3. Filter(qs, c) = w[n]
  BY Zenon DEF Filter
<1> HIDE DEF w
<1>4. \A k \in 0..n : w[k] = IF k = 0 THEN <<>> ELSE Keep(qs, c, w[k - 1], k)
  BY Zenon, <1>2 DEF Keep
<1>5. w[0] = <<>>
  BY <1>4
<1>6. \A k \in 1..n : w[k] = Keep(qs, c, w[k - 1], k)
  BY <1>4
<1> QED BY <1>3, <1>5, <1>6 DEF Filters
-----------------------------------------------------------------------------
(* Where the questions of a document are in the list of all of them.         *)
At(ss, m, n, all, p) ==
  \A k \in 1..n : /\ p[k] = <<p[k][1], p[k][2]>>
                  /\ p[k][1] \in 1..m /\ p[k][2] \in DOMAIN ss[p[k][1]]
                  /\ all[k] = ss[p[k][1]][p[k][2]]
Once(n, p) == \A k, l \in 1..n : p[k] = p[l] => k = l
Reached(ss, m, n, p) == \A b \in 1..m : \A i \in DOMAIN ss[b] : \E k \in 1..n : p[k] = <<b, i>>

Match(ss, m, n, all, p) ==
  /\ IsList(all) /\ IsList(p) /\ Len(p) = n /\ Len(all) = n
  /\ At(ss, m, n, all, p) /\ Once(n, p) /\ Reached(ss, m, n, p)

Row(s, b, r) == r = [i \in DOMAIN s |-> <<b, i>>]

LEMMA RowOK ==
  ASSUME NEW s, IsList(s), NEW b, NEW r, Row(s, b, r)
  PROVE  IsList(r) /\ Len(r) = Len(s) /\ \A i \in 1..Len(s) : r[i] = <<b, i>>
<1>1. Len(s) \in Nat /\ DOMAIN s = 1..Len(s)
  BY ListDomain
<1>2. r = [i \in 1..Len(s) |-> r[i]] /\ \A i \in 1..Len(s) : r[i] = <<b, i>>
  BY <1>1 DEF Row
<1> QED BY <1>1, <1>2, Lists

LEMMA FirstMatch ==
  ASSUME NEW ss, IsList(ss[1]), NEW p, Row(ss[1], 1, p)
  PROVE  Match(ss, 1, Len(ss[1]), ss[1], p)
<1>1. PICK s : s = ss[1]
  OBVIOUS
<1>2. PICK n \in Nat : n = Len(s) /\ DOMAIN s = 1..n
  BY <1>1, ListDomain
<1>3. IsList(p) /\ Len(p) = n /\ \A i \in 1..n : p[i] = <<1, i>>
  BY <1>1, <1>2, RowOK
<1>4. \A k \in 1..n : p[k][1] = 1 /\ p[k][2] = k
  BY <1>3
<1>5. At(ss, 1, n, s, p)
  BY <1>1, <1>2, <1>3, <1>4 DEF At
<1>6. Once(n, p)
  BY <1>4 DEF Once
<1>7. Reached(ss, 1, n, p)
  BY <1>1, <1>2, <1>3 DEF Reached
<1> QED BY <1>1, <1>2, <1>3, <1>5, <1>6, <1>7 DEF Match

LEMMA MatchOn ==
  ASSUME NEW ss, NEW m \in Nat \ {0}, NEW n \in Nat, NEW all, NEW p, Match(ss, m, n, all, p),
         IsList(ss[m + 1]), NEW r, Row(ss[m + 1], m + 1, r)
  PROVE  Match(ss, m + 1, n + Len(ss[m + 1]), all \o ss[m + 1], p \o r)
<1>1. PICK s : s = ss[m + 1]
  OBVIOUS
<1>2. PICK len \in Nat : len = Len(s) /\ DOMAIN s = 1..len
  BY <1>1, ListDomain
<1>3. IsList(r) /\ Len(r) = len /\ \A i \in 1..len : r[i] = <<m + 1, i>>
  BY <1>1, <1>2, RowOK
<1>4. PICK u : u = all \o s
  OBVIOUS
<1>5. PICK v : v = p \o r
  OBVIOUS
<1>7. /\ IsList(u) /\ Len(u) = n + len
      /\ \A k \in 1..n : u[k] = all[k]
      /\ \A k \in 1..len : u[n + k] = s[k]
  <2>1. IsList(all) /\ IsList(s) /\ Len(all) = n
    BY <1>1 DEF Match
  <2>2. /\ IsList(all \o s) /\ Len(all \o s) = Len(all) + Len(s)
        /\ \A k \in 1..Len(all) : (all \o s)[k] = all[k]
        /\ \A k \in 1..Len(s) : (all \o s)[Len(all) + k] = s[k]
    BY <2>1, Joined
  <2> QED BY <1>2, <1>4, <2>1, <2>2
<1>8. /\ IsList(v) /\ Len(v) = n + len
      /\ \A k \in 1..n : v[k] = p[k]
      /\ \A k \in 1..len : v[n + k] = <<m + 1, k>>
  <2>1. IsList(p) /\ Len(p) = n
    BY DEF Match
  <2>2. /\ IsList(p \o r) /\ Len(p \o r) = Len(p) + Len(r)
        /\ \A k \in 1..Len(p) : (p \o r)[k] = p[k]
        /\ \A k \in 1..Len(r) : (p \o r)[Len(p) + k] = r[k]
    BY <1>3, <2>1, Joined
  <2> QED BY <1>3, <1>5, <2>1, <2>2
<1>9. At(ss, m, n, all, p) /\ Once(n, p) /\ Reached(ss, m, n, p)
  BY DEF Match
<1>10. \A k \in 1..n + len : k \in 1..n \/ (k - n \in 1..len /\ n + (k - n) = k /\ k \notin 1..n)
  OBVIOUS
<1>11. ASSUME NEW k \in 1..n + len
       PROVE  /\ v[k] = <<v[k][1], v[k][2]>>
              /\ v[k][1] \in 1..m + 1 /\ v[k][2] \in DOMAIN ss[v[k][1]]
              /\ u[k] = ss[v[k][1]][v[k][2]]
  <2>1. CASE k \in 1..n
    BY <1>7, <1>8, <1>9, <2>1 DEF At
  <2>2. CASE k \notin 1..n
    <3>1. PICK j \in 1..len : n + j = k
      BY <1>10, <2>2
    <3>2. v[k] = <<m + 1, j>> /\ u[k] = s[j]
      BY <1>7, <1>8, <3>1
    <3>3. v[k][1] = m + 1 /\ v[k][2] = j /\ m + 1 \in 1..m + 1
      BY <3>2
    <3> QED BY <1>1, <1>2, <3>1, <3>2, <3>3
  <2> QED BY <2>1, <2>2
<1>12. ASSUME NEW k \in 1..n + len, NEW l \in 1..n + len, v[k] = v[l] PROVE k = l
  <2>1. ASSUME NEW x \in 1..n + len, x \notin 1..n PROVE v[x] = <<m + 1, x - n>>
    <3>1. x - n \in 1..len /\ n + (x - n) = x
      BY <1>10, <2>1
    <3> QED BY <1>8, <3>1
  <2>2. ASSUME NEW x \in 1..n PROVE v[x] = p[x] /\ v[x][1] \in 1..m
    BY <1>8, <1>9, <2>2 DEF At
  <2>3. m + 1 \notin 1..m
    OBVIOUS
  <2>4. CASE k \in 1..n /\ l \in 1..n
    BY <1>9, <1>12, <2>2, <2>4 DEF Once
  <2>5. CASE k \notin 1..n /\ l \notin 1..n
    <3>1. <<m + 1, k - n>> = <<m + 1, l - n>>
      BY <1>12, <2>1, <2>5
    <3>2. k - n = l - n
      BY <3>1
    <3> QED BY <3>2
  <2>6. CASE k \in 1..n /\ l \notin 1..n
    BY <1>12, <2>1, <2>2, <2>3, <2>6
  <2>7. CASE k \notin 1..n /\ l \in 1..n
    BY <1>12, <2>1, <2>2, <2>3, <2>7
  <2> QED BY <2>4, <2>5, <2>6, <2>7
<1>13. ASSUME NEW b \in 1..m + 1, NEW i \in DOMAIN ss[b] PROVE \E k \in 1..n + len : v[k] = <<b, i>>
  <2>1. CASE b \in 1..m
    <3>1. PICK k \in 1..n : p[k] = <<b, i>>
      BY <1>9, <2>1 DEF Reached
    <3>2. k \in 1..n + len
      OBVIOUS
    <3> QED BY <1>8, <3>1, <3>2
  <2>2. CASE b \notin 1..m
    <3>1. b = m + 1 /\ i \in 1..len
      BY <1>1, <1>2, <2>2
    <3>2. n + i \in 1..n + len
      BY <3>1
    <3> QED BY <1>8, <3>1, <3>2
  <2> QED BY <2>1, <2>2
<1>14. At(ss, m + 1, n + len, u, v)
  BY <1>11 DEF At
<1>15. Once(n + len, v)
  BY <1>12 DEF Once
<1>16. Reached(ss, m + 1, n + len, v)
  BY <1>13 DEF Reached
<1>17. Match(ss, m + 1, n + len, u, v)
  BY Zenon, <1>7, <1>8, <1>14, <1>15, <1>16 DEF Match
<1> QED BY Zenon, <1>1, <1>2, <1>4, <1>5, <1>17
-----------------------------------------------------------------------------
LEMMA MatchAll ==
  ASSUME NEW ss, NEW rows, NEW n \in Nat \ {0},
         \A b \in 1..n : IsList(ss[b]) /\ Row(ss[b], b, rows[b]),
         NEW f, Flats(ss, n, f), NEW g, Flats(rows, n, g)
  PROVE  \E len \in Nat : Match(ss, n, len, f[n], g[n])
<1>1. /\ \A k \in 1..n : f[k] = IF k = 1 THEN ss[k] ELSE Glued(f[k - 1], ss[k])
      /\ \A k \in 1..n : g[k] = IF k = 1 THEN rows[k] ELSE Glued(g[k - 1], rows[k])
  BY Zenon DEF Flats, Glued
<1> DEFINE S == {k \in Nat : k + 1 \in 1..n /\ ~\E len \in Nat : Match(ss, k + 1, len, f[k + 1], g[k + 1])}
<1>2. 0 \notin S
  <2>1. 1 \in 1..n
    OBVIOUS
  <2>2. f[1] = ss[1] /\ g[1] = rows[1] /\ IsList(ss[1]) /\ Row(ss[1], 1, rows[1])
    BY <1>1, <2>1
  <2>3. Match(ss, 1, Len(ss[1]), f[1], g[1])
    BY <2>2, FirstMatch
  <2>4. Len(ss[1]) \in Nat
    BY <2>2, ListDomain
  <2>5. 0 + 1 = 1
    OBVIOUS
  <2> QED BY <2>3, <2>4, <2>5
<1>3. ASSUME NEW k \in Nat, k \notin S PROVE k + 1 \notin S
  <2> SUFFICES ASSUME (k + 1) + 1 \in 1..n
               PROVE  \E len \in Nat : Match(ss, (k + 1) + 1, len, f[(k + 1) + 1], g[(k + 1) + 1])
    OBVIOUS
  <2>1. PICK m \in Nat \ {0} : m = k + 1
    OBVIOUS
  <2>2. m \in 1..n /\ m + 1 \in 1..n /\ m + 1 # 1 /\ (m + 1) - 1 = m
    BY <2>1
  <2>3. PICK len \in Nat : Match(ss, m, len, f[m], g[m])
    BY <1>3, <2>1, <2>2
  <2>4. f[m + 1] = Glued(f[m], ss[m + 1]) /\ g[m + 1] = Glued(g[m], rows[m + 1])
    BY <1>1, <2>2
  <2>5. IsList(ss[m + 1]) /\ Row(ss[m + 1], m + 1, rows[m + 1])
    BY <2>2
  <2>6. Match(ss, m + 1, len + Len(ss[m + 1]), f[m] \o ss[m + 1], g[m] \o rows[m + 1])
    BY <2>3, <2>5, MatchOn
  <2>7. Match(ss, m + 1, len + Len(ss[m + 1]), f[m + 1], g[m + 1])
    BY Zenon, <2>4, <2>6 DEF Glued
  <2>8. len + Len(ss[m + 1]) \in Nat
    <3>1. Len(ss[m + 1]) \in Nat
      BY <2>5, ListDomain
    <3> QED BY <3>1
  <2> QED BY <2>1, <2>7, <2>8
<1>4. S = {}
  <2>1. S \subseteq Nat
    OBVIOUS
  <2> HIDE DEF S
  <2> QED BY <1>2, <1>3, <2>1, LeastOfBad
<1>5. n - 1 \in Nat /\ (n - 1) + 1 = n
  OBVIOUS
<1>6. n - 1 \notin S
  BY <1>4
<1> QED BY <1>5, <1>6

LEMMA NotEmpty == ASSUME NEW s, IsList(s), s # <<>> PROVE Len(s) \in Nat \ {0}
<1>1. s \in Seq(ToSet(s))
  BY ListIsSeq
<1> QED BY <1>1

(* The place of each question of a document in the list of all.              *)
LaidOut(doc, n, all, p) ==
  /\ IsList(all) /\ IsList(p) /\ Len(p) = n /\ Len(all) = n
  /\ \A k \in 1..n :
        /\ p[k] = <<p[k][1], p[k][2]>>
        /\ p[k][1] \in DOMAIN doc.blocks /\ p[k][2] \in DOMAIN doc.blocks[p[k][1]].questions
        /\ all[k] = doc.blocks[p[k][1]].questions[p[k][2]]
  /\ Once(n, p)
  /\ \A b \in DOMAIN doc.blocks : \A i \in DOMAIN doc.blocks[b].questions :
        \E k \in 1..n : p[k] = <<b, i>>

LEMMA Layout ==
  ASSUME NEW doc, IsDocument(doc)
  PROVE  \E n \in Nat : LaidOut(doc, n, Questions(doc), Places(doc))
<1> DEFINE D == DOMAIN doc.blocks
           ss == [b \in D |-> doc.blocks[b].questions]
           rows == [b \in D |-> [q \in DOMAIN doc.blocks[b].questions |-> <<b, q>>]]
<1>1. PICK n \in Nat \ {0} : n = Len(doc.blocks)
  BY NotEmpty DEF IsDocument
<1>2. D = 1..n
  BY <1>1, ListDomain DEF IsDocument
<1>3. \A b \in 1..n : ss[b] = doc.blocks[b].questions /\ IsList(ss[b])
  BY <1>2 DEF IsDocument
<1>4. \A b \in 1..n : Row(ss[b], b, rows[b])
  BY <1>2 DEF Row
<1>5. Len(ss) = n /\ Len(rows) = n
  <2>1. ss = [b \in 1..n |-> ss[b]] /\ rows = [b \in 1..n |-> rows[b]]
    BY <1>2
  <2> HIDE DEF ss, rows
  <2> QED BY <2>1, Lists
<1>6. Questions(doc) = FlattenSeq(ss) /\ Places(doc) = FlattenSeq(rows)
  BY Zenon DEF Questions, Places
<1> HIDE DEF ss, rows
<1>7. PICK f : Flats(ss, n, f) /\ FlattenSeq(ss) = f[n]
  BY <1>5, FlattenIs
<1>8. PICK g : Flats(rows, n, g) /\ FlattenSeq(rows) = g[n]
  BY <1>5, FlattenIs
<1>9. PICK len \in Nat : Match(ss, n, len, f[n], g[n])
  BY <1>3, <1>4, <1>7, <1>8, MatchAll
<1>10. Match(ss, n, len, Questions(doc), Places(doc))
  BY Zenon, <1>6, <1>7, <1>8, <1>9
<1>11. PICK all, p : all = Questions(doc) /\ p = Places(doc)
  OBVIOUS
<1>12. /\ IsList(all) /\ IsList(p) /\ Len(p) = len /\ Len(all) = len
       /\ At(ss, n, len, all, p) /\ Once(len, p) /\ Reached(ss, n, len, p)
  BY Zenon, <1>10, <1>11 DEF Match
<1>13. \A k \in 1..len :
         /\ p[k] = <<p[k][1], p[k][2]>>
         /\ p[k][1] \in DOMAIN doc.blocks /\ p[k][2] \in DOMAIN doc.blocks[p[k][1]].questions
         /\ all[k] = doc.blocks[p[k][1]].questions[p[k][2]]
  BY <1>2, <1>3, <1>12 DEF At
<1>14. \A b \in D : \A i \in DOMAIN doc.blocks[b].questions : \E k \in 1..len : p[k] = <<b, i>>
  BY <1>2, <1>3, <1>12 DEF Reached
<1>15. LaidOut(doc, len, all, p)
  BY Zenon, <1>12, <1>13, <1>14 DEF LaidOut
<1> QED BY <1>11, <1>15

LEMMA AskedIs ==
  ASSUME NEW doc, NEW q
  PROVE  q \in Asked(doc) <=> \E b \in DOMAIN doc.blocks : \E i \in DOMAIN doc.blocks[b].questions :
                                 q = doc.blocks[b].questions[i]
BY DEF Asked, ToSet

(* The list of all questions has those of the blocks.                        *)
LEMMA AllAsked ==
  ASSUME NEW doc, IsDocument(doc)
  PROVE  /\ IsList(Questions(doc))
         /\ \A k \in DOMAIN Questions(doc) : Questions(doc)[k] \in Asked(doc)
         /\ Codes(Questions(doc)) = {q.code : q \in Asked(doc)}
<1>1. PICK n \in Nat : LaidOut(doc, n, Questions(doc), Places(doc))
  BY Layout
<1>2. PICK all, p : all = Questions(doc) /\ p = Places(doc)
  OBVIOUS
<1>3. LaidOut(doc, n, all, p)
  BY Zenon, <1>1, <1>2
<1>4. DOMAIN all = 1..n
  BY <1>3, ListDomain DEF LaidOut
<1>5. \A k \in 1..n : all[k] \in Asked(doc)
  BY <1>3, AskedIs DEF LaidOut
<1>6. ASSUME NEW q \in Asked(doc) PROVE \E k \in 1..n : all[k] = q
  <2>0. PICK b \in DOMAIN doc.blocks : \E i \in DOMAIN doc.blocks[b].questions :
               q = doc.blocks[b].questions[i]
    BY AskedIs
  <2>1. PICK i \in DOMAIN doc.blocks[b].questions : q = doc.blocks[b].questions[i]
    BY <2>0
  <2>2. PICK k \in 1..n : p[k] = <<b, i>>
    BY <1>3 DEF LaidOut
  <2>3. all[k] = doc.blocks[p[k][1]].questions[p[k][2]]
    BY <1>3 DEF LaidOut
  <2>4. p[k][1] = b /\ p[k][2] = i
    BY <2>2
  <2> QED BY <2>1, <2>3, <2>4
<1>7. Codes(all) = {q.code : q \in Asked(doc)}
  BY <1>4, <1>5, <1>6 DEF Codes
<1> QED BY <1>2, <1>3, <1>4, <1>5, <1>7 DEF LaidOut

(* Codes that differ in every two places are as many as the places.          *)
LEMMA AsManyCodes ==
  ASSUME NEW doc, IsDocument(doc), Distinct(doc)
  PROVE  Cardinality(Codes(Questions(doc))) = Len(Questions(doc))
<1>1. PICK n \in Nat : LaidOut(doc, n, Questions(doc), Places(doc))
  BY Layout
<1>2. PICK all, p : all = Questions(doc) /\ p = Places(doc)
  OBVIOUS
<1>3. LaidOut(doc, n, all, p)
  BY Zenon, <1>1, <1>2
<1>4. DOMAIN all = 1..n /\ Len(all) = n
  BY <1>3, ListDomain DEF LaidOut
<1>5. ASSUME NEW k \in 1..n, NEW l \in 1..n, all[k].code = all[l].code PROVE k = l
  <2>1. PICK b, i, c, j : b = p[k][1] /\ i = p[k][2] /\ c = p[l][1] /\ j = p[l][2]
    OBVIOUS
  <2>2. /\ b \in DOMAIN doc.blocks /\ i \in DOMAIN doc.blocks[b].questions
        /\ c \in DOMAIN doc.blocks /\ j \in DOMAIN doc.blocks[c].questions
        /\ all[k] = doc.blocks[b].questions[i] /\ all[l] = doc.blocks[c].questions[j]
        /\ p[k] = <<b, i>> /\ p[l] = <<c, j>>
    BY <1>3, <2>1 DEF LaidOut
  <2>3. b = c /\ i = j
    BY <1>5, <2>2 DEF Distinct
  <2>4. p[k] = p[l]
    BY <2>2, <2>3
  <2> QED BY <1>3, <2>4 DEF LaidOut, Once
<1> DEFINE T == {all[k].code : k \in 1..n}
           h == [k \in 1..n |-> all[k].code]
<1>6. h \in Bijection(1..n, T)
  BY <1>5 DEF Bijection, Injection, Surjection, IsInjective
<1>7. ExistsBijection(1..n, T)
  BY <1>6 DEF ExistsBijection
<1>8. Cardinality(T) = n
  <2> HIDE DEF T, h
  <2> QED BY <1>7, FS_CountingElements
<1>9. Codes(all) = T
  BY <1>4 DEF Codes
<1> QED BY <1>2, <1>4, <1>8, <1>9
-----------------------------------------------------------------------------
OwnCodes(list) == \A i, j \in DOMAIN list : list[i].code = list[j].code => i = j

(* A filtered list holds some of the questions, in different places still.   *)
Part(qs, n, list) ==
  /\ IsList(list) /\ OwnCodes(list)
  /\ \A k \in DOMAIN list : \E i \in 1..n : list[k] = qs[i]

LEMMA KeepPart ==
  ASSUME NEW qs, IsList(qs), OwnCodes(qs), NEW c, NEW n \in Nat, n + 1 \in DOMAIN qs,
         NEW list, Part(qs, n, list)
  PROVE  Part(qs, n + 1, Keep(qs, c, list, n + 1))
<1>1. PICK q : q = qs[n + 1]
  OBVIOUS
<1>2. PICK len \in Nat : len = Len(list) /\ DOMAIN list = 1..len
  BY ListDomain DEF Part
<1>3. PICK u : u = Append(list, q)
  OBVIOUS
<1>4. /\ IsList(u) /\ Len(u) = len + 1 /\ DOMAIN u = 1..len + 1
      /\ \A k \in 1..len : u[k] = list[k]
      /\ u[len + 1] = q
  <2>1. /\ IsList(u) /\ Len(u) = len + 1
        /\ \A k \in 1..len : u[k] = list[k]
        /\ u[len + 1] = q
    BY <1>2, <1>3, Appended DEF Part
  <2> QED BY <2>1, ListDomain
<1>5. DOMAIN qs = 1..Len(qs) /\ Len(qs) \in Nat
  BY ListDomain
<1>6. ASSUME NEW k \in 1..len PROVE list[k].code # q.code
  <2>1. PICK i \in 1..n : list[k] = qs[i]
    BY <1>2 DEF Part
  <2>2. i \in DOMAIN qs /\ i # n + 1
    BY <1>5
  <2>3. qs[i].code # qs[n + 1].code
    BY <2>2 DEF OwnCodes
  <2> QED BY <1>1, <2>1, <2>3
<1>7. OwnCodes(u)
  <2> SUFFICES ASSUME NEW i \in 1..len + 1, NEW j \in 1..len + 1, u[i].code = u[j].code PROVE i = j
    BY <1>4 DEF OwnCodes
  <2>1. \A k \in 1..len + 1 : k \in 1..len \/ k = len + 1
    OBVIOUS
  <2>2. CASE i \in 1..len /\ j \in 1..len
    <3>1. list[i].code = list[j].code
      BY <1>4, <2>2
    <3> QED BY <1>2, <2>2, <3>1 DEF Part, OwnCodes
  <2>3. CASE i = len + 1 /\ j \in 1..len
    BY <1>4, <1>6, <2>3
  <2>4. CASE i \in 1..len /\ j = len + 1
    BY <1>4, <1>6, <2>4
  <2> QED BY <2>1, <2>2, <2>3, <2>4
<1>8. ASSUME NEW k \in 1..len + 1 PROVE \E i \in 1..n + 1 : u[k] = qs[i]
  <2>1. CASE k \in 1..len
    <3>1. PICK i \in 1..n : list[k] = qs[i]
      BY <1>2, <2>1 DEF Part
    <3>2. i \in 1..n + 1
      OBVIOUS
    <3> QED BY <1>4, <2>1, <3>1, <3>2
  <2>2. CASE k \notin 1..len
    <3>1. k = len + 1 /\ n + 1 \in 1..n + 1
      BY <2>2
    <3> QED BY <1>1, <1>4, <3>1
  <2> QED BY <2>1, <2>2
<1>9. Part(qs, n + 1, u)
  BY <1>4, <1>7, <1>8 DEF Part
<1>10. Part(qs, n + 1, list)
  <2>1. \A i \in 1..n : i \in 1..n + 1
    OBVIOUS
  <2> QED BY <2>1 DEF Part
<1> QED BY Zenon, <1>1, <1>3, <1>9, <1>10 DEF Keep

LEMMA Filtered ==
  ASSUME NEW qs, IsList(qs), OwnCodes(qs), NEW c
  PROVE  Part(qs, Len(qs), Filter(qs, c))
<1>1. PICK n \in Nat : n = Len(qs) /\ DOMAIN qs = 1..n
  BY ListDomain
<1>2. PICK f : Filters(qs, c, n, f)
  BY <1>1, FilterIs
<1>2a. /\ f[0] = <<>> /\ Filter(qs, c) = f[n]
       /\ \A k \in 1..n : f[k] = Keep(qs, c, f[k - 1], k)
  BY <1>2 DEF Filters
<1> DEFINE S == {k \in Nat : k <= n /\ ~Part(qs, k, f[k])}
<1>3. 0 \notin S
  <2>1. f[0] \in Seq({}) /\ Len(f[0]) = 0
    BY <1>2a
  <2>2. IsList(f[0]) /\ DOMAIN f[0] = {}
    BY <2>1, SeqIsList, ListDomain
  <2> QED BY <2>2 DEF Part, OwnCodes
<1>4. ASSUME NEW k \in Nat, k \notin S PROVE k + 1 \notin S
  <2> SUFFICES ASSUME k + 1 <= n PROVE Part(qs, k + 1, f[k + 1])
    OBVIOUS
  <2>1. k + 1 \in 1..n /\ (k + 1) - 1 = k /\ Part(qs, k, f[k])
    BY <1>4
  <2>2. f[k + 1] = Keep(qs, c, f[k], k + 1)
    BY <1>2a, <2>1
  <2>3. Part(qs, k + 1, Keep(qs, c, f[k], k + 1))
    BY <1>1, <2>1, KeepPart
  <2> QED BY <2>2, <2>3
<1>5. S = {}
  <2>1. S \subseteq Nat
    OBVIOUS
  <2> HIDE DEF S
  <2> QED BY <1>3, <1>4, <2>1, LeastOfBad
<1> QED BY <1>1, <1>2a, <1>5
-----------------------------------------------------------------------------
(* What every edit keeps of a document.                                      *)
Sound(doc) == IsDocument(doc) /\ Distinct(doc)

LEMMA SoundLists ==
  ASSUME NEW doc, Sound(doc), NEW b \in DOMAIN doc.blocks
  PROVE  IsList(doc.blocks[b].questions) /\ OwnCodes(doc.blocks[b].questions)
BY DEF Sound, IsDocument, Distinct, OwnCodes

(* New lists of questions that keep the codes where they were.               *)
LEMMA WithQuestionsSound ==
  ASSUME NEW doc, Sound(doc), NEW lists,
         \A b \in DOMAIN doc.blocks :
            /\ IsList(lists[b]) /\ OwnCodes(lists[b])
            /\ \A k \in DOMAIN lists[b] :
                  /\ IsQuestion(lists[b][k])
                  /\ \E i \in DOMAIN doc.blocks[b].questions :
                        doc.blocks[b].questions[i].code = lists[b][k].code
  PROVE  LET new == WithQuestions(doc, lists) IN Sound(new) /\ new.title = doc.title
<1>1. PICK new : new = WithQuestions(doc, lists)
  OBVIOUS
<1>2. DOMAIN doc = {"title", "look", "blocks"}
      /\ \A b \in DOMAIN doc.blocks : DOMAIN doc.blocks[b] = {"visibleIf", "questions"}
  BY DEF Sound, IsDocument
<1>3. /\ DOMAIN new = DOMAIN doc /\ new.title = doc.title
      /\ new.blocks = [b \in DOMAIN doc.blocks |-> [doc.blocks[b] EXCEPT !.questions = lists[b]]]
  BY <1>1, <1>2 DEF WithQuestions
<1>4. DOMAIN new.blocks = DOMAIN doc.blocks
      /\ \A b \in DOMAIN doc.blocks : /\ DOMAIN new.blocks[b] = {"visibleIf", "questions"}
                                      /\ new.blocks[b].questions = lists[b]
  BY <1>2, <1>3
<1>5. IsList(new.blocks) /\ new.blocks # <<>>
  <2>1. PICK n \in Nat \ {0} : n = Len(doc.blocks) /\ DOMAIN doc.blocks = 1..n
    BY NotEmpty, ListDomain DEF Sound, IsDocument
  <2>2. PICK blocks : blocks = new.blocks
    OBVIOUS
  <2>3. blocks = [b \in 1..n |-> blocks[b]]
    BY <1>3, <2>1, <2>2
  <2>4. IsList(blocks) /\ Len(blocks) = n
    BY <2>3, Lists
  <2>5. blocks # <<>>
    BY <2>4
  <2> QED BY <2>2, <2>4, <2>5
<1>6. IsDocument(new)
  BY <1>2, <1>3, <1>4, <1>5 DEF Sound, IsDocument
<1>7. ASSUME NEW b \in DOMAIN new.blocks, NEW c \in DOMAIN new.blocks,
             NEW i \in DOMAIN new.blocks[b].questions, NEW j \in DOMAIN new.blocks[c].questions,
             new.blocks[b].questions[i].code = new.blocks[c].questions[j].code
      PROVE  b = c /\ i = j
  <2>1. b \in DOMAIN doc.blocks /\ c \in DOMAIN doc.blocks
        /\ i \in DOMAIN lists[b] /\ j \in DOMAIN lists[c] /\ lists[b][i].code = lists[c][j].code
    BY <1>4, <1>7
  <2>2. PICK x \in DOMAIN doc.blocks[b].questions : doc.blocks[b].questions[x].code = lists[b][i].code
    BY <2>1
  <2>3. PICK y \in DOMAIN doc.blocks[c].questions : doc.blocks[c].questions[y].code = lists[c][j].code
    BY <2>1
  <2>4. b = c
    BY <2>1, <2>2, <2>3 DEF Sound, Distinct
  <2>5. OwnCodes(lists[b])
    BY <2>1
  <2> QED BY <2>1, <2>4, <2>5 DEF OwnCodes
<1>8. Distinct(new)
  BY <1>7 DEF Distinct
<1> QED BY <1>1, <1>3, <1>6, <1>8 DEF Sound

(* A patch that gives the questions of a code a new look, not a new code.    *)
LEMMA UpdateSound ==
  ASSUME NEW doc, Sound(doc), NEW code, NEW patched,
         \A q \in Asked(doc) : q.code = code =>
            IsQuestion(patched[q]) /\ patched[q].code = code
  PROVE  LET new == UpdateQuestion(doc, code, patched) IN Sound(new) /\ new.title = doc.title
<1> DEFINE lists == [b \in DOMAIN doc.blocks |->
              [i \in DOMAIN doc.blocks[b].questions |->
                 IF doc.blocks[b].questions[i].code = code THEN patched[doc.blocks[b].questions[i]]
                 ELSE doc.blocks[b].questions[i]]]
<1>1. UpdateQuestion(doc, code, patched) = WithQuestions(doc, lists)
  BY Zenon DEF UpdateQuestion
<1>2. ASSUME NEW b \in DOMAIN doc.blocks
      PROVE  /\ IsList(lists[b]) /\ OwnCodes(lists[b])
             /\ \A k \in DOMAIN lists[b] :
                  /\ IsQuestion(lists[b][k])
                  /\ \E i \in DOMAIN doc.blocks[b].questions :
                        doc.blocks[b].questions[i].code = lists[b][k].code
  <2>1. PICK qs : qs = doc.blocks[b].questions
    OBVIOUS
  <2>2. PICK n \in Nat : n = Len(qs) /\ DOMAIN qs = 1..n
    BY <2>1, SoundLists, ListDomain
  <2>3. PICK list : list = lists[b]
    OBVIOUS
  <2>4. list = [i \in 1..n |-> IF qs[i].code = code THEN patched[qs[i]] ELSE qs[i]]
    BY <2>1, <2>2, <2>3
  <2>5. IsList(list) /\ DOMAIN list = 1..n
    <3>1. list = [i \in 1..n |-> list[i]]
      BY <2>4
    <3> QED BY <3>1, Lists
  <2>6. ASSUME NEW k \in 1..n PROVE IsQuestion(list[k]) /\ list[k].code = qs[k].code
    <3>1. qs[k] \in Asked(doc) /\ IsQuestion(qs[k])
      BY <2>1, <2>2, AskedIs DEF Sound, IsDocument
    <3>2. list[k] = IF qs[k].code = code THEN patched[qs[k]] ELSE qs[k]
      BY <2>4
    <3> QED BY <3>1, <3>2
  <2>7. OwnCodes(list)
    <3>1. OwnCodes(qs)
      BY <2>1, SoundLists
    <3> QED BY <2>2, <2>5, <2>6, <3>1 DEF OwnCodes
  <2> HIDE DEF lists
  <2> QED BY <2>1, <2>2, <2>3, <2>5, <2>6, <2>7
<1> HIDE DEF lists
<1>3. LET new == WithQuestions(doc, lists) IN Sound(new) /\ new.title = doc.title
  BY <1>2, WithQuestionsSound
<1> QED BY <1>1, <1>3
-----------------------------------------------------------------------------
(* The edits by hand, one after the other. *)
Kept(doc, new) == Sound(new) /\ new.title = doc.title

LEMMA AskedOK == ASSUME NEW doc, Sound(doc), NEW q \in Asked(doc) PROVE IsQuestion(q)
<1>1. PICK b \in DOMAIN doc.blocks : \E i \in DOMAIN doc.blocks[b].questions : q = doc.blocks[b].questions[i]
  BY AskedIs
<1>2. \A i \in DOMAIN doc.blocks[b].questions : IsQuestion(doc.blocks[b].questions[i])
  BY DEF Sound, IsDocument
<1> QED BY <1>1, <1>2

LEMMA SameQuestion ==
  ASSUME NEW doc, Sound(doc), NEW q \in Asked(doc), NEW x \in Asked(doc), q.code = x.code
  PROVE  q = x
<1>1. PICK b \in DOMAIN doc.blocks : \E i \in DOMAIN doc.blocks[b].questions : q = doc.blocks[b].questions[i]
  BY AskedIs
<1>2. PICK i \in DOMAIN doc.blocks[b].questions : q = doc.blocks[b].questions[i]
  BY <1>1
<1>3. PICK c \in DOMAIN doc.blocks : \E j \in DOMAIN doc.blocks[c].questions : x = doc.blocks[c].questions[j]
  BY AskedIs
<1>4. PICK j \in DOMAIN doc.blocks[c].questions : x = doc.blocks[c].questions[j]
  BY <1>3
<1> QED BY <1>2, <1>4 DEF Sound, Distinct

LEMMA Updated ==
  ASSUME NEW doc, Sound(doc), NEW code, NEW patched,
         \A q \in Asked(doc) : q.code = code => IsQuestion(patched[q]) /\ patched[q].code = code,
         NEW new, new = UpdateQuestion(doc, code, patched)
  PROVE  Kept(doc, new)
BY UpdateSound DEF Kept

LEMMA TextsKept == ASSUME NEW doc, Sound(doc), NEW new \in EditTexts(doc) PROVE Kept(doc, new)
<1>1. PICK c \in Codes(Questions(doc)), w \in Looks \ {doc.look} :
         new = UpdateQuestion(doc, c, Worded(doc, w))
  BY DEF EditTexts
<1>2. \A q \in Asked(doc) : IsQuestion(Worded(doc, w)[q]) /\ Worded(doc, w)[q].code = q.code
  BY AskedOK DEF IsQuestion, Worded
<1> QED BY <1>1, <1>2, Updated

LEMMA TypeKept == ASSUME NEW doc, Sound(doc), NEW new \in ChangeType(doc) PROVE Kept(doc, new)
<1>1. PICK c \in Codes(Questions(doc)), type \in Types :
         new = UpdateQuestion(doc, c, Retyped(doc, type))
  BY DEF ChangeType
<1>2. \A q \in Asked(doc) : IsQuestion(Retyped(doc, type)[q]) /\ Retyped(doc, type)[q].code = q.code
  BY AskedOK DEF IsQuestion, EmptyConfig, Retyped
<1> QED BY <1>1, <1>2, Updated

LEMMA ConditionsKept ==
  ASSUME NEW doc, Sound(doc), NEW c, NEW v, NEW new,
         new = UpdateQuestion(doc, c, [q \in Asked(doc) |-> [q EXCEPT !.visibleIf = v]])
  PROVE  Kept(doc, new)
<1> DEFINE patched == [q \in Asked(doc) |-> [q EXCEPT !.visibleIf = v]]
<1>2. \A q \in Asked(doc) : IsQuestion(patched[q]) /\ patched[q].code = q.code
  BY AskedOK DEF IsQuestion
<1> HIDE DEF patched
<1> QED BY <1>2, Updated DEF patched

LEMMA LogicKept ==
  ASSUME NEW doc, Sound(doc), NEW new,
         new \in EditLogic(doc, DisplayLogicEditor) \/ new \in EditLogic(doc, ConditionRows)
  PROVE  Kept(doc, new)
<1>1. CASE new \in EditLogic(doc, DisplayLogicEditor)
  <2>1. PICK c, v : new = UpdateQuestion(doc, c, [q \in Asked(doc) |-> [q EXCEPT !.visibleIf = v]])
    BY Zenon, <1>1 DEF EditLogic
  <2> QED BY <2>1, ConditionsKept
<1>2. CASE new \in EditLogic(doc, ConditionRows)
  <2>1. PICK c, v : new = UpdateQuestion(doc, c, [q \in Asked(doc) |-> [q EXCEPT !.visibleIf = v]])
    BY Zenon, <1>2 DEF EditLogic
  <2> QED BY <2>1, ConditionsKept
<1> QED BY <1>1, <1>2

LEMMA BranchesKept == ASSUME NEW doc, Sound(doc), NEW new \in EditBranches(doc) PROVE Kept(doc, new)
<1>1. PICK c, v : new = UpdateQuestion(doc, c, [q \in Asked(doc) |-> [q EXCEPT !.branches = v]])
  BY Zenon DEF EditBranches
<1> DEFINE patched == [q \in Asked(doc) |-> [q EXCEPT !.branches = v]]
<1>2. \A q \in Asked(doc) : IsQuestion(patched[q]) /\ patched[q].code = q.code
  BY AskedOK DEF IsQuestion
<1> HIDE DEF patched
<1> QED BY <1>1, <1>2, Updated DEF patched

LEMMA NoListShort == IsList(NoList) /\ List(NoList) = <<>> /\ Len(<<>>) = 0 /\ IsList(<<>>)
<1>1. NoList \in Seq(Nat) /\ <<>> \in Seq(Nat) /\ Len(<<>>) = 0
  BY DEF NoList
<1> QED BY <1>1, SeqIsList DEF List

(* A list of images with one less is within the limit.                       *)
LEMMA StimulusKept ==
  ASSUME NEW doc, Sound(doc), NEW editor, NEW new \in RemoveStimulus(doc, editor) PROVE Kept(doc, new)
<1> DEFINE Less(x, i) == IF editor = "modern" /\ Len(List(x.stimuli)) = 1 THEN NoList
                         ELSE RemoveAt(List(x.stimuli), i)
<1>1. PICK q \in Asked(doc) : \E i \in DOMAIN List(q.stimuli) :
        new = UpdateQuestion(doc, q.code, [x \in Asked(doc) |-> [x EXCEPT !.stimuli = Less(x, i)]])
  BY Zenon DEF RemoveStimulus
<1>2. PICK i \in DOMAIN List(q.stimuli) :
        new = UpdateQuestion(doc, q.code, [x \in Asked(doc) |-> [x EXCEPT !.stimuli = Less(x, i)]])
  BY <1>1
<1>3. IsList(List(q.stimuli)) /\ Len(List(q.stimuli)) <= MaxStimuli
  BY AskedOK, NoListShort DEF IsQuestion, List
<1>4. PICK less : less = Less(q, i)
  OBVIOUS
<1>5. IsList(less) /\ Len(List(less)) <= MaxStimuli
  <2>1. CASE editor = "modern" /\ Len(List(q.stimuli)) = 1
    BY <1>4, <2>1, NoListShort, BoundAssumption
  <2>2. CASE ~(editor = "modern" /\ Len(List(q.stimuli)) = 1)
    <3>1. PICK s : s = List(q.stimuli)
      OBVIOUS
    <3>2. IsList(RemoveAt(s, i)) /\ Len(RemoveAt(s, i)) = Len(s) - 1
      BY <1>3, <3>1, Removed
    <3>3. Len(s) \in Nat /\ Len(less) = Len(s) - 1 /\ IsList(less)
      BY <1>3, <1>4, <2>2, <3>1, <3>2 DEF IsList
    <3>4. Len(List(less)) = Len(less) \/ Len(List(less)) = 0
      BY NoListShort DEF List
    <3> QED BY <1>3, <3>1, <3>3, <3>4, BoundAssumption
  <2> QED BY <2>1, <2>2
<1> DEFINE patched == [x \in Asked(doc) |-> [x EXCEPT !.stimuli = Less(x, i)]]
<1>6. \A x \in Asked(doc) : x.code = q.code => IsQuestion(patched[x]) /\ patched[x].code = q.code
  <2>1. SUFFICES ASSUME NEW x \in Asked(doc), x.code = q.code
                 PROVE  IsQuestion(patched[x]) /\ patched[x].code = q.code
    OBVIOUS
  <2>2. x = q
    BY <2>1, SameQuestion
  <2>3. patched[x] = [q EXCEPT !.stimuli = less]
    BY <1>4, <2>2
  <2>4. IsQuestion(q)
    BY AskedOK
  <2> HIDE DEF patched
  <2> QED BY <1>5, <2>3, <2>4 DEF IsQuestion
<1>7. new = UpdateQuestion(doc, q.code, patched)
  BY <1>2
<1> HIDE DEF patched
<1> QED BY <1>6, <1>7, Updated

(* A version stays with its file, or goes with it.                           *)
LEMMA ImportKept ==
  ASSUME NEW q, IsQuestion(q), NEW c,
         c \in ImportPrototype(q.prototype)
            \cup {[q.prototype EXCEPT !.flow = "task"],
                  [q.prototype EXCEPT !.flow = "free", !.goal = NoFrame],
                  [EmptyConfig EXCEPT !.flow = q.prototype.flow]}
  PROVE  DOMAIN EmptyConfig \subseteq DOMAIN c /\ c.version \in {NoFile, c.file}
<1> DEFINE p == q.prototype
<1>1. {"file", "start", "goal", "flow", "version"} \subseteq DOMAIN p /\ p.version \in {NoFile, p.file}
      /\ DOMAIN EmptyConfig = {"file", "start", "goal", "flow", "version"}
  BY DEF IsQuestion, EmptyConfig
<1>2. CASE c \in ImportPrototype(p)
  <2>1. PICK file, node : c = Imported(p, file, node)
    BY Zenon, <1>2 DEF ImportPrototype
  <2>2. c.file = file /\ c.version = NoFile /\ DOMAIN c = DOMAIN p
    BY <1>1, <2>1 DEF Imported
  <2> QED BY <1>1, <2>2
<1>3. CASE c = [p EXCEPT !.flow = "task"]
  BY <1>1, <1>3
<1>4. CASE c = [p EXCEPT !.flow = "free", !.goal = NoFrame]
  BY <1>1, <1>4
<1>5. CASE c = [EmptyConfig EXCEPT !.flow = p.flow]
  BY <1>5 DEF EmptyConfig
<1> QED BY <1>2, <1>3, <1>4, <1>5

LEMMA PrototypeKept == ASSUME NEW doc, Sound(doc), NEW new \in EditPrototype(doc) PROVE Kept(doc, new)
<1>1. PICK q \in Asked(doc) :
        \E c \in ImportPrototype(q.prototype)
                    \cup {[q.prototype EXCEPT !.flow = "task"],
                          [q.prototype EXCEPT !.flow = "free", !.goal = NoFrame],
                          [EmptyConfig EXCEPT !.flow = q.prototype.flow]} :
          new = UpdateQuestion(doc, q.code, [x \in Asked(doc) |-> [x EXCEPT !.prototype = c]])
  BY Zenon DEF EditPrototype
<1>2. PICK c : /\ DOMAIN EmptyConfig \subseteq DOMAIN c /\ c.version \in {NoFile, c.file}
               /\ new = UpdateQuestion(doc, q.code, [x \in Asked(doc) |-> [x EXCEPT !.prototype = c]])
  BY <1>1, AskedOK, ImportKept
<1> DEFINE patched == [x \in Asked(doc) |-> [x EXCEPT !.prototype = c]]
<1>3. \A x \in Asked(doc) : IsQuestion(patched[x]) /\ patched[x].code = x.code
  BY <1>2, AskedOK DEF IsQuestion
<1> HIDE DEF patched
<1> QED BY <1>2, <1>3, Updated DEF patched
-----------------------------------------------------------------------------
(* Questions that are put elsewhere, or left where they are: every one of    *)
(* the new document is one of the old, and no two are the same one.          *)
Shaped(new) ==
  /\ DOMAIN new = {"title", "look", "blocks"} /\ new.title \in Looks \cup {""}
  /\ IsList(new.blocks) /\ new.blocks # <<>>
  /\ \A b \in DOMAIN new.blocks :
        DOMAIN new.blocks[b] = {"visibleIf", "questions"} /\ IsList(new.blocks[b].questions)

CameFrom(doc, new, block, place) ==
  /\ \A b \in DOMAIN new.blocks : \A i \in DOMAIN new.blocks[b].questions :
        /\ block[b][i] \in DOMAIN doc.blocks
        /\ place[b][i] \in DOMAIN doc.blocks[block[b][i]].questions
        /\ new.blocks[b].questions[i] = doc.blocks[block[b][i]].questions[place[b][i]]
  /\ \A b, c \in DOMAIN new.blocks :
        \A i \in DOMAIN new.blocks[b].questions, j \in DOMAIN new.blocks[c].questions :
           block[b][i] = block[c][j] /\ place[b][i] = place[c][j] => b = c /\ i = j

LEMMA Rearranged ==
  ASSUME NEW doc, Sound(doc), NEW new, Shaped(new), NEW block, NEW place, CameFrom(doc, new, block, place)
  PROVE  Sound(new)
<1>1. ASSUME NEW b \in DOMAIN new.blocks, NEW i \in DOMAIN new.blocks[b].questions
      PROVE  IsQuestion(new.blocks[b].questions[i])
  <2>1. PICK c, j : c = block[b][i] /\ j = place[b][i]
    OBVIOUS
  <2>2. c \in DOMAIN doc.blocks /\ j \in DOMAIN doc.blocks[c].questions
        /\ new.blocks[b].questions[i] = doc.blocks[c].questions[j]
    BY <2>1 DEF CameFrom
  <2> QED BY <2>2 DEF Sound, IsDocument
<1>2. ASSUME NEW b \in DOMAIN new.blocks, NEW c \in DOMAIN new.blocks,
             NEW i \in DOMAIN new.blocks[b].questions, NEW j \in DOMAIN new.blocks[c].questions,
             new.blocks[b].questions[i].code = new.blocks[c].questions[j].code
      PROVE  b = c /\ i = j
  <2>1. PICK d, k, e, l : d = block[b][i] /\ k = place[b][i] /\ e = block[c][j] /\ l = place[c][j]
    OBVIOUS
  <2>2. /\ d \in DOMAIN doc.blocks /\ k \in DOMAIN doc.blocks[d].questions
        /\ e \in DOMAIN doc.blocks /\ l \in DOMAIN doc.blocks[e].questions
        /\ new.blocks[b].questions[i] = doc.blocks[d].questions[k]
        /\ new.blocks[c].questions[j] = doc.blocks[e].questions[l]
    BY <2>1 DEF CameFrom
  <2>3. d = e /\ k = l
    BY <1>2, <2>2 DEF Sound, Distinct
  <2>4. block[b][i] = block[c][j] /\ place[b][i] = place[c][j]
    BY <2>1, <2>3
  <2> QED BY <2>4 DEF CameFrom
<1>3. IsDocument(new)
  BY <1>1 DEF Shaped, IsDocument
<1>4. Distinct(new)
  BY <1>2 DEF Distinct
<1> QED BY <1>3, <1>4 DEF Sound

(* The same questions in the same blocks.                                    *)
LEMMA Unmoved ==
  ASSUME NEW doc, Sound(doc), NEW new, Shaped(new),
         DOMAIN new.blocks = DOMAIN doc.blocks,
         \A b \in DOMAIN doc.blocks : new.blocks[b].questions = doc.blocks[b].questions
  PROVE  Sound(new)
<1> DEFINE block == [b \in DOMAIN new.blocks |-> [i \in DOMAIN new.blocks[b].questions |-> b]]
           place == [b \in DOMAIN new.blocks |-> [i \in DOMAIN new.blocks[b].questions |-> i]]
<1>1. \A b \in DOMAIN new.blocks : \A i \in DOMAIN new.blocks[b].questions : block[b][i] = b /\ place[b][i] = i
  OBVIOUS
<1> HIDE DEF block, place
<1>2. CameFrom(doc, new, block, place)
  BY <1>1 DEF CameFrom
<1> QED BY <1>2, Rearranged

LEMMA SoundShaped == ASSUME NEW doc, Sound(doc) PROVE Shaped(doc)
BY DEF Sound, IsDocument, Shaped

LEMMA MessagesKept == ASSUME NEW doc, Sound(doc), NEW new \in EditMessages(doc) PROVE Sound(new)
<1>1. PICK w : new = [doc EXCEPT !.look = w]
  BY DEF EditMessages
<1>2. Shaped(new) /\ new.blocks = doc.blocks
  BY <1>1, SoundShaped DEF Shaped
<1> QED BY <1>2, Unmoved

LEMMA TitleKept == ASSUME NEW doc, Sound(doc), NEW new \in EditTitle(doc) PROVE Sound(new)
<1>1. PICK w \in Looks \cup {""} : new = [doc EXCEPT !.title = w]
  BY DEF EditTitle
<1>2. Shaped(new) /\ new.blocks = doc.blocks
  BY <1>1, SoundShaped DEF Shaped
<1> QED BY <1>2, Unmoved

LEMMA Put ==
  ASSUME NEW s, IsList(s), NEW i, NEW x
  PROVE  LET t == [s EXCEPT ![i] = x]
         IN  /\ IsList(t) /\ DOMAIN t = DOMAIN s
             /\ \A k \in DOMAIN s : t[k] = IF k = i THEN x ELSE s[k]
<1>1. PICK n \in Nat : n = Len(s) /\ DOMAIN s = 1..n
  BY ListDomain
<1>2. PICK t : t = [s EXCEPT ![i] = x]
  OBVIOUS
<1>3. DOMAIN t = 1..n /\ t = [k \in 1..n |-> t[k]] /\ \A k \in DOMAIN s : t[k] = IF k = i THEN x ELSE s[k]
  BY <1>1, <1>2
<1> QED BY <1>1, <1>2, <1>3, Lists

LEMMA PutNotEmpty ==
  ASSUME NEW s, IsList(s), s # <<>>, NEW t, IsList(t), DOMAIN t = DOMAIN s
  PROVE  t # <<>>
<1>1. Len(s) \in Nat \ {0} /\ DOMAIN s = 1..Len(s)
  BY NotEmpty, ListDomain
<1>2. 1 \in DOMAIN t
  BY <1>1
<1> QED BY <1>2

(* Another block in the place of one, which holds the same questions.        *)
LEMMA SectionLogicKept == ASSUME NEW doc, Sound(doc), NEW new \in EditSectionLogic(doc) PROVE Sound(new)
<1>1. PICK b \in DOMAIN doc.blocks :
         new \in {[doc EXCEPT !.blocks[b].visibleIf = v] :
                    v \in DisplayLogicEditor(doc.blocks[b].visibleIf,
                            Questions([doc EXCEPT !.blocks = SubSeq(doc.blocks, 1, b - 1)]))}
  BY DEF EditSectionLogic
<1>2. PICK v : new = [doc EXCEPT !.blocks[b].visibleIf = v]
  BY <1>1
<1> DEFINE block == [doc.blocks[b] EXCEPT !.visibleIf = v]
<1>3. Shaped(doc)
  BY SoundShaped
<1>4. new.blocks = [doc.blocks EXCEPT ![b] = block] /\ DOMAIN new = DOMAIN doc /\ new.title = doc.title
  BY <1>2, <1>3 DEF Shaped
<1>5. DOMAIN block = {"visibleIf", "questions"} /\ block.questions = doc.blocks[b].questions
  BY <1>3 DEF Shaped
<1> HIDE DEF block
<1>6. IsList(new.blocks) /\ DOMAIN new.blocks = DOMAIN doc.blocks
      /\ \A k \in DOMAIN doc.blocks : new.blocks[k] = IF k = b THEN block ELSE doc.blocks[k]
  <2>1. IsList(doc.blocks)
    BY <1>3 DEF Shaped
  <2>2. PICK s : s = doc.blocks
    OBVIOUS
  <2>3. PICK t : t = [s EXCEPT ![b] = block]
    OBVIOUS
  <2>4. IsList(t) /\ DOMAIN t = DOMAIN s /\ \A k \in DOMAIN s : t[k] = IF k = b THEN block ELSE s[k]
    BY <2>1, <2>2, <2>3, Put
  <2> QED BY <1>4, <2>2, <2>3, <2>4
<1>7. new.blocks # <<>>
  BY <1>3, <1>6, PutNotEmpty DEF Shaped
<1>8. \A k \in DOMAIN doc.blocks : /\ new.blocks[k].questions = doc.blocks[k].questions
                                   /\ DOMAIN new.blocks[k] = {"visibleIf", "questions"}
  BY <1>3, <1>5, <1>6 DEF Shaped
<1>9. Shaped(new)
  BY <1>3, <1>4, <1>6, <1>7, <1>8 DEF Shaped
<1> QED BY <1>6, <1>8, <1>9, Unmoved
-----------------------------------------------------------------------------
LEMMA AddBlockKept == ASSUME NEW doc, Sound(doc), NEW new \in AddBlock(doc) PROVE Sound(new)
<1> DEFINE block == [visibleIf |-> <<>>, questions |-> <<>>]
<1>1. new = [doc EXCEPT !.blocks = Append(doc.blocks, block)]
  BY DEF AddBlock
<1>2. Shaped(doc)
  BY SoundShaped
<1>3. DOMAIN block = {"visibleIf", "questions"} /\ IsList(block.questions) /\ DOMAIN block.questions = {}
  <2>1. block.questions = <<>> /\ DOMAIN block = {"visibleIf", "questions"}
    OBVIOUS
  <2> QED BY <2>1, NoListShort, ListDomain
<1> HIDE DEF block
<1>4. PICK s, t : s = doc.blocks /\ t = Append(s, block)
  OBVIOUS
<1>5. PICK n \in Nat \ {0} : n = Len(s) /\ DOMAIN s = 1..n
  BY <1>2, <1>4, NotEmpty, ListDomain DEF Shaped
<1>6. IsList(t) /\ Len(t) = n + 1 /\ (\A k \in 1..n : t[k] = s[k]) /\ t[n + 1] = block
  <2>1. IsList(s)
    BY <1>2, <1>4 DEF Shaped
  <2>2. IsList(Append(s, block)) /\ Len(Append(s, block)) = Len(s) + 1
        /\ (\A k \in 1..Len(s) : Append(s, block)[k] = s[k])
        /\ Append(s, block)[Len(s) + 1] = block
    BY <2>1, Appended
  <2> QED BY <1>4, <1>5, <2>2
<1>7. DOMAIN t = 1..n + 1
  BY <1>5, <1>6, ListDomain
<1>8. new.blocks = t /\ DOMAIN new = DOMAIN doc /\ new.title = doc.title
  BY <1>1, <1>2, <1>4 DEF Shaped
<1>9. \A b \in 1..n + 1 : (b \in 1..n /\ t[b] = s[b]) \/ (b = n + 1 /\ t[b] = block)
  BY <1>6
<1>10. t # <<>>
  BY <1>7
<1>11. Shaped(new)
  <2>1. ASSUME NEW b \in DOMAIN t
        PROVE  DOMAIN t[b] = {"visibleIf", "questions"} /\ IsList(t[b].questions)
    <3>1. CASE b \in 1..n /\ t[b] = s[b]
      BY <1>2, <1>4, <1>5, <3>1 DEF Shaped
    <3>2. CASE t[b] = block
      BY <1>3, <3>2
    <3> QED BY <1>7, <1>9, <3>1, <3>2
  <2> QED BY <1>2, <1>6, <1>8, <1>10, <2>1 DEF Shaped
<1> DEFINE at == [b \in DOMAIN new.blocks |-> [i \in DOMAIN new.blocks[b].questions |-> b]]
           place == [b \in DOMAIN new.blocks |-> [i \in DOMAIN new.blocks[b].questions |-> i]]
<1>12. \A b \in DOMAIN new.blocks : \A i \in DOMAIN new.blocks[b].questions : at[b][i] = b /\ place[b][i] = i
  OBVIOUS
<1>13. \A b \in DOMAIN new.blocks : \A i \in DOMAIN new.blocks[b].questions :
          b \in DOMAIN doc.blocks /\ new.blocks[b] = doc.blocks[b]
  BY <1>3, <1>4, <1>5, <1>7, <1>8, <1>9
<1> HIDE DEF at, place
<1>14. CameFrom(doc, new, at, place)
  BY <1>12, <1>13 DEF CameFrom
<1> QED BY <1>11, <1>14, Rearranged

LEMMA RemoveBlockKept == ASSUME NEW doc, Sound(doc), NEW new \in RemoveBlock(doc) PROVE Sound(new)
<1>1. PICK x \in DOMAIN doc.blocks : Len(doc.blocks) # 1 /\ new = [doc EXCEPT !.blocks = RemoveAt(doc.blocks, x)]
  BY DEF RemoveBlock
<1>2. Shaped(doc)
  BY SoundShaped
<1>3. PICK s, t : s = doc.blocks /\ t = RemoveAt(s, x)
  OBVIOUS
<1>4. PICK n \in Nat \ {0} : n = Len(s) /\ DOMAIN s = 1..n
  BY <1>2, <1>3, NotEmpty, ListDomain DEF Shaped
<1>5. IsList(t) /\ Len(t) = n - 1 /\ \A k \in 1..n - 1 : t[k] = s[IF k < x THEN k ELSE k + 1]
  <2>1. IsList(s) /\ x \in DOMAIN s
    BY <1>1, <1>2, <1>3 DEF Shaped
  <2>2. IsList(RemoveAt(s, x)) /\ Len(RemoveAt(s, x)) = Len(s) - 1
        /\ \A k \in 1..Len(s) - 1 : RemoveAt(s, x)[k] = s[IF k < x THEN k ELSE k + 1]
    BY <2>1, Removed
  <2> QED BY <1>3, <1>4, <2>2
<1>6. DOMAIN t = 1..n - 1 /\ t # <<>>
  <2>1. DOMAIN t = 1..n - 1 /\ n # 1
    BY <1>1, <1>3, <1>4, <1>5, ListDomain
  <2> QED BY <2>1
<1>7. new.blocks = t /\ DOMAIN new = DOMAIN doc /\ new.title = doc.title
  BY <1>1, <1>2, <1>3 DEF Shaped
<1> DEFINE Old(b) == IF b < x THEN b ELSE b + 1
<1>8. \A b \in 1..n - 1 : Old(b) \in 1..n /\ t[b] = s[Old(b)]
  BY <1>1, <1>3, <1>4, <1>5
<1>9. \A b, c \in 1..n - 1 : Old(b) = Old(c) => b = c
  BY <1>1, <1>3, <1>4
<1> HIDE DEF Old
<1>10. Shaped(new)
  <2>1. ASSUME NEW b \in DOMAIN t
        PROVE  DOMAIN t[b] = {"visibleIf", "questions"} /\ IsList(t[b].questions)
    <3>1. PICK old \in DOMAIN s : t[b] = s[old]
      BY <1>4, <1>6, <1>8
    <3> QED BY <1>2, <1>3, <3>1 DEF Shaped
  <2> QED BY <1>2, <1>5, <1>6, <1>7, <2>1 DEF Shaped
<1> DEFINE at == [b \in DOMAIN new.blocks |-> [i \in DOMAIN new.blocks[b].questions |-> Old(b)]]
           place == [b \in DOMAIN new.blocks |-> [i \in DOMAIN new.blocks[b].questions |-> i]]
<1>11. \A b \in DOMAIN new.blocks : \A i \in DOMAIN new.blocks[b].questions :
          at[b][i] = Old(b) /\ place[b][i] = i
  OBVIOUS
<1>12. \A b \in DOMAIN new.blocks : Old(b) \in DOMAIN doc.blocks /\ new.blocks[b] = doc.blocks[Old(b)]
  BY <1>3, <1>4, <1>6, <1>7, <1>8
<1>13. \A b, c \in DOMAIN new.blocks : Old(b) = Old(c) => b = c
  BY <1>6, <1>7, <1>9
<1> HIDE DEF at, place
<1>14. CameFrom(doc, new, at, place)
  BY <1>11, <1>12, <1>13 DEF CameFrom
<1> QED BY <1>10, <1>14, Rearranged

LEMMA RemoveQuestionKept == ASSUME NEW doc, Sound(doc), NEW new \in RemoveQuestion(doc) PROVE Sound(new)
<1>1. PICK c : new = WithQuestions(doc, [b \in DOMAIN doc.blocks |-> Filter(doc.blocks[b].questions, c)])
  BY Zenon DEF RemoveQuestion
<1> DEFINE lists == [b \in DOMAIN doc.blocks |-> Filter(doc.blocks[b].questions, c)]
<1>2. ASSUME NEW b \in DOMAIN doc.blocks
      PROVE  /\ IsList(lists[b]) /\ OwnCodes(lists[b])
             /\ \A k \in DOMAIN lists[b] :
                  /\ IsQuestion(lists[b][k])
                  /\ \E i \in DOMAIN doc.blocks[b].questions :
                        doc.blocks[b].questions[i].code = lists[b][k].code
  <2>1. PICK qs : qs = doc.blocks[b].questions
    OBVIOUS
  <2>2. IsList(qs) /\ OwnCodes(qs) /\ \A i \in DOMAIN qs : IsQuestion(qs[i])
    BY <2>1, SoundLists DEF Sound, IsDocument
  <2>3. DOMAIN qs = 1..Len(qs)
    BY <2>2, ListDomain
  <2>4. PICK list : list = lists[b] /\ list = Filter(qs, c)
    BY <2>1
  <2>5. Part(qs, Len(qs), list)
    BY <2>2, <2>4, Filtered
  <2>6. IsList(list) /\ OwnCodes(list) /\ \A k \in DOMAIN list : \E i \in DOMAIN qs : list[k] = qs[i]
    BY <2>3, <2>5 DEF Part
  <2> QED BY <2>1, <2>2, <2>4, <2>6
<1>3. new = WithQuestions(doc, lists)
  BY <1>1
<1> HIDE DEF lists
<1>4. LET w == WithQuestions(doc, lists) IN Sound(w)
  BY <1>2, WithQuestionsSound
<1> QED BY <1>3, <1>4
-----------------------------------------------------------------------------
(* There are at most as many codes as questions, so one of the first        *)
(* Len + 1 numbers is free; NewCode takes the least.                         *)
LEMMA NewCodeIsNew ==
  ASSUME NEW type, NEW existing, IsList(existing)
  PROVE  NewCode(type, existing) \notin Codes(existing)
<1>1. PICK n \in Nat : n = Len(existing) /\ DOMAIN existing = 1..n
  BY ListDomain
<1>2. PICK codes : codes = Codes(existing)
  OBVIOUS
<1>3. \A c \in codes : \E i \in 1..n : existing[i].code = c
  BY <1>1, <1>2 DEF Codes
<1>4. \E m \in 1..n + 1 : <<type, m>> \notin codes
  <2>1. SUFFICES ASSUME \A m \in 1..n + 1 : <<type, m>> \in codes PROVE FALSE
    OBVIOUS
  <2> DEFINE f == [m \in 1..n + 1 |-> CHOOSE i \in 1..n : existing[i].code = <<type, m>>]
  <2>2. \A m \in 1..n + 1 : f[m] \in 1..n /\ existing[f[m]].code = <<type, m>>
    BY <1>3, <2>1
  <2>3. f \in [1..n + 1 -> 1..n]
    BY <2>2
  <2>4. IsFiniteSet(1..n + 1) /\ Cardinality(1..n + 1) = n + 1
    BY FS_Interval
  <2>5. IsFiniteSet(1..n) /\ Cardinality(1..n) = n
    BY FS_Interval
  <2> HIDE DEF f
  <2>6. PICK x \in 1..n + 1, y \in 1..n + 1 : x # y /\ f[x] = f[y]
    BY <2>3, <2>4, <2>5, FS_PigeonHole
  <2>7. <<type, x>> = <<type, y>>
    BY <2>2, <2>6
  <2> QED BY <2>6, <2>7
<1> DEFINE S == {k \in Nat : \E m \in 1..k : <<type, m>> \notin codes}
<1>5. PICK k \in Nat : k \notin S /\ k + 1 \in S
  <2>0. n + 1 \in S
    BY <1>4
  <2>1. 0 \notin S
    <3>1. \A m \in 1..0 : FALSE
      OBVIOUS
    <3> QED BY <3>1
  <2>2. S \subseteq Nat /\ S # {}
    BY <2>0
  <2> QED BY <2>1, <2>2, LeastOfBad
<1>6. <<type, k + 1>> \notin codes /\ \A m \in 1..k : <<type, m>> \in codes
  BY <1>5
<1>7. k + 1 \in 1..n + 1
  BY <1>4, <1>6
<1>8. /\ k + 1 \in 1..(Len(existing) + 1) /\ <<type, k + 1>> \notin Codes(existing)
      /\ \A m \in 1..((k + 1) - 1) : <<type, m>> \in Codes(existing)
  BY <1>1, <1>2, <1>6, <1>7
<1>9. \E l \in 1..(Len(existing) + 1) : /\ <<type, l>> \notin Codes(existing)
                                        /\ \A m \in 1..(l - 1) : <<type, m>> \in Codes(existing)
  BY Zenon, <1>8
<1>10. PICK m0 : m0 = CHOOSE l \in 1..(Len(existing) + 1) :
                      /\ <<type, l>> \notin Codes(existing)
                      /\ \A m \in 1..(l - 1) : <<type, m>> \in Codes(existing)
  OBVIOUS
<1>11. <<type, m0>> \notin Codes(existing)
  BY Zenon, <1>9, <1>10
<1>12. NewCode(type, existing) = <<type, m0>>
  BY Zenon, <1>10 DEF NewCode
<1> QED BY <1>11, <1>12

(* A question more at the end of one block, with a code of its own.          *)
LEMMA OneMore ==
  ASSUME NEW doc, Sound(doc), NEW b \in DOMAIN doc.blocks, NEW q, IsQuestion(q),
         q.code \notin {x.code : x \in Asked(doc)},
         NEW new, new = [doc EXCEPT !.blocks[b].questions = Append(doc.blocks[b].questions, q)]
  PROVE  Sound(new)
<1>1. Shaped(doc)
  BY SoundShaped
<1>2. PICK s, t : s = doc.blocks[b].questions /\ t = Append(s, q)
  OBVIOUS
<1>3. IsList(s)
  BY <1>1, <1>2 DEF Shaped
<1>4. PICK n \in Nat : n = Len(s) /\ DOMAIN s = 1..n
  BY <1>3, ListDomain
<1>5. IsList(t) /\ Len(t) = n + 1 /\ (\A k \in 1..n : t[k] = s[k]) /\ t[n + 1] = q
  <2>1. IsList(Append(s, q)) /\ Len(Append(s, q)) = Len(s) + 1
        /\ (\A k \in 1..Len(s) : Append(s, q)[k] = s[k]) /\ Append(s, q)[Len(s) + 1] = q
    BY <1>3, Appended
  <2> QED BY <1>2, <1>4, <2>1
<1>6. DOMAIN t = 1..n + 1 /\ \A k \in 1..n + 1 : (k \in 1..n /\ t[k] = s[k]) \/ (k = n + 1 /\ t[k] = q)
  BY <1>5, ListDomain
<1> DEFINE block == [doc.blocks[b] EXCEPT !.questions = t]
<1>7. new.blocks = [doc.blocks EXCEPT ![b] = block] /\ DOMAIN new = DOMAIN doc /\ new.title = doc.title
  BY <1>1, <1>2 DEF Shaped
<1>8. DOMAIN block = {"visibleIf", "questions"} /\ block.questions = t
  BY <1>1 DEF Shaped
<1> HIDE DEF block
<1>9. PICK all, rest : all = doc.blocks /\ rest = [all EXCEPT ![b] = block]
  OBVIOUS
<1>10. IsList(all) /\ all # <<>>
  BY <1>1, <1>9 DEF Shaped
<1>11. IsList(rest) /\ DOMAIN rest = DOMAIN all /\ \A k \in DOMAIN all : rest[k] = IF k = b THEN block ELSE all[k]
  BY <1>9, <1>10, Put
<1>12. rest # <<>>
  BY <1>10, <1>11, PutNotEmpty
<1>13. new.blocks = rest
  BY <1>7, <1>9
<1>14. \A c \in DOMAIN all : DOMAIN rest[c] = {"visibleIf", "questions"}
                             /\ rest[c].questions = IF c = b THEN t ELSE all[c].questions
  BY <1>1, <1>8, <1>9, <1>11 DEF Shaped
<1>15. \A c \in DOMAIN all : IsList(rest[c].questions)
  BY <1>1, <1>5, <1>9, <1>14 DEF Shaped
<1>16. \A c \in DOMAIN all : \A i \in DOMAIN rest[c].questions :
          \/ i \in DOMAIN all[c].questions /\ rest[c].questions[i] = all[c].questions[i]
          \/ c = b /\ i = n + 1 /\ rest[c].questions[i] = q
  <2> TAKE c \in DOMAIN all
  <2> TAKE i \in DOMAIN rest[c].questions
  <2>1. CASE c = b
    <3>1. rest[c].questions = t /\ all[c].questions = s
      BY <2>1, <1>2, <1>9, <1>14
    <3>2. i \in 1..n + 1
      BY <3>1, <1>6
    <3>3. (i \in 1..n /\ t[i] = s[i]) \/ (i = n + 1 /\ t[i] = q)
      BY <3>2, <1>6
    <3> QED BY <2>1, <3>1, <3>3, <1>4
  <2>2. CASE c # b
    BY <2>2, <1>14
  <2> QED BY <2>1, <2>2
<1>17. \A c \in DOMAIN all : \A i \in DOMAIN all[c].questions :
          IsQuestion(all[c].questions[i]) /\ all[c].questions[i].code # q.code
  <2> TAKE c \in DOMAIN all
  <2> TAKE i \in DOMAIN all[c].questions
  <2>1. all[c].questions[i] \in Asked(doc)
    BY <1>9, AskedIs
  <2> QED BY <2>1, AskedOK
<1>18. IsDocument(new)
  <2>1. \A c \in DOMAIN rest : \A i \in DOMAIN rest[c].questions : IsQuestion(rest[c].questions[i])
    BY <1>11, <1>16, <1>17
  <2>2. DOMAIN new = {"title", "look", "blocks"} /\ new.title \in Looks \cup {""}
    BY <1>1, <1>7 DEF Shaped
  <2>3. \A c \in DOMAIN rest : DOMAIN rest[c] = {"visibleIf", "questions"} /\ IsList(rest[c].questions)
    BY <1>11, <1>14, <1>15
  <2>4. IsList(new.blocks) /\ new.blocks # <<>>
    BY <1>11, <1>12, <1>13
  <2>5. \A c \in DOMAIN new.blocks :
          /\ DOMAIN new.blocks[c] = {"visibleIf", "questions"} /\ IsList(new.blocks[c].questions)
          /\ \A i \in DOMAIN new.blocks[c].questions : IsQuestion(new.blocks[c].questions[i])
    BY <1>13, <2>1, <2>3
  <2> QED BY <2>2, <2>4, <2>5 DEF IsDocument
<1>19. ASSUME NEW c \in DOMAIN rest, NEW d \in DOMAIN rest,
              NEW i \in DOMAIN rest[c].questions, NEW j \in DOMAIN rest[d].questions,
              rest[c].questions[i].code = rest[d].questions[j].code
       PROVE  c = d /\ i = j
  <2>1. c \in DOMAIN all /\ d \in DOMAIN all
    BY <1>11
  <2>2. CASE /\ i \in DOMAIN all[c].questions /\ rest[c].questions[i] = all[c].questions[i]
             /\ j \in DOMAIN all[d].questions /\ rest[d].questions[j] = all[d].questions[j]
    <3>1. all[c].questions[i].code = all[d].questions[j].code
      BY <1>19, <2>2
    <3>2. Distinct(doc)
      BY DEF Sound
    <3> QED BY <1>9, <2>1, <2>2, <3>1, <3>2 DEF Distinct
  <2>3. CASE i \in DOMAIN all[c].questions /\ rest[c].questions[i] = all[c].questions[i]
             /\ rest[d].questions[j] = q
    BY <1>17, <1>19, <2>1, <2>3
  <2>4. CASE rest[c].questions[i] = q
             /\ j \in DOMAIN all[d].questions /\ rest[d].questions[j] = all[d].questions[j]
    BY <1>17, <1>19, <2>1, <2>4
  <2>5. CASE c = b /\ i = n + 1 /\ d = b /\ j = n + 1
    BY <2>5
  <2> QED BY <1>16, <2>1, <2>2, <2>3, <2>4, <2>5
<1>20. Distinct(new)
  <2>1. \A c, d \in DOMAIN rest :
           \A i \in DOMAIN rest[c].questions, j \in DOMAIN rest[d].questions :
              rest[c].questions[i].code = rest[d].questions[j].code => c = d /\ i = j
    BY Zenon, <1>19
  <2>2. SUFFICES ASSUME NEW c \in DOMAIN new.blocks, NEW d \in DOMAIN new.blocks,
                        NEW i \in DOMAIN new.blocks[c].questions, NEW j \in DOMAIN new.blocks[d].questions,
                        new.blocks[c].questions[i].code = new.blocks[d].questions[j].code
                 PROVE  c = d /\ i = j
    BY DEF Distinct
  <2>3. /\ c \in DOMAIN rest /\ d \in DOMAIN rest
        /\ i \in DOMAIN rest[c].questions /\ j \in DOMAIN rest[d].questions
        /\ rest[c].questions[i].code = rest[d].questions[j].code
    BY Zenon, <1>13, <2>2
  <2> QED BY Zenon, <2>1, <2>3
<1> QED BY <1>18, <1>20 DEF Sound

LEMMA AddQuestionKept ==
  ASSUME NEW doc, Sound(doc), NEW blocks, blocks \subseteq DOMAIN doc.blocks,
         NEW new \in AddQuestion(doc, blocks)
  PROVE  Sound(new)
<1>1. PICK b \in blocks, type \in Types :
         new = [doc EXCEPT !.blocks[b].questions =
                  Append(doc.blocks[b].questions, MakeQuestion(type, Questions(doc)))]
  BY DEF AddQuestion
<1>2. PICK q : q = MakeQuestion(type, Questions(doc))
  OBVIOUS
<1>3. IsDocument(doc)
  BY DEF Sound
<1>4. q.code \notin {x.code : x \in Asked(doc)}
  <2>1. q.code = NewCode(type, Questions(doc))
    BY <1>2 DEF MakeQuestion
  <2> QED BY <1>3, <2>1, AllAsked, NewCodeIsNew
<1>5. IsQuestion(q)
  <2>1. DOMAIN q = {"code", "type", "look", "visibleIf", "branches", "stimuli", "prototype"}
        /\ q.stimuli = NoList /\ q.prototype = EmptyConfig
    BY <1>2 DEF MakeQuestion
  <2> QED BY <2>1, NoListShort, BoundAssumption DEF IsQuestion, EmptyConfig
<1> QED BY <1>1, <1>2, <1>4, <1>5, OneMore
-----------------------------------------------------------------------------
(* Two questions that change places, in one block or across two.             *)
LEMMA Swapped ==
  ASSUME NEW doc, Sound(doc), NEW new, Shaped(new), DOMAIN new.blocks = DOMAIN doc.blocks,
         NEW a \in DOMAIN doc.blocks, NEW x \in DOMAIN doc.blocks[a].questions,
         NEW c \in DOMAIN doc.blocks, NEW y \in DOMAIN doc.blocks[c].questions,
         ~(a = c /\ x = y),
         \A b \in DOMAIN doc.blocks :
            /\ DOMAIN new.blocks[b].questions = DOMAIN doc.blocks[b].questions
            /\ \A i \in DOMAIN doc.blocks[b].questions :
                  new.blocks[b].questions[i] =
                     IF b = a /\ i = x THEN doc.blocks[c].questions[y]
                     ELSE IF b = c /\ i = y THEN doc.blocks[a].questions[x]
                     ELSE doc.blocks[b].questions[i]
  PROVE  Sound(new)
<1> DEFINE at == [b \in DOMAIN new.blocks |-> [i \in DOMAIN new.blocks[b].questions |->
                    IF b = a /\ i = x THEN c ELSE IF b = c /\ i = y THEN a ELSE b]]
           place == [b \in DOMAIN new.blocks |-> [i \in DOMAIN new.blocks[b].questions |->
                    IF b = a /\ i = x THEN y ELSE IF b = c /\ i = y THEN x ELSE i]]
<1>1. \A b \in DOMAIN new.blocks : \A i \in DOMAIN new.blocks[b].questions :
         /\ at[b][i] = IF b = a /\ i = x THEN c ELSE IF b = c /\ i = y THEN a ELSE b
         /\ place[b][i] = IF b = a /\ i = x THEN y ELSE IF b = c /\ i = y THEN x ELSE i
  OBVIOUS
<1> HIDE DEF at, place
<1>2. ASSUME NEW b \in DOMAIN new.blocks, NEW i \in DOMAIN new.blocks[b].questions
      PROVE  /\ at[b][i] \in DOMAIN doc.blocks
             /\ place[b][i] \in DOMAIN doc.blocks[at[b][i]].questions
             /\ new.blocks[b].questions[i] = doc.blocks[at[b][i]].questions[place[b][i]]
  <2>1. b \in DOMAIN doc.blocks /\ i \in DOMAIN doc.blocks[b].questions
    OBVIOUS
  <2>2. CASE b = a /\ i = x
    BY <1>1, <2>1, <2>2
  <2>3. CASE ~(b = a /\ i = x) /\ b = c /\ i = y
    BY <1>1, <2>1, <2>3
  <2>4. CASE ~(b = a /\ i = x) /\ ~(b = c /\ i = y)
    BY <1>1, <2>1, <2>4
  <2> QED BY <2>2, <2>3, <2>4
<1>3. ASSUME NEW b \in DOMAIN new.blocks, NEW d \in DOMAIN new.blocks,
             NEW i \in DOMAIN new.blocks[b].questions, NEW j \in DOMAIN new.blocks[d].questions,
             at[b][i] = at[d][j], place[b][i] = place[d][j]
      PROVE  b = d /\ i = j
  BY <1>1, <1>3
<1>4. CameFrom(doc, new, at, place)
  BY <1>2, <1>3 DEF CameFrom
<1> QED BY <1>4, Rearranged

(* A question put in one place of one block.                                 *)
HasPut(doc, a, x, q, new) ==
  /\ Shaped(new) /\ DOMAIN new.blocks = DOMAIN doc.blocks
  /\ \A b \in DOMAIN doc.blocks :
        /\ DOMAIN new.blocks[b].questions = DOMAIN doc.blocks[b].questions
        /\ \A i \in DOMAIN doc.blocks[b].questions :
              new.blocks[b].questions[i] = IF b = a /\ i = x THEN q ELSE doc.blocks[b].questions[i]

LEMMA PutQuestion ==
  ASSUME NEW doc, Shaped(doc), NEW a, NEW x, NEW q,
         NEW new, new = [doc EXCEPT !.blocks[a].questions[x] = q]
  PROVE  HasPut(doc, a, x, q, new)
<1>1. PICK s : s = doc.blocks[a].questions
  OBVIOUS
<1>2. PICK t : t = [s EXCEPT ![x] = q]
  OBVIOUS
<1>3. PICK block : block = [doc.blocks[a] EXCEPT !.questions = t]
  OBVIOUS
<1>4. PICK all : all = doc.blocks
  OBVIOUS
<1>5. PICK rest : rest = [all EXCEPT ![a] = block]
  OBVIOUS
<1>6. new.blocks = rest /\ DOMAIN new = DOMAIN doc /\ new.title = doc.title
  BY <1>1, <1>2, <1>3, <1>4, <1>5 DEF Shaped
<1>7. IsList(all) /\ all # <<>>
  BY <1>4 DEF Shaped
<1>8. IsList(rest) /\ DOMAIN rest = DOMAIN all /\ \A k \in DOMAIN all : rest[k] = IF k = a THEN block ELSE all[k]
  BY <1>5, <1>7, Put
<1>9. rest # <<>>
  BY <1>7, <1>8, PutNotEmpty
<1>10. ASSUME NEW b \in DOMAIN all
       PROVE  /\ DOMAIN rest[b] = {"visibleIf", "questions"} /\ IsList(rest[b].questions)
              /\ DOMAIN rest[b].questions = DOMAIN all[b].questions
              /\ \A i \in DOMAIN all[b].questions :
                    rest[b].questions[i] = IF b = a /\ i = x THEN q ELSE all[b].questions[i]
  <2>1. DOMAIN all[b] = {"visibleIf", "questions"} /\ IsList(all[b].questions)
    BY <1>4 DEF Shaped
  <2>2. CASE b # a
    BY <1>8, <2>1, <2>2
  <2>3. CASE b = a
    <3>1. IsList(s) /\ s = all[b].questions
      BY <1>1, <1>4, <2>1, <2>3
    <3>2. IsList(t) /\ DOMAIN t = DOMAIN s /\ \A k \in DOMAIN s : t[k] = IF k = x THEN q ELSE s[k]
      BY <1>2, <3>1, Put
    <3>3. rest[b] = block /\ DOMAIN block = {"visibleIf", "questions"} /\ block.questions = t
      BY <1>3, <1>4, <1>8, <2>1, <2>3
    <3> QED BY <2>3, <3>1, <3>2, <3>3
  <2> QED BY <2>2, <2>3
<1>11. DOMAIN new = {"title", "look", "blocks"} /\ new.title \in Looks \cup {""}
  BY <1>6 DEF Shaped
<1>12. Shaped(new)
  BY <1>6, <1>8, <1>9, <1>10, <1>11 DEF Shaped
<1> QED BY <1>4, <1>6, <1>8, <1>10, <1>12 DEF HasPut

(* The first put and then the second: the two have changed places.           *)
LEMMA PutTwice ==
  ASSUME NEW doc, Sound(doc), NEW mid, NEW new,
         NEW a \in DOMAIN doc.blocks, NEW x \in DOMAIN doc.blocks[a].questions,
         NEW c \in DOMAIN doc.blocks, NEW y \in DOMAIN doc.blocks[c].questions, ~(a = c /\ x = y),
         HasPut(doc, a, x, doc.blocks[c].questions[y], mid),
         HasPut(mid, c, y, doc.blocks[a].questions[x], new)
  PROVE  Sound(new)
<1>1. \A b \in DOMAIN doc.blocks :
            /\ DOMAIN new.blocks[b].questions = DOMAIN doc.blocks[b].questions
            /\ \A k \in DOMAIN doc.blocks[b].questions :
                  new.blocks[b].questions[k] =
                     IF b = a /\ k = x THEN doc.blocks[c].questions[y]
                     ELSE IF b = c /\ k = y THEN doc.blocks[a].questions[x]
                     ELSE doc.blocks[b].questions[k]
  BY DEF HasPut
<1>2. Shaped(new) /\ DOMAIN new.blocks = DOMAIN doc.blocks
  BY DEF HasPut
<1> QED BY <1>1, <1>2, Swapped

LEMMA MoveAcrossKept == ASSUME NEW doc, Sound(doc), NEW new \in MoveAcross(doc) PROVE Sound(new)
<1>1. PICK n \in Nat : LaidOut(doc, n, Questions(doc), Places(doc))
  BY Layout DEF Sound
<1>2. PICK p, all : p = Places(doc) /\ all = Questions(doc)
  OBVIOUS
<1>3. LaidOut(doc, n, all, p)
  BY Zenon, <1>1, <1>2
<1>4. PICK i \in 1..(Len(p) - 1) :
         new = [doc EXCEPT !.blocks[p[i][1]].questions[p[i][2]] = all[i + 1],
                           !.blocks[p[i + 1][1]].questions[p[i + 1][2]] = all[i]]
  BY <1>2 DEF MoveAcross
<1>5. i \in 1..n /\ i + 1 \in 1..n /\ i # i + 1
  <2>1. Len(p) = n
    BY <1>3 DEF LaidOut
  <2> QED BY <1>4, <2>1
<1>6. PICK a, x, c, y : a = p[i][1] /\ x = p[i][2] /\ c = p[i + 1][1] /\ y = p[i + 1][2]
  OBVIOUS
<1>7. /\ a \in DOMAIN doc.blocks /\ x \in DOMAIN doc.blocks[a].questions
      /\ c \in DOMAIN doc.blocks /\ y \in DOMAIN doc.blocks[c].questions
      /\ all[i] = doc.blocks[a].questions[x] /\ all[i + 1] = doc.blocks[c].questions[y]
      /\ p[i] = <<a, x>> /\ p[i + 1] = <<c, y>>
  BY <1>3, <1>5, <1>6 DEF LaidOut
<1>8. ~(a = c /\ x = y)
  <2>1. Once(n, p)
    BY <1>3 DEF LaidOut
  <2>2. p[i] # p[i + 1]
    BY <1>5, <2>1 DEF Once
  <2> QED BY <1>7, <2>2
<1>9. PICK mid : mid = [doc EXCEPT !.blocks[a].questions[x] = all[i + 1]]
  OBVIOUS
<1>10. new = [mid EXCEPT !.blocks[c].questions[y] = all[i]]
  BY <1>4, <1>6, <1>9
<1>11. HasPut(doc, a, x, all[i + 1], mid)
  BY <1>9, SoundShaped, PutQuestion
<1>12. Shaped(mid)
  BY <1>11 DEF HasPut
<1>13. HasPut(mid, c, y, all[i], new)
  BY <1>10, <1>12, PutQuestion
<1> QED BY <1>7, <1>8, <1>11, <1>13, PutTwice

LEMMA MoveQuestionKept == ASSUME NEW doc, Sound(doc), NEW new \in MoveQuestion(doc) PROVE Sound(new)
<1>1. PICK n \in Nat : LaidOut(doc, n, Questions(doc), Places(doc))
  BY Layout DEF Sound
<1>2. PICK r \in ToSet(Places(doc)) :
        /\ r[2] < Len(doc.blocks[r[1]].questions)
        /\ new = [doc EXCEPT !.blocks[r[1]].questions =
                   [doc.blocks[r[1]].questions EXCEPT
                       ![r[2]] = doc.blocks[r[1]].questions[r[2] + 1],
                       ![r[2] + 1] = doc.blocks[r[1]].questions[r[2]]]]
  BY DEF MoveQuestion
<1>3. PICK a, x : a = r[1] /\ x = r[2]
  OBVIOUS
<1>4. a \in DOMAIN doc.blocks /\ x \in DOMAIN doc.blocks[a].questions
  <2>1. PICK p : p = Places(doc)
    OBVIOUS
  <2>2. DOMAIN p = 1..n
    BY <1>1, <2>1, ListDomain DEF LaidOut
  <2>3. PICK k \in 1..n : r = p[k]
    BY <2>1, <2>2 DEF ToSet
  <2> QED BY <1>1, <1>3, <2>1, <2>3 DEF LaidOut
<1>5. PICK s : s = doc.blocks[a].questions
  OBVIOUS
<1>6. IsList(s)
  BY <1>4, <1>5, SoundLists
<1>7. x + 1 \in DOMAIN s /\ x # x + 1
  BY <1>2, <1>3, <1>4, <1>5, <1>6, ListDomain
<1>8. new = [doc EXCEPT !.blocks[a].questions = [s EXCEPT ![x] = s[x + 1], ![x + 1] = s[x]]]
  BY <1>2, <1>3, <1>5
<1>9. PICK mid : mid = [doc EXCEPT !.blocks[a].questions[x] = s[x + 1]]
  OBVIOUS
<1>10. new = [mid EXCEPT !.blocks[a].questions[x + 1] = s[x]]
  <2>1. [s EXCEPT ![x] = s[x + 1], ![x + 1] = s[x]] = [[s EXCEPT ![x] = s[x + 1]] EXCEPT ![x + 1] = s[x]]
    OBVIOUS
  <2>2. PICK t : t = [s EXCEPT ![x] = s[x + 1]]
    OBVIOUS
  <2>3. DOMAIN doc = {"title", "look", "blocks"} /\ DOMAIN doc.blocks[a] = {"visibleIf", "questions"}
    BY <1>4, SoundShaped DEF Shaped
  <2>4. mid = [doc EXCEPT !.blocks[a].questions = t]
    BY <1>5, <1>9, <2>2
  <2>5. mid.blocks[a].questions = t
    BY <1>4, <2>3, <2>4
  <2>6. [mid EXCEPT !.blocks[a].questions[x + 1] = s[x]] = [mid EXCEPT !.blocks[a].questions = [t EXCEPT ![x + 1] = s[x]]]
    BY <2>5
  <2>7. [mid EXCEPT !.blocks[a].questions = [t EXCEPT ![x + 1] = s[x]]]
          = [doc EXCEPT !.blocks[a].questions = [t EXCEPT ![x + 1] = s[x]]]
    BY <1>4, <2>3, <2>4
  <2> QED BY <1>8, <2>1, <2>2, <2>6, <2>7
<1>11. HasPut(doc, a, x, s[x + 1], mid)
  BY <1>9, SoundShaped, PutQuestion
<1>12. Shaped(mid)
  BY <1>11 DEF HasPut
<1>13. HasPut(mid, a, x + 1, s[x], new)
  BY <1>10, <1>12, PutQuestion
<1>14. PICK y : y = x + 1
  OBVIOUS
<1>15. y \in DOMAIN doc.blocks[a].questions /\ ~(a = a /\ x = y)
       /\ HasPut(doc, a, x, doc.blocks[a].questions[y], mid) /\ HasPut(mid, a, y, doc.blocks[a].questions[x], new)
  BY <1>5, <1>7, <1>11, <1>13, <1>14
<1> QED BY <1>4, <1>15, PutTwice
-----------------------------------------------------------------------------
LEMMA ModernKept == ASSUME NEW doc, Sound(doc), NEW new \in ModernEdits(doc) PROVE Sound(new)
<1>1. CASE new \in StudySection(doc)
  <2>1. CASE new \in AddQuestion(doc, DOMAIN doc.blocks)
    BY <2>1, AddQuestionKept
  <2> QED BY <1>1, <2>1, SectionLogicKept, MoveQuestionKept, RemoveQuestionKept, RemoveBlockKept DEF StudySection
<1>2. CASE new \in QuestionCard(doc)
  BY <1>2, TextsKept, TypeKept, LogicKept, StimulusKept, PrototypeKept DEF QuestionCard, Kept
<1>3. CASE new \in EditTitle(doc) \/ new \in EditMessages(doc) \/ new \in AddBlock(doc)
  BY <1>3, TitleKept, MessagesKept, AddBlockKept
<1> QED BY <1>1, <1>2, <1>3 DEF ModernEdits

LEMMA LegacyKept == ASSUME NEW doc, Sound(doc), NEW new \in LegacyEdits(doc) PROVE Sound(new)
<1>1. CASE new \in AddQuestion(doc, {Len(doc.blocks)})
  <2>1. Shaped(doc)
    BY SoundShaped
  <2>2. Len(doc.blocks) \in DOMAIN doc.blocks
    <3>1. IsList(doc.blocks) /\ doc.blocks # <<>>
      BY <2>1 DEF Shaped
    <3>2. PICK n \in Nat \ {0} : n = Len(doc.blocks) /\ DOMAIN doc.blocks = 1..n
      BY <3>1, NotEmpty, ListDomain
    <3> QED BY <3>2
  <2> QED BY <1>1, <2>2, AddQuestionKept
<1>2. CASE new \in LegacyQuestionEditor(doc)
  BY <1>2, TextsKept, LogicKept, BranchesKept, StimulusKept DEF LegacyQuestionEditor, Kept
<1>3. CASE new \in EditMessages(doc) \/ new \in MoveAcross(doc) \/ new \in RemoveQuestion(doc)
  BY <1>3, MessagesKept, MoveAcrossKept, RemoveQuestionKept
<1> QED BY <1>1, <1>2, <1>3 DEF LegacyEdits
-----------------------------------------------------------------------------
(* An answer that comes late: what it may put into the document it meets.    *)
JobOK(j) ==
  /\ j.tab \in Tabs /\ j.kind \in {"upload", "screenshot", "sync"}
  /\ j.kind = "upload" => /\ IsList(j.base) /\ Len(j.base) <= MaxStimuli
                          /\ j.slot \in 1..Len(j.base) + 1 /\ j.slot <= MaxStimuli
  /\ j.kind \in {"screenshot", "sync"} => DOMAIN EmptyConfig \subseteq DOMAIN j.config
  /\ j.kind = "screenshot" => j.config.version \in {NoFile, j.config.file}

LEMMA ImagesFit ==
  ASSUME NEW j, JobOK(j), j.kind = "upload"
  PROVE  IsList(WithImage(j)) /\ Len(List(WithImage(j))) <= MaxStimuli
<1>1. PICK s : s = j.base
  OBVIOUS
<1>2. IsList(s) /\ Len(s) <= MaxStimuli /\ j.slot \in 1..Len(s) + 1 /\ j.slot <= MaxStimuli
  BY <1>1 DEF JobOK
<1>3. Len(s) \in Nat /\ DOMAIN s = 1..Len(s) /\ MaxStimuli \in Nat
  BY <1>2, ListDomain, BoundAssumption
<1>4. PICK t : t = WithImage(j)
  OBVIOUS
<1>5. IsList(t) /\ Len(t) <= MaxStimuli
  <2>1. CASE j.slot > Len(s)
    <3>1. t = Append(s, j.asset)
      BY <1>1, <1>4, <2>1 DEF WithImage
    <3>2. IsList(Append(s, j.asset)) /\ Len(Append(s, j.asset)) = Len(s) + 1
      BY <1>2, Appended
    <3>3. Len(s) + 1 <= MaxStimuli
      BY <1>2, <1>3, <2>1
    <3> QED BY <3>1, <3>2, <3>3
  <2>2. CASE ~(j.slot > Len(s))
    <3>1. t = [s EXCEPT ![j.slot] = j.asset]
      BY <1>1, <1>4, <2>2 DEF WithImage
    <3>2. IsList(t) /\ DOMAIN t = DOMAIN s
      BY <1>2, <3>1, Put
    <3>3. Len(t) \in Nat /\ DOMAIN t = 1..Len(t)
      BY <3>2, ListDomain
    <3>4. Len(t) = Len(s)
      BY <1>3, <3>2, <3>3
    <3> QED BY <1>2, <3>2, <3>4
  <2> QED BY <2>1, <2>2
<1>6. Len(List(t)) <= MaxStimuli
  BY <1>3, <1>5, NoListShort DEF List
<1> QED BY <1>4, <1>5, <1>6

LEMMA UploadedKept ==
  ASSUME NEW doc, Sound(doc), NEW j, JobOK(j), j.kind = "upload",
         NEW new, new = UpdateQuestion(doc, j.code, [q \in Asked(doc) |-> [q EXCEPT !.stimuli = WithImage(j)]])
  PROVE  Sound(new)
<1>1. PICK images : images = WithImage(j)
  OBVIOUS
<1>2. IsList(images) /\ Len(List(images)) <= MaxStimuli
  BY <1>1, ImagesFit
<1> DEFINE patched == [q \in Asked(doc) |-> [q EXCEPT !.stimuli = images]]
<1>3. \A q \in Asked(doc) : IsQuestion(patched[q]) /\ patched[q].code = q.code
  BY <1>2, AskedOK DEF IsQuestion
<1>4. new = UpdateQuestion(doc, j.code, patched)
  BY <1>1
<1> HIDE DEF patched
<1> QED BY <1>3, <1>4, Updated DEF Kept

LEMMA PrototypeSound ==
  ASSUME NEW doc, Sound(doc), NEW code, NEW config,
         \A q \in Asked(doc) : DOMAIN EmptyConfig \subseteq DOMAIN config[q]
                               /\ config[q].version \in {NoFile, config[q].file},
         NEW new, new = UpdateQuestion(doc, code, [q \in Asked(doc) |-> [q EXCEPT !.prototype = config[q]]])
  PROVE  Sound(new)
<1> DEFINE patched == [q \in Asked(doc) |-> [q EXCEPT !.prototype = config[q]]]
<1>1. \A q \in Asked(doc) : IsQuestion(patched[q]) /\ patched[q].code = q.code
  BY AskedOK DEF IsQuestion
<1>2. new = UpdateQuestion(doc, code, patched)
  OBVIOUS
<1> HIDE DEF patched
<1> QED BY <1>1, <1>2, Updated DEF Kept

LEMMA SyncedKept ==
  ASSUME NEW doc, Sound(doc), NEW j, JobOK(j), j.kind = "sync",
         NEW new, new = UpdateQuestion(doc, j.code, [q \in Asked(doc) |-> [q EXCEPT !.prototype = WithFrames(j.config)]])
  PROVE  Sound(new)
<1>1. PICK c : c = WithFrames(j.config)
  OBVIOUS
<1>2. DOMAIN EmptyConfig \subseteq DOMAIN c /\ c.version = c.file
  BY <1>1 DEF WithFrames, JobOK, EmptyConfig
<1> DEFINE config == [q \in Asked(doc) |-> c]
<1>3. \A q \in Asked(doc) : config[q] = c
  OBVIOUS
<1>4. [q \in Asked(doc) |-> [q EXCEPT !.prototype = WithFrames(j.config)]]
        = [q \in Asked(doc) |-> [q EXCEPT !.prototype = config[q]]]
  BY <1>1, <1>3
<1>5. new = UpdateQuestion(doc, j.code, [q \in Asked(doc) |-> [q EXCEPT !.prototype = config[q]]])
  BY <1>4
<1>6. \A q \in Asked(doc) : DOMAIN EmptyConfig \subseteq DOMAIN config[q]
                               /\ config[q].version \in {NoFile, config[q].file}
  BY <1>2, <1>3
<1> HIDE DEF config
<1> QED BY <1>5, <1>6, PrototypeSound

LEMMA IllustratedKept ==
  ASSUME NEW doc, Sound(doc), NEW j, JobOK(j), j.kind = "screenshot",
         NEW new, new = UpdateQuestion(doc, j.code, [q \in Asked(doc) |-> [q EXCEPT !.prototype = j.config]])
  PROVE  Sound(new)
<1>1. PICK c : c = j.config
  OBVIOUS
<1>2. DOMAIN EmptyConfig \subseteq DOMAIN c /\ c.version \in {NoFile, c.file}
  BY <1>1 DEF JobOK
<1> DEFINE config == [q \in Asked(doc) |-> c]
<1>3. \A q \in Asked(doc) : config[q] = c
  OBVIOUS
<1>4. [q \in Asked(doc) |-> [q EXCEPT !.prototype = j.config]]
        = [q \in Asked(doc) |-> [q EXCEPT !.prototype = config[q]]]
  BY <1>1, <1>3
<1>5. new = UpdateQuestion(doc, j.code, [q \in Asked(doc) |-> [q EXCEPT !.prototype = config[q]]])
  BY <1>4
<1>6. \A q \in Asked(doc) : DOMAIN EmptyConfig \subseteq DOMAIN config[q]
                               /\ config[q].version \in {NoFile, config[q].file}
  BY <1>2, <1>3
<1> HIDE DEF config
<1> QED BY <1>5, <1>6, PrototypeSound

LEMMA FrameKept ==
  ASSUME NEW doc, Sound(doc), NEW code, NEW picker,
         NEW new, new = UpdateQuestion(doc, code,
                          [x \in Asked(doc) |-> [x EXCEPT !.prototype = WithFrame(x.prototype, picker)]])
  PROVE  Sound(new)
<1> DEFINE config == [x \in Asked(doc) |-> WithFrame(x.prototype, picker)]
<1>1. \A q \in Asked(doc) : config[q] = WithFrame(q.prototype, picker)
  OBVIOUS
<1>2. [x \in Asked(doc) |-> [x EXCEPT !.prototype = WithFrame(x.prototype, picker)]]
        = [x \in Asked(doc) |-> [x EXCEPT !.prototype = config[x]]]
  BY <1>1
<1>3. new = UpdateQuestion(doc, code, [x \in Asked(doc) |-> [x EXCEPT !.prototype = config[x]]])
  BY <1>2
<1>4. ASSUME NEW q \in Asked(doc)
      PROVE  DOMAIN EmptyConfig \subseteq DOMAIN config[q] /\ config[q].version \in {NoFile, config[q].file}
  <2>1. DOMAIN EmptyConfig \subseteq DOMAIN q.prototype /\ q.prototype.version \in {NoFile, q.prototype.file}
    BY AskedOK DEF IsQuestion
  <2>2. PICK c : c = WithFrame(q.prototype, picker)
    OBVIOUS
  <2>3. DOMAIN c = DOMAIN q.prototype /\ c.version = q.prototype.version /\ c.file = q.prototype.file
    BY <2>1, <2>2 DEF WithFrame, EmptyConfig
  <2> QED BY <1>1, <2>1, <2>2, <2>3
<1> HIDE DEF config
<1> QED BY <1>3, <1>4, PrototypeSound
-----------------------------------------------------------------------------
(* What a page holds, and what the study stores.                             *)
SaveSound(t, save) ==
  save # NoSave => /\ save.stage \in {"sent", "stored", "refused"} /\ Sound(save.doc)
                   /\ Editor[t] = "modern" => save.doc.title # ""

PageSound(t, page) ==
  /\ Sound(page.doc) /\ page.dirty \in BOOLEAN /\ SaveSound(t, page.save)
  /\ page.picker # NoPicker => "target" \in DOMAIN page.picker /\ page.picker.target \in {"start", "goal"}

DraftSound == Sound(draft) /\ draft.title \in Looks /\ Parses(draft) /\ DisplayLogicWarnings(draft) = {}
PagesSound == \A t \in Tabs : PageSound(t, tab[t])
JobsSound == \A j \in jobs : JobOK(j)
CountsSound == editable \in BOOLEAN /\ work \in 0..MaxWork

BuilderInv == PagesInv /\ DraftSound /\ PagesSound /\ JobsSound /\ CountsSound

LEMMA OnePageSound ==
  ASSUME PagesInv, PagesSound, NEW t \in Tabs, NEW page, PageSound(t, page), tab' = [tab EXCEPT ![t] = page]
  PROVE  PagesSound'
<1>1. ASSUME NEW u \in Tabs PROVE PageSound(u, tab'[u])
  BY DEF PagesInv, PagesSound
<1>2. \A u \in Tabs : PageSound(u, tab[u])'
  BY <1>1 DEF PageSound, SaveSound, Sound, NoSave, NoPicker, IsDocument, IsQuestion, IsList, Distinct,
              List, NoList, NoFile, EmptyConfig, NoFrame
<1> QED BY <1>2 DEF PagesSound

LEMMA PageKept ==
  ASSUME PagesInv, NEW t \in Tabs PROVE {"doc", "dirty", "shared", "revision", "save", "picker"} \subseteq DOMAIN tab[t]
BY DEF PagesInv, PageInv, PageOK

LEMMA OpenedSound == ASSUME NEW t, NEW doc, Sound(doc) PROVE PageSound(t, Opened(doc))
BY DEF PageSound, SaveSound, Opened, NoSave, NoPicker

LEMMA MutatedSound ==
  ASSUME NEW t \in Tabs, PagesInv, PageSound(t, tab[t]), NEW doc, Sound(doc)
  PROVE  PageSound(t, Mutated(tab[t], doc))
<1>1. PICK new : new = Mutated(tab[t], doc)
  OBVIOUS
<1>2. new.doc = doc /\ new.dirty = TRUE /\ new.save = tab[t].save /\ new.picker = tab[t].picker
  BY <1>1, PageKept DEF Mutated
<1> QED BY <1>1, <1>2 DEF PageSound

LEMMA SameSave ==
  ASSUME NEW t \in Tabs, PagesInv, PageSound(t, tab[t]), NEW new,
         new.doc = tab[t].doc, new.dirty \in BOOLEAN, SaveSound(t, new.save), new.picker = tab[t].picker
  PROVE  PageSound(t, new)
BY DEF PageSound

LEMMA NewPicker ==
  ASSUME PagesInv, PagesSound, NEW t \in Tabs, NEW picker, tab' = [tab EXCEPT ![t].picker = picker],
         picker # NoPicker => "target" \in DOMAIN picker /\ picker.target \in {"start", "goal"}
  PROVE  PagesSound'
<1>1. PICK new : new = [tab[t] EXCEPT !.picker = picker]
  OBVIOUS
<1>2. new.doc = tab[t].doc /\ new.dirty = tab[t].dirty /\ new.save = tab[t].save /\ new.picker = picker
  BY <1>1, PageKept
<1>3. PageSound(t, new)
  BY <1>2 DEF PageSound, PagesSound
<1>4. tab' = [tab EXCEPT ![t] = new]
  BY <1>1 DEF PagesInv
<1> QED BY <1>3, <1>4, OnePageSound

LEMMA NewSave ==
  ASSUME PagesInv, PagesSound, NEW t \in Tabs, NEW save, tab' = [tab EXCEPT ![t].save = save], SaveSound(t, save)
  PROVE  PagesSound'
<1>1. PICK new : new = [tab[t] EXCEPT !.save = save]
  OBVIOUS
<1>2. new.doc = tab[t].doc /\ new.dirty = tab[t].dirty /\ new.save = save /\ new.picker = tab[t].picker
  BY <1>1, PageKept
<1>3. PageSound(t, new)
  BY <1>2 DEF PageSound, PagesSound
<1>4. tab' = [tab EXCEPT ![t] = new]
  BY <1>1 DEF PagesInv
<1> QED BY <1>3, <1>4, OnePageSound
-----------------------------------------------------------------------------
LEMMA InitSound == Init => BuilderInv
<1> SUFFICES ASSUME Init PROVE BuilderInv
  OBVIOUS
<1>1. DraftSound
  BY DocumentsAssumption DEF Init, DraftSound, Sound
<1>2. PagesSound
  BY <1>1, OpenedSound DEF Init, PagesSound, DraftSound
<1>3. JobsSound /\ CountsSound
  BY BoundAssumption DEF Init, JobsSound, CountsSound
<1> QED BY <1>1, <1>2, <1>3, InitPages DEF BuilderInv

LEMMA DraftStays == ASSUME DraftSound, draft' = draft PROVE DraftSound'
BY DEF DraftSound
LEMMA JobsStay == ASSUME JobsSound, jobs' \subseteq jobs PROVE JobsSound'
BY DEF JobsSound, JobOK, EmptyConfig, IsList, NoFile, NoFrame
LEMMA PagesStay == ASSUME PagesSound, tab' = tab PROVE PagesSound'
BY DEF PagesSound
LEMMA CountsStay == ASSUME CountsSound, editable' = editable, work' = work \/ Work PROVE CountsSound'
<1>1. CASE work' = work
  BY <1>1 DEF CountsSound
<1>2. CASE Work
  <2>1. work \in 0..MaxWork /\ work < MaxWork /\ work' = work + 1 /\ MaxWork \in Nat
    BY <1>2, BoundAssumption DEF Work, CountsSound
  <2>2. work' \in 0..MaxWork
    BY <2>1
  <2> QED BY <2>2 DEF CountsSound
<1> QED BY <1>1, <1>2
-----------------------------------------------------------------------------
Kept4 == DraftSound' /\ PagesSound' /\ JobsSound' /\ CountsSound'

LEMMA ReloadSound == ASSUME BuilderInv, NEW t \in Tabs, Reload(t) PROVE Kept4
<1>1. PageSound(t, Opened(draft)) /\ tab' = [tab EXCEPT ![t] = Opened(draft)]
  BY OpenedSound DEF BuilderInv, DraftSound, Reload
<1>2. PagesSound'
  BY <1>1, OnePageSound DEF BuilderInv
<1>3. jobs' \subseteq jobs /\ draft' = draft /\ editable' = editable /\ Work
  BY DEF Reload
<1> QED BY <1>2, <1>3, DraftStays, JobsStay, CountsStay DEF BuilderInv, Kept4

LEMMA EditSound == ASSUME BuilderInv, NEW t \in Tabs, Edit(t) PROVE Kept4
<1>1. Sound(tab[t].doc) /\ PageSound(t, tab[t]) /\ PagesInv
  BY DEF BuilderInv, PagesSound, PageSound
<1>2. PICK doc \in IF Editor[t] = "modern" THEN ModernEdits(tab[t].doc) ELSE LegacyEdits(tab[t].doc) :
         tab' = [tab EXCEPT ![t] = Mutated(tab[t], doc)]
  BY <1>1 DEF Edit, PagesInv
<1>3. Sound(doc)
  BY <1>1, <1>2, ModernKept, LegacyKept
<1>4. PageSound(t, Mutated(tab[t], doc))
  BY <1>1, <1>3, MutatedSound
<1>5. PagesSound'
  BY <1>2, <1>4, OnePageSound DEF BuilderInv
<1>6. jobs' = jobs /\ draft' = draft /\ editable' = editable /\ Work
  BY DEF Edit
<1> QED BY <1>5, <1>6, DraftStays, JobsStay, CountsStay DEF BuilderInv, Kept4

(* The modern page sends nothing without a name.                             *)
LEMMA SaveKeepsSound == ASSUME BuilderInv, NEW t \in Tabs, Save(t) PROVE Kept4
<1> DEFINE save == [stage |-> "sent", doc |-> tab[t].doc, revision |-> tab[t].revision]
<1>1. save.stage = "sent" /\ save.doc = tab[t].doc
  OBVIOUS
<1>2. tab' = [tab EXCEPT ![t].save = save]
  BY DEF Save
<1>3. Sound(tab[t].doc) /\ (Editor[t] = "modern" => tab[t].doc.title # "")
  BY DEF Save, BuilderInv, PagesSound, PageSound
<1> HIDE DEF save
<1>4. SaveSound(t, save)
  BY <1>1, <1>3 DEF SaveSound
<1>5. PagesSound'
  BY <1>2, <1>4, NewSave DEF BuilderInv
<1>6. jobs' = jobs /\ draft' = draft /\ editable' = editable /\ work' = work
  BY DEF Save
<1> QED BY <1>5, <1>6, DraftStays, JobsStay, CountsStay DEF BuilderInv, Kept4

LEMMA StageSound ==
  ASSUME PagesInv, PagesSound, NEW t \in Tabs, tab[t].save # NoSave,
         NEW stage \in {"stored", "refused"}, tab' = [tab EXCEPT ![t].save.stage = stage]
  PROVE  PagesSound'
<1>1. PICK save : save = [tab[t].save EXCEPT !.stage = stage]
  OBVIOUS
<1>2. save.stage = stage /\ save.doc = tab[t].save.doc
  BY <1>1 DEF PagesInv, PageInv, PageOK
<1>3. SaveSound(t, tab[t].save)
  BY DEF PagesSound, PageSound
<1>4. SaveSound(t, save)
  BY <1>2, <1>3 DEF SaveSound
<1>5. tab' = [tab EXCEPT ![t].save = save]
  BY <1>1, PageKept DEF PagesInv
<1> QED BY <1>4, <1>5, NewSave

(* What the server accepts is sound, and has a name: its own or the draft's. *)
LEMMA UpdateDraftSound == ASSUME BuilderInv, NEW t \in Tabs, UpdateDraft(t) PROVE Kept4
<1>1. tab[t].save # NoSave /\ jobs' = jobs /\ editable' = editable /\ work' = work
  BY DEF UpdateDraft, NoSave
<1>2. PICK doc : doc = tab[t].save.doc
  OBVIOUS
<1>3. Sound(doc) /\ (Editor[t] = "modern" => doc.title # "")
  BY <1>1, <1>2 DEF BuilderInv, PagesSound, PageSound, SaveSound
<1>4. CASE Accepts(doc)
  <2>1. /\ draft' = IF Editor[t] = "modern" THEN doc ELSE [doc EXCEPT !.title = draft.title]
        /\ tab' = [tab EXCEPT ![t].save.stage = "stored"]
    BY <1>2, <1>4 DEF UpdateDraft
  <2>2. PICK new : new = draft'
    OBVIOUS
  <2>3. Shaped(doc) /\ draft.title \in Looks
    BY <1>3, SoundShaped DEF BuilderInv, DraftSound
  <2>4. ASSUME Editor[t] = "modern" PROVE DraftSound'
    <3>1. new = doc
      BY <2>1, <2>2, <2>4
    <3>2. doc.title \in Looks
      BY <1>3, <2>3, <2>4 DEF Shaped
    <3> QED BY <1>3, <1>4, <2>2, <3>1, <3>2 DEF DraftSound, Accepts
  <2>5. ASSUME Editor[t] # "modern" PROVE DraftSound'
    <3>1. new = [doc EXCEPT !.title = draft.title]
      BY <2>1, <2>2, <2>5
    <3>2. DOMAIN new = DOMAIN doc /\ new.title = draft.title /\ new.blocks = doc.blocks
      BY <2>3, <3>1 DEF Shaped
    <3>3. Shaped(new)
      BY <2>3, <3>2 DEF Shaped
    <3>4. Sound(new)
      BY <1>3, <3>2, <3>3, Unmoved
    <3>5. Parses(new)
      BY <1>4, <3>2 DEF Accepts, Parses
    <3>6. DisplayLogicWarnings(new) = DisplayLogicWarnings(doc)
      BY <3>2 DEF DisplayLogicWarnings
    <3> QED BY <1>4, <2>2, <2>3, <3>2, <3>4, <3>5, <3>6 DEF DraftSound, Accepts
  <2>6. DraftSound'
    BY Zenon, <2>4, <2>5
  <2>7. PagesSound'
    BY <1>1, <2>1, StageSound DEF BuilderInv
  <2> QED BY <1>1, <2>6, <2>7, JobsStay, CountsStay DEF BuilderInv, Kept4
<1>5. CASE ~Accepts(doc)
  <2>1. tab' = [tab EXCEPT ![t].save.stage = "refused"] /\ draft' = draft
    BY <1>2, <1>5 DEF UpdateDraft
  <2>2. PagesSound'
    BY <1>1, <2>1, StageSound DEF BuilderInv
  <2> QED BY <1>1, <2>1, <2>2, DraftStays, JobsStay, CountsStay DEF BuilderInv, Kept4
<1> QED BY <1>4, <1>5

LEMMA ReplySound == ASSUME BuilderInv, NEW t \in Tabs, SaveReply(t) \/ SaveError(t) PROVE Kept4
<1>1. SaveSound(t, NoSave)
  BY DEF SaveSound
<1>2. CASE SaveReply(t)
  <2>1. PICK new : new = Confirmed(t)
    OBVIOUS
  <2>2. PageSound(t, tab[t]) /\ PagesInv /\ tab' = [tab EXCEPT ![t] = new]
    BY <1>2, <2>1 DEF BuilderInv, PagesSound, SaveReply
  <2>3. new.doc = tab[t].doc /\ new.dirty \in BOOLEAN /\ new.save = NoSave /\ new.picker = tab[t].picker
    BY <2>1, <2>2, PageKept DEF Confirmed
  <2>4. PageSound(t, new)
    BY <1>1, <2>2, <2>3, SameSave
  <2> QED BY <1>2, <2>2, <2>4, OnePageSound, DraftStays, JobsStay, CountsStay DEF SaveReply, BuilderInv, Kept4
<1>3. CASE SaveError(t)
  <2>1. PagesSound'
    BY <1>1, <1>3, NewSave DEF SaveError, BuilderInv
  <2> QED BY <1>3, <2>1, DraftStays, JobsStay, CountsStay DEF SaveError, BuilderInv, Kept4
<1> QED BY <1>2, <1>3

LEMMA StartSound ==
  ASSUME BuilderInv, NEW job, JobOK(job), Start(job) PROVE Kept4
<1>1. JobsSound'
  <2>1. \A j \in jobs' : JobOK(j)
    BY DEF Start, BuilderInv, JobsSound
  <2> QED BY <2>1 DEF JobsSound, JobOK, EmptyConfig, IsList, NoFile, NoFrame
<1> QED BY <1>1, DraftStays, PagesStay, CountsStay DEF Start, BuilderInv, Kept4

LEMMA UploadSound == ASSUME BuilderInv, NEW t \in Tabs, Upload(t) PROVE Kept4
<1>1. PICK q \in Shown(t, ImageType(Editor[t])) : \E slot \in 1..(Len(List(q.stimuli)) + 1) :
        /\ slot <= MaxStimuli
        /\ Start([kind |-> "upload", tab |-> t, code |-> q.code, slot |-> slot,
                  base |-> List(q.stimuli), asset |-> work + 1])
  BY DEF Upload
<1>2. PICK s : s = List(q.stimuli)
  OBVIOUS
<1>3. PICK slot \in 1..(Len(s) + 1) :
        /\ slot <= MaxStimuli
        /\ Start([kind |-> "upload", tab |-> t, code |-> q.code, slot |-> slot, base |-> s, asset |-> work + 1])
  BY <1>1, <1>2
<1>4. Sound(tab[t].doc) /\ q \in Asked(tab[t].doc)
  BY <1>1 DEF BuilderInv, PagesSound, PageSound, Shown
<1>5. IsList(s) /\ Len(s) <= MaxStimuli
  BY <1>2, <1>4, AskedOK, NoListShort DEF IsQuestion, List
<1>6. PICK job : job = [kind |-> "upload", tab |-> t, code |-> q.code, slot |-> slot, base |-> s, asset |-> work + 1]
  OBVIOUS
<1>7. JobOK(job)
  BY <1>3, <1>5, <1>6 DEF JobOK
<1> QED BY <1>3, <1>6, <1>7, StartSound

LEMMA SyncSound == ASSUME BuilderInv, NEW t \in Tabs, SyncFrames(t) PROVE Kept4
<1>1. PICK q \in Shown(t, "prototype_test") :
        Start([kind |-> "sync", tab |-> t, code |-> q.code, config |-> q.prototype])
  BY DEF SyncFrames
<1>2. Sound(tab[t].doc) /\ q \in Asked(tab[t].doc)
  BY <1>1 DEF BuilderInv, PagesSound, PageSound, Shown
<1>3. DOMAIN EmptyConfig \subseteq DOMAIN q.prototype
  BY <1>2, AskedOK DEF IsQuestion
<1>4. PICK job : job = [kind |-> "sync", tab |-> t, code |-> q.code, config |-> q.prototype]
  OBVIOUS
<1>5. JobOK(job)
  BY <1>3, <1>4 DEF JobOK
<1> QED BY <1>1, <1>4, <1>5, StartSound

LEMMA ScreenshotSound == ASSUME BuilderInv, NEW t \in Tabs, UploadScreenshot(t) PROVE Kept4
<1>1. PICK q \in Shown(t, "prototype_test") :
        Start([kind |-> "screenshot", tab |-> t, code |-> q.code, config |-> q.prototype])
  BY DEF UploadScreenshot
<1>2. Sound(tab[t].doc) /\ q \in Asked(tab[t].doc)
  BY <1>1 DEF BuilderInv, PagesSound, PageSound, Shown
<1>3. DOMAIN EmptyConfig \subseteq DOMAIN q.prototype /\ q.prototype.version \in {NoFile, q.prototype.file}
  BY <1>2, AskedOK DEF IsQuestion
<1>4. PICK job : job = [kind |-> "screenshot", tab |-> t, code |-> q.code, config |-> q.prototype]
  OBVIOUS
<1>5. JobOK(job)
  BY <1>3, <1>4 DEF JobOK
<1> QED BY <1>1, <1>4, <1>5, StartSound

LEMMA PickerSound ==
  ASSUME BuilderInv, NEW t \in Tabs, OpenPicker(t) \/ Present(t) \/ ClosePicker(t) PROVE Kept4
<1>1. CASE OpenPicker(t)
  <2>1. PICK q \in Shown(t, "prototype_test"), target \in {"start", "goal"} :
          tab' = [tab EXCEPT ![t].picker = [target |-> target, code |-> q.code, frame |-> q.prototype[target]]]
    BY <1>1 DEF OpenPicker
  <2>2. PICK picker : picker = [target |-> target, code |-> q.code, frame |-> q.prototype[target]]
    OBVIOUS
  <2>3. "target" \in DOMAIN picker /\ picker.target \in {"start", "goal"}
    <3>1. DOMAIN picker = {"target", "code", "frame"} /\ picker.target = target
      BY <2>2
    <3> QED BY <3>1
  <2>4. PagesSound'
    BY <2>1, <2>2, <2>3, NewPicker DEF BuilderInv
  <2> QED BY <1>1, <2>4, DraftStays, JobsStay, CountsStay DEF OpenPicker, BuilderInv, Kept4
<1>2. CASE Present(t)
  <2>1. PICK frame : tab' = [tab EXCEPT ![t].picker.frame = frame]
    BY <1>2 DEF Present
  <2>2. PICK picker : picker = [tab[t].picker EXCEPT !.frame = frame]
    OBVIOUS
  <2>3. "target" \in DOMAIN tab[t].picker /\ tab[t].picker.target \in {"start", "goal"}
    BY <1>2 DEF Present, BuilderInv, PagesSound, PageSound
  <2>4. "target" \in DOMAIN picker /\ picker.target \in {"start", "goal"}
    BY <2>2, <2>3
  <2>5. tab' = [tab EXCEPT ![t].picker = picker]
    BY <2>1, <2>2, PageKept DEF BuilderInv, PagesInv
  <2>6. PagesSound'
    BY <2>4, <2>5, NewPicker DEF BuilderInv
  <2> QED BY <1>2, <2>6, DraftStays, JobsStay, CountsStay DEF Present, BuilderInv, Kept4
<1>3. CASE ClosePicker(t)
  <2>1. PagesSound'
    BY <1>3, NewPicker DEF ClosePicker, BuilderInv
  <2> QED BY <1>3, <2>1, DraftStays, JobsStay, CountsStay DEF ClosePicker, BuilderInv, Kept4
<1> QED BY <1>1, <1>2, <1>3

LEMMA SelectSound == ASSUME BuilderInv, NEW t \in Tabs, SelectCurrentFrame(t) PROVE Kept4
<1>1. PICK q \in Shown(t, "prototype_test") :
        tab' = [tab EXCEPT ![t] =
              [Mutated(tab[t], UpdateQuestion(tab[t].doc, q.code, [x \in Asked(tab[t].doc) |->
                  [x EXCEPT !.prototype = WithFrame(x.prototype, tab[t].picker)]]))
                 EXCEPT !.picker = NoPicker]]
  BY DEF SelectCurrentFrame
<1>2. PICK doc : doc = UpdateQuestion(tab[t].doc, q.code, [x \in Asked(tab[t].doc) |->
                  [x EXCEPT !.prototype = WithFrame(x.prototype, tab[t].picker)]])
  OBVIOUS
<1>3. PageSound(t, tab[t]) /\ Sound(tab[t].doc) /\ PagesInv
  BY DEF BuilderInv, PagesSound, PageSound
<1>4. Sound(doc)
  BY <1>2, <1>3, FrameKept
<1>5. PICK old : old = Mutated(tab[t], doc)
  OBVIOUS
<1>6. PICK new : new = [old EXCEPT !.picker = NoPicker]
  OBVIOUS
<1>7. PageSound(t, old)
  BY <1>3, <1>4, <1>5, MutatedSound
<1>8. DOMAIN old = DOMAIN tab[t]
  BY <1>3, <1>5 DEF Mutated
<1>9. new.doc = old.doc /\ new.dirty = old.dirty /\ new.save = old.save /\ new.picker = NoPicker
  BY <1>3, <1>6, <1>8, PageKept
<1>10. PageSound(t, new)
  BY <1>7, <1>9 DEF PageSound
<1>11. tab' = [tab EXCEPT ![t] = new]
  BY <1>1, <1>2, <1>5, <1>6
<1>12. PagesSound'
  BY <1>10, <1>11, OnePageSound DEF BuilderInv
<1> QED BY <1>12, DraftStays, JobsStay, CountsStay DEF SelectCurrentFrame, BuilderInv, Kept4

LEMMA AnswerSound ==
  ASSUME BuilderInv, NEW j \in jobs, NEW doc, Sound(doc), tab' = [tab EXCEPT ![j.tab] = Mutated(tab[j.tab], doc)],
         jobs' = jobs \ {j}, draft' = draft, editable' = editable, work' = work
  PROVE  Kept4
<1>1. j.tab \in Tabs
  BY DEF BuilderInv, JobsSound, JobOK
<1>2. PICK t : t = j.tab
  OBVIOUS
<1>3. t \in Tabs /\ PageSound(t, tab[t]) /\ PagesInv /\ PagesSound
  BY <1>1, <1>2 DEF BuilderInv, PagesSound
<1>4. PageSound(t, Mutated(tab[t], doc))
  BY <1>3, MutatedSound
<1>5. tab' = [tab EXCEPT ![t] = Mutated(tab[t], doc)]
  BY <1>2
<1>6. PagesSound'
  BY <1>3, <1>4, <1>5, OnePageSound
<1> QED BY <1>6, DraftStays, JobsStay, CountsStay DEF BuilderInv, Kept4

(* An answer meets the document as it is now, and leaves it sound.           *)
LEMMA JobSound ==
  ASSUME BuilderInv, NEW j \in jobs, Uploaded(j) \/ Illustrated(j) \/ Synced(j) \/ Failed(j) PROVE Kept4
<1>1. JobOK(j) /\ j.tab \in Tabs
  BY DEF BuilderInv, JobsSound, JobOK
<1>2. PICK old : old = tab[j.tab].doc
  OBVIOUS
<1>3. Sound(old)
  BY <1>1, <1>2 DEF BuilderInv, PagesSound, PageSound
<1>4. CASE Uploaded(j)
  <2>1. PICK doc : doc = UpdateQuestion(old, j.code, [q \in Asked(old) |-> [q EXCEPT !.stimuli = WithImage(j)]])
    OBVIOUS
  <2>2. Sound(doc)
    BY <1>1, <1>3, <1>4, <2>1, UploadedKept DEF Uploaded
  <2>3. /\ tab' = [tab EXCEPT ![j.tab] = Mutated(tab[j.tab], doc)]
        /\ jobs' = jobs \ {j} /\ draft' = draft /\ editable' = editable /\ work' = work
    BY <1>2, <1>4, <2>1 DEF Uploaded, Answer
  <2> QED BY <2>2, <2>3, AnswerSound
<1>5. CASE Synced(j)
  <2>1. PICK doc : doc = UpdateQuestion(old, j.code, [q \in Asked(old) |-> [q EXCEPT !.prototype = WithFrames(j.config)]])
    OBVIOUS
  <2>2. Sound(doc)
    BY <1>1, <1>3, <1>5, <2>1, SyncedKept DEF Synced
  <2>3. /\ tab' = [tab EXCEPT ![j.tab] = Mutated(tab[j.tab], doc)]
        /\ jobs' = jobs \ {j} /\ draft' = draft /\ editable' = editable /\ work' = work
    BY <1>2, <1>5, <2>1 DEF Synced, Answer
  <2> QED BY <2>2, <2>3, AnswerSound
<1>6. CASE Illustrated(j)
  <2>1. PICK doc : doc = UpdateQuestion(old, j.code, [q \in Asked(old) |-> [q EXCEPT !.prototype = j.config]])
    OBVIOUS
  <2>2. Sound(doc)
    BY <1>1, <1>3, <1>6, <2>1, IllustratedKept DEF Illustrated
  <2>3. /\ tab' = [tab EXCEPT ![j.tab] = Mutated(tab[j.tab], doc)]
        /\ jobs' = jobs \ {j} /\ draft' = draft /\ editable' = editable /\ work' = work
    BY <1>2, <1>6, <2>1 DEF Illustrated, Answer
  <2> QED BY <2>2, <2>3, AnswerSound
<1>7. CASE Failed(j)
  BY <1>7, DraftStays, PagesStay, JobsStay, CountsStay DEF Failed, BuilderInv, Kept4
<1> QED BY <1>4, <1>5, <1>6, <1>7

LEMMA NextSound == BuilderInv /\ [Next]_vars => BuilderInv'
<1> SUFFICES ASSUME BuilderInv, [Next]_vars PROVE BuilderInv'
  OBVIOUS
<1>1. PagesInv'
  BY NextPages DEF BuilderInv
<1>2. ASSUME NEW t \in Tabs, Page(t) PROVE Kept4
  BY <1>2, ReloadSound, EditSound, SaveKeepsSound, UpdateDraftSound, ReplySound, UploadSound,
     ScreenshotSound, SyncSound, PickerSound, SelectSound DEF Page
<1>3. CASE SetStatus
  <2>1. editable' \in BOOLEAN /\ work' = work
    BY <1>3 DEF SetStatus, BuilderInv, CountsSound
  <2> QED BY <1>1, <1>3, <2>1, DraftStays, PagesStay, JobsStay DEF SetStatus, BuilderInv, CountsSound
<1>4. CASE UNCHANGED vars
  BY <1>1, <1>4, DraftStays, PagesStay, JobsStay, CountsStay DEF vars, BuilderInv
<1> QED BY <1>1, <1>2, <1>3, <1>4, JobSound DEF Next, BuilderInv, Kept4
-----------------------------------------------------------------------------
LEMMA InvHolds == Spec => []BuilderInv
BY InitSound, NextSound, PTL DEF Spec

LEMMA AllSound == ASSUME BuilderInv, NEW doc \in OpenDocs \cup {draft} PROVE Sound(doc)
BY DEF BuilderInv, OpenDocs, PagesSound, PageSound, DraftSound

(* The draft keeps a name and a section and passes the schema, and pages and *)
(* replies stay what the builders show (actions.ts updateDraft).             *)
THEOREM TypeCorrect == Spec => []TypeOK
<1>1. ASSUME BuilderInv PROVE TypeOK
  <2>1. draft.title \in Looks /\ draft.blocks # <<>> /\ Parses(draft)
    BY <1>1 DEF BuilderInv, DraftSound, Sound, IsDocument
  <2>2. ASSUME NEW t \in Tabs
        PROVE  /\ tab[t].doc.title \in Looks \cup {""} /\ tab[t].doc.blocks # <<>>
               /\ tab[t].dirty \in BOOLEAN /\ tab[t].revision \in Nat
               /\ tab[t].save.stage \in {"none", "sent", "stored", "refused"}
               /\ tab[t].picker.target \in {"none", "start", "goal"}
    <3>1. PageSound(t, tab[t]) /\ PageOK(tab[t])
      BY <1>1 DEF BuilderInv, PagesSound, PagesInv, PageInv
    <3>2. tab[t].save.stage \in {"none", "sent", "stored", "refused"}
      <4>1. CASE tab[t].save = NoSave
        BY <4>1 DEF NoSave
      <4>2. CASE tab[t].save # NoSave
        BY <3>1, <4>2 DEF PageSound, SaveSound
      <4> QED BY <4>1, <4>2
    <3>3. tab[t].picker.target \in {"none", "start", "goal"}
      BY <3>1 DEF PageSound, NoPicker
    <3>4. tab[t].doc.title \in Looks \cup {""} /\ tab[t].doc.blocks # <<>>
      BY <3>1 DEF PageSound, Sound, IsDocument
    <3> QED BY <3>1, <3>2, <3>3, <3>4 DEF PageSound, PageOK
  <2>3. editable \in BOOLEAN /\ work \in 0..MaxWork
        /\ \A j \in jobs : j.tab \in Tabs /\ j.kind \in {"upload", "screenshot", "sync"}
    BY <1>1 DEF BuilderInv, CountsSound, JobsSound, JobOK
  <2> QED BY <2>1, <2>2, <2>3 DEF TypeOK
<1> QED BY <1>1, InvHolds, PTL

(* A code names one question of a page or of the draft, whatever is added,   *)
(* removed, moved or answered late (modern-builder.tsx addQuestion,          *)
(* builder.tsx moveQuestion).                                                *)
THEOREM CodesCorrect == Spec => []CodesUnique
<1>1. ASSUME BuilderInv PROVE CodesUnique
  BY <1>1, AllSound, AsManyCodes DEF CodesUnique, Sound
<1> QED BY <1>1, InvHolds, PTL

(* No unfinished display condition gets into the draft (actions.ts           *)
(* updateDraft), from whichever builder it was sent.                         *)
THEOREM DraftLogicCorrect == Spec => []DraftLogicComplete
<1>1. BuilderInv => DraftLogicComplete
  BY DEF BuilderInv, DraftSound, DraftLogicComplete
<1> QED BY <1>1, InvHolds, PTL

(* An upload or a fetch of frames that is answered late leaves a document    *)
(* the schema accepts: lists of images within the limit, and versions of the *)
(* file they stand with.                                                     *)
THEOREM LateRepliesCorrect == Spec => []LateRepliesFit
<1>1. ASSUME BuilderInv PROVE LateRepliesFit
  <2>1. \A q \in AllQuestions : IsQuestion(q)
    BY <1>1, AllSound, AskedOK DEF AllQuestions
  <2> QED BY <2>1 DEF LateRepliesFit, StimuliWithinLimit, VersionOfFile, IsQuestion
<1> QED BY <1>1, InvHolds, PTL
===============================================================================
