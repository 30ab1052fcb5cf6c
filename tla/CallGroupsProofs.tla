--------------------------- MODULE CallGroupsProofs ---------------------------
(***************************************************************************)
(* Theorems about CallGroups.                                              *)
(*                                                                         *)
(* The changes noted fit the groups the line was in when the dialog was    *)
(* opened (Fit): so what one save posts agrees.  A save that is not        *)
(* settled waits for a request (Waiting).  Hence the newest load, and the  *)
(* page when it shows that one, has what the backend has, as long as no    *)
(* save is open and no request carried out is in flight or was unseen      *)
(* (Fresh): whatever else changes the backend is followed by another load. *)
(***************************************************************************)
EXTENDS CallGroups, TLAPS

Fit ==
  /\ Range(dialog.adds) \cap dialog.members = {}
  /\ Range(dialog.dels) \subseteq dialog.members

Waiting ==
  /\ \A s, t \in open : s.n = t.n => s = t
  /\ \A s \in open : \E r \in requests : r.save = s.n

Numbered ==
  /\ \A l, k \in loads : l.n = k.n => l = k
  /\ \A l \in loads : l.n # listed

Quiet == open = {} /\ (\A r \in requests : ~r.done) /\ ~unseen

Fresh ==
  Quiet => /\ \A l \in loads : l.n = issued /\ l.read => l.data = backend
           /\ listed = issued => members = backend

IInv == TypeOK /\ ShownIsNoted /\ Fit /\ RequestsAgree /\ Waiting /\ Numbered /\ Fresh

-----------------------------------------------------------------------------
(* Sequences, and the records.                                             *)

LEMMA RangeAppend ==
  ASSUME NEW s \in Seq(Groups), NEW g \in Groups
  PROVE  /\ Append(s, g) \in Seq(Groups)
         /\ Len(Append(s, g)) = Len(s) + 1
         /\ Range(Append(s, g)) = Range(s) \cup {g}
  <1> DEFINE t == Append(s, g)
  <1>1. /\ t \in Seq(Groups) /\ Len(t) = Len(s) + 1 /\ Len(s) \in Nat
        /\ DOMAIN t = 1..(Len(s) + 1) /\ DOMAIN s = 1..Len(s)
        /\ t[Len(s) + 1] = g /\ \A i \in 1..Len(s) : t[i] = s[i]
    OBVIOUS
  <1> HIDE DEF t
  <1>2. Range(t) = Range(s) \cup {g}
    BY <1>1 DEF Range
  <1> QED BY <1>1, <1>2 DEF t

LEMMA RangeEmpty == Range(<<>>) = {} /\ <<>> \in Seq(Groups) /\ Len(<<>>) = 0
  BY DEF Range

LEMMA Grow ==
  ASSUME NEW i \in Nat, NEW n \in Nat
  PROVE  /\ DialogsTo(i) \subseteq DialogsTo(i + 1)
         /\ RequestsTo(n) \subseteq RequestsTo(n + 1)
         /\ SavesTo(n, i) \subseteq SavesTo(n, i + 1)
         /\ SavesTo(n, i) \subseteq SavesTo(n + 1, i)
         /\ LoadsTo(i) \subseteq LoadsTo(i + 1)
  BY DEF DialogsTo, RequestsTo, SavesTo, LoadsTo

-----------------------------------------------------------------------------
LEMMA InitInv == Init => IInv
  <1> SUFFICES ASSUME Init PROVE IInv
    OBVIOUS
  <1> USE BoundAssumption, RangeEmpty
  <1>1. dialog \in DialogsTo(0) /\ dialog.boxes = "none" /\ dialog.adds = <<>> /\ dialog.dels = <<>>
        /\ dialog.members = {}
    BY DEF Init, DialogsTo
  <1>2. TypeOK
    <2>1. /\ issued = 0 /\ saved = 0 /\ listed = 0 /\ lists = 0 /\ unseen = FALSE
          /\ requests = {} /\ open = {} /\ loads = {} /\ backend \subseteq Groups /\ members = backend
      BY DEF Init
    <2>2. Len(dialog.adds) + Len(dialog.dels) <= MaxChanges
      BY <1>1
    <2>3. dialog \in DialogsTo(issued)
      BY <1>1, <2>1
    <2>4. listed \in 0..issued /\ issued \in 0..MaxSaves /\ saved \in 0..MaxSaves /\ lists \in 0..MaxLists
      BY <2>1
    <2>5. requests \subseteq RequestsTo(saved) /\ open \subseteq SavesTo(saved, issued)
          /\ loads \subseteq LoadsTo(issued)
      BY <2>1
    <2> QED BY <2>1, <2>2, <2>3, <2>4, <2>5 DEF TypeOK
  <1>3. ShownIsNoted /\ Fit
    BY <1>1 DEF ShownIsNoted, Fit
  <1>4. RequestsAgree /\ Waiting /\ Numbered /\ Fresh
    BY DEF Init, RequestsAgree, Waiting, Numbered, Fresh
  <1> QED BY <1>2, <1>3, <1>4 DEF IInv

\* Steps that change the dialog only.
LEMMA DialogInv ==
  ASSUME IInv,
         UNCHANGED <<backend, members, requests, open, saved, loads, issued, listed, unseen>>,
         dialog' \in DialogsTo(issued), lists' \in 0..MaxLists,
         Len(dialog'.adds) + Len(dialog'.dels) <= MaxChanges,
         ShownIsNoted', Fit'
  PROVE  IInv'
  <1>1. TypeOK /\ RequestsAgree /\ Waiting /\ Numbered /\ Fresh
    BY DEF IInv
  <1>2. TypeOK'
    BY <1>1 DEF TypeOK
  <1>3. RequestsAgree' /\ Waiting' /\ Numbered' /\ Fresh'
    BY <1>1 DEF RequestsAgree, Waiting, Numbered, Fresh, Quiet
  <1> QED BY <1>2, <1>3 DEF IInv

LEMMA OpenInv ==
  ASSUME IInv, Open
  PROVE  IInv'
  <1> USE BoundAssumption, RangeEmpty
  <1>1. TypeOK
    BY DEF IInv
  <1>2. UNCHANGED <<backend, members, requests, open, saved, loads, issued, listed, unseen>>
    BY DEF Open
  <1>3. /\ dialog' \in DialogsTo(issued)
        /\ dialog'.adds = <<>> /\ dialog'.dels = <<>> /\ dialog'.boxes # "new"
    BY <1>1 DEF Open, TypeOK, DialogsTo
  <1>4. lists' \in 0..MaxLists
    BY <1>1 DEF Open, TypeOK
  <1>5. Len(dialog'.adds) + Len(dialog'.dels) <= MaxChanges
    BY <1>3
  <1>6. ShownIsNoted' /\ Fit'
    BY <1>3 DEF ShownIsNoted, Fit
  <1> QED BY <1>2, <1>3, <1>4, <1>5, <1>6, DialogInv

LEMMA BoxesInv ==
  ASSUME IInv, Cancel \/ ListComes \/ ListFails
  PROVE  IInv'
  <1> USE BoundAssumption
  <1>1. TypeOK /\ ShownIsNoted /\ Fit
    BY DEF IInv
  <1>2. UNCHANGED <<backend, members, requests, open, saved, loads, issued, listed, unseen>>
    BY DEF Cancel, ListComes, ListFails
  <1>3. lists' \in 0..MaxLists
    BY <1>1 DEF Cancel, ListComes, ListFails, TypeOK
  <1>4. /\ dialog' \in DialogsTo(issued) /\ dialog'.members = dialog.members
        /\ dialog'.adds = dialog.adds /\ dialog'.dels = dialog.dels
        /\ \/ dialog'.ticks = dialog.ticks /\ dialog'.boxes = dialog.boxes
           \/ dialog'.ticks = dialog.members
    BY <1>1 DEF Cancel, ListComes, ListFails, TypeOK, DialogsTo
  <1>5. ShownIsNoted' /\ Fit' /\ Len(dialog'.adds) + Len(dialog'.dels) <= MaxChanges
    BY <1>1, <1>4 DEF ShownIsNoted, Fit, TypeOK
  <1> QED BY <1>2, <1>3, <1>4, <1>5, DialogInv

\* g is noted when c holds.
LEMMA Noted ==
  ASSUME NEW s \in Seq(Groups), NEW g \in Groups, NEW c \in BOOLEAN
  PROVE  LET t == IF c THEN Append(s, g) ELSE s
         IN  /\ t \in Seq(Groups) /\ Len(t) <= Len(s) + 1 /\ Len(t) \in Nat
             /\ Range(t) = IF c THEN Range(s) \cup {g} ELSE Range(s)
  <1>1. CASE c
    BY <1>1, RangeAppend
  <1>2. CASE ~c
    BY <1>2
  <1> QED BY <1>1, <1>2

LEMMA TickInv ==
  ASSUME IInv, NEW g \in Groups, Tick(g) \/ Untick(g)
  PROVE  IInv'
  <1> USE BoundAssumption
  <1>1. TypeOK /\ ShownIsNoted /\ Fit
    BY DEF IInv
  <1>2. /\ UNCHANGED <<backend, members, requests, open, saved, loads, issued, listed, unseen>>
        /\ lists' = lists /\ Clickable
    BY DEF Tick, Untick
  <1>3. /\ dialog \in DialogsTo(issued) /\ issued \in Nat
        /\ dialog.adds \in Seq(Groups) /\ dialog.dels \in Seq(Groups)
        /\ dialog.ticks \subseteq Groups
        /\ Len(dialog.adds) + Len(dialog.dels) < MaxChanges
    BY <1>1, <1>2 DEF TypeOK, DialogsTo, Clickable
  <1>4. Len(dialog.adds) \in Nat /\ Len(dialog.dels) \in Nat
    BY <1>3
  <1>5. lists' \in 0..MaxLists
    BY <1>1, <1>2 DEF TypeOK
  <1>6. CASE Tick(g)
    <2> DEFINE more == IF g \notin dialog.members THEN Append(dialog.adds, g) ELSE dialog.adds
    <2>1. /\ more \in Seq(Groups) /\ Len(more) <= Len(dialog.adds) + 1 /\ Len(more) \in Nat
          /\ Range(more) = IF g \notin dialog.members THEN Range(dialog.adds) \cup {g}
                                                     ELSE Range(dialog.adds)
      BY <1>3, Noted
    <2>2. dialog' = [dialog EXCEPT !.ticks = dialog.ticks \cup {g}, !.adds = more]
      BY <1>6 DEF Tick
    <2> HIDE DEF more
    <2>3. /\ dialog' \in DialogsTo(issued)
          /\ dialog'.members = dialog.members /\ dialog'.boxes = dialog.boxes
          /\ dialog'.adds = more /\ dialog'.dels = dialog.dels
          /\ dialog'.ticks = dialog.ticks \cup {g}
      <3>1. dialog.ticks \cup {g} \in SUBSET Groups
        BY <1>3
      <3>2. more \in Seq(Groups) /\ dialog \in DialogsTo(issued) /\ issued \in Nat
        BY <1>3, <2>1
      <3> QED BY ONLY <2>2, <3>1, <3>2 DEF DialogsTo
    <2>4. Len(dialog'.adds) + Len(dialog'.dels) <= MaxChanges
      <3> DEFINE a == Len(dialog.adds)
                 b == Len(dialog.dels)
                 c == Len(more)
      <3>1. a \in Nat /\ b \in Nat /\ c \in Nat /\ a + b < MaxChanges /\ c <= a + 1
        BY <1>3, <1>4, <2>1
      <3>2. Len(dialog'.adds) + Len(dialog'.dels) = c + b
        BY <2>3
      <3> HIDE DEF a, b, c
      <3>3. MaxChanges \in Nat
        OBVIOUS
      <3>4. c + b <= MaxChanges
        BY <3>1, <3>3
      <3> QED BY <3>2, <3>4
    <2>5. ShownIsNoted' /\ Fit'
      BY <1>1, <2>1, <2>3 DEF ShownIsNoted, Fit
    <2> QED BY <1>2, <1>5, <2>3, <2>4, <2>5, DialogInv
  <1>7. CASE Untick(g)
    <2> DEFINE more == IF g \in dialog.members THEN Append(dialog.dels, g) ELSE dialog.dels
    <2>1. /\ more \in Seq(Groups) /\ Len(more) <= Len(dialog.dels) + 1 /\ Len(more) \in Nat
          /\ Range(more) = IF g \in dialog.members THEN Range(dialog.dels) \cup {g}
                                                   ELSE Range(dialog.dels)
      BY <1>3, Noted
    <2>2. dialog' = [dialog EXCEPT !.ticks = dialog.ticks \ {g}, !.dels = more]
      BY <1>7 DEF Untick
    <2> HIDE DEF more
    <2>3. /\ dialog' \in DialogsTo(issued)
          /\ dialog'.members = dialog.members /\ dialog'.boxes = dialog.boxes
          /\ dialog'.adds = dialog.adds /\ dialog'.dels = more
          /\ dialog'.ticks = dialog.ticks \ {g}
      <3>1. dialog.ticks \ {g} \in SUBSET Groups
        BY <1>3
      <3>2. more \in Seq(Groups) /\ dialog \in DialogsTo(issued) /\ issued \in Nat
        BY <1>3, <2>1
      <3> QED BY ONLY <2>2, <3>1, <3>2 DEF DialogsTo
    <2>4. Len(dialog'.adds) + Len(dialog'.dels) <= MaxChanges
      <3> DEFINE a == Len(dialog.adds)
                 b == Len(dialog.dels)
                 c == Len(more)
      <3>1. a \in Nat /\ b \in Nat /\ c \in Nat /\ a + b < MaxChanges /\ c <= b + 1
        BY <1>3, <1>4, <2>1
      <3>2. Len(dialog'.adds) + Len(dialog'.dels) = a + c
        BY <2>3
      <3> HIDE DEF a, b, c
      <3>3. MaxChanges \in Nat
        OBVIOUS
      <3>4. a + c <= MaxChanges
        BY <3>1, <3>3
      <3> QED BY <3>2, <3>4
    <2>5. ShownIsNoted' /\ Fit'
      BY <1>1, <2>1, <2>3 DEF ShownIsNoted, Fit
    <2> QED BY <1>2, <1>5, <2>3, <2>4, <2>5, DialogInv
  <1> QED BY <1>6, <1>7

-----------------------------------------------------------------------------
(* Saving.                                                                 *)

\* The new load has not read: nothing is asked of it.
LEMMA Loading ==
  ASSUME TypeOK, Numbered, LoadAll, listed' = listed
  PROVE  /\ issued' = issued + 1 /\ issued' \in 0..MaxSaves /\ listed' \in 0..issued'
         /\ loads' \subseteq LoadsTo(issued') /\ unseen' \in BOOLEAN
         /\ Numbered' /\ Fresh'
  <1> DEFINE new == [n |-> issued + 1, read |-> FALSE, data |-> {}]
  <1>1. /\ issued \in Nat /\ listed \in 0..issued /\ issued < MaxSaves /\ MaxSaves \in Nat
        /\ issued' = issued + 1 /\ loads' = loads \cup {new} /\ unseen' = FALSE
    BY BoundAssumption DEF TypeOK, LoadAll
  <1>2. /\ issued' \in 0..MaxSaves /\ listed' \in 0..issued' /\ listed' # issued'
    BY <1>1
  <1>3. new \in LoadsTo(issued + 1) /\ new.n = issued + 1 /\ ~new.read
    BY <1>1 DEF LoadsTo
  <1>4. \A l \in loads : l \in LoadsTo(issued) /\ l.n # issued + 1
    BY <1>1 DEF TypeOK, LoadsTo
  <1>5. loads' \subseteq LoadsTo(issued')
    BY <1>1, <1>3, <1>4, Grow
  <1> HIDE DEF new
  <1>6. Numbered'
    BY <1>1, <1>2, <1>3, <1>4 DEF Numbered
  <1>7. Fresh'
    BY <1>1, <1>2, <1>3, <1>4 DEF Fresh
  <1> QED BY <1>1, <1>2, <1>5, <1>6, <1>7

\* Only what has to do with the requests remains to be shown of a save that is settled.
LEMMA SettleInv ==
  ASSUME IInv, NEW s, Settle(s), UNCHANGED <<backend, members, lists, listed>>,
         saved' = saved \/ (saved' = saved + 1 /\ saved < MaxSaves),
         requests' \subseteq RequestsTo(saved'), RequestsAgree', Waiting'
  PROVE  IInv'
  <1>1. TypeOK /\ ShownIsNoted /\ Fit /\ Numbered
    BY DEF IInv
  <1>2. /\ issued' = issued + 1 /\ issued' \in 0..MaxSaves /\ listed' \in 0..issued'
        /\ loads' \subseteq LoadsTo(issued') /\ unseen' \in BOOLEAN
        /\ Numbered' /\ Fresh'
    BY <1>1, Loading DEF Settle
  <1>3. issued \in Nat /\ saved \in Nat /\ MaxSaves \in Nat /\ dialog \in DialogsTo(issued)
    BY <1>1, BoundAssumption DEF TypeOK
  <1>4. saved' \in 0..MaxSaves
    BY <1>1, <1>3 DEF TypeOK
  <1>5. open' \subseteq SavesTo(saved', issued')
    <2>1. open' \subseteq SavesTo(saved, issued)
      BY <1>1 DEF TypeOK, Settle
    <2>2. SavesTo(saved, issued) \subseteq SavesTo(saved, issued + 1)
      BY <1>3, Grow
    <2>3. SavesTo(saved, issued + 1) \subseteq SavesTo(saved + 1, issued + 1)
      BY <1>3, Grow
    <2> QED BY <1>2, <2>1, <2>2, <2>3
  <1>6. /\ dialog' \in DialogsTo(issued)
        /\ dialog'.members = dialog.members /\ dialog'.ticks = dialog.ticks
        /\ dialog'.boxes = dialog.boxes
        /\ dialog'.adds = dialog.adds /\ dialog'.dels = dialog.dels
    BY <1>3 DEF Settle, DialogsTo
  <1>7. dialog' \in DialogsTo(issued')
    BY <1>2, <1>3, <1>6, Grow
  <1>8. ShownIsNoted' /\ Fit' /\ Len(dialog'.adds) + Len(dialog'.dels) <= MaxChanges
    BY <1>1, <1>6 DEF ShownIsNoted, Fit, TypeOK
  <1>9. TypeOK'
    BY <1>1, <1>2, <1>4, <1>5, <1>7, <1>8 DEF TypeOK
  <1> QED BY <1>2, <1>8, <1>9 DEF IInv

\* What a save posts.
LEMMA PostedIs ==
  ASSUME TypeOK, NEW op \in {"add", "delete"}, NEW cs \in Seq(Groups), Len(cs) <= MaxChanges
  PROVE  /\ Posted(saved + 1, op, cs) \subseteq RequestsTo(saved + 1)
         /\ \A r \in Posted(saved + 1, op, cs) :
              r.save = saved + 1 /\ r.op = op /\ r.group \in Range(cs)
  <1>1. saved \in Nat /\ MaxChanges \in Nat /\ Len(cs) \in Nat
    BY BoundAssumption DEF TypeOK
  <1>2. \A i \in DOMAIN cs : i \in 1..MaxChanges /\ cs[i] \in Groups /\ cs[i] \in Range(cs)
    BY <1>1 DEF Range
  <1>3. saved + 1 \in 1..(saved + 1)
    BY <1>1
  <1>4. ASSUME NEW r \in Posted(saved + 1, op, cs)
        PROVE  /\ r \in RequestsTo(saved + 1)
               /\ r.save = saved + 1 /\ r.op = op /\ r.group \in Range(cs)
    <2>1. PICK i \in DOMAIN cs : r = [save |-> saved + 1, no |-> i, op |-> op, group |-> cs[i], done |-> FALSE]
      BY DEF Posted
    <2>2. i \in 1..MaxChanges /\ cs[i] \in Groups /\ cs[i] \in Range(cs)
      BY <1>2
    <2> QED BY <1>3, <2>1, <2>2 DEF RequestsTo
  <1> QED BY <1>4

LEMMA SaveInv ==
  ASSUME IInv, Save
  PROVE  IInv'
  <1> DEFINE adding == Posted(saved + 1, "add", dialog.adds)
             deleting == Posted(saved + 1, "delete", dialog.dels)
             posted == adding \cup deleting
             s == [n |-> saved + 1, line |-> dialog.line]
  <1>1. TypeOK /\ ShownIsNoted /\ Fit /\ RequestsAgree /\ Waiting /\ Numbered /\ Fresh
    BY DEF IInv
  <1>2. /\ dialog \in DialogsTo(issued) /\ dialog.adds \in Seq(Groups) /\ dialog.dels \in Seq(Groups)
        /\ dialog.line \in 0..issued /\ issued \in Nat /\ saved \in Nat /\ MaxSaves \in Nat
        /\ Len(dialog.adds) + Len(dialog.dels) <= MaxChanges /\ MaxChanges \in Nat
    BY <1>1, BoundAssumption DEF TypeOK, DialogsTo
  <1>3. Len(dialog.adds) <= MaxChanges /\ Len(dialog.dels) <= MaxChanges
    <2> DEFINE a == Len(dialog.adds)
               b == Len(dialog.dels)
    <2>1. a \in Nat /\ b \in Nat
      BY <1>2
    <2>2. a + b <= MaxChanges /\ MaxChanges \in Nat
      BY <1>2
    <2> HIDE DEF a, b
    <2>3. a <= MaxChanges /\ b <= MaxChanges
      BY <2>1, <2>2
    <2> QED BY <2>3 DEF a, b
  <1>4. /\ adding \subseteq RequestsTo(saved + 1)
        /\ \A r \in adding : r.save = saved + 1 /\ r.op = "add" /\ r.group \in Range(dialog.adds)
    BY <1>1, <1>2, <1>3, PostedIs
  <1>5. /\ deleting \subseteq RequestsTo(saved + 1)
        /\ \A r \in deleting : r.save = saved + 1 /\ r.op = "delete" /\ r.group \in Range(dialog.dels)
    BY <1>1, <1>2, <1>3, PostedIs
  <1>6. /\ saved' = saved + 1 /\ saved < MaxSaves /\ requests' = requests \cup posted
        /\ UNCHANGED <<backend, members, lists, listed>>
        /\ IF posted = {} THEN Settle(s)
           ELSE open' = open \cup {s} /\ UNCHANGED <<dialog, loads, issued, unseen>>
    BY DEF Save
  <1>7. s \in SavesTo(saved + 1, issued) /\ s.n = saved + 1
    <2>1. saved + 1 \in 1..(saved + 1)
      BY <1>2
    <2> QED BY <1>2, <2>1 DEF SavesTo
  <1> HIDE DEF adding, deleting, s
  <1>8. requests' \subseteq RequestsTo(saved')
    BY <1>1, <1>2, <1>4, <1>5, <1>6, Grow DEF TypeOK
  <1>9. \A r \in requests : r.save # saved + 1
    BY <1>1, <1>2 DEF TypeOK, RequestsTo
  <1>10. \A t \in open : t.n # saved + 1
    BY <1>1, <1>2 DEF TypeOK, SavesTo
  <1>11. RequestsAgree'
    BY <1>1, <1>4, <1>5, <1>6, <1>9 DEF RequestsAgree, Fit
  <1>12. CASE posted = {}
    <2>1. Settle(s)
      BY <1>6, <1>12
    <2>2. open' \subseteq open /\ requests' = requests
      BY <1>6, <1>12, <2>1 DEF Settle
    <2>3. Waiting'
      BY <1>1, <2>2 DEF Waiting
    <2> QED BY <1>6, <1>8, <1>11, <2>1, <2>3, SettleInv
  <1>13. CASE posted # {}
    <2>1. open' = open \cup {s} /\ UNCHANGED <<dialog, loads, issued, unseen>>
      BY <1>6, <1>13
    <2>2. Waiting'
      BY <1>1, <1>4, <1>5, <1>6, <1>7, <1>10, <1>13, <2>1 DEF Waiting
    <2>3. open' \subseteq SavesTo(saved', issued')
      BY <1>1, <1>2, <1>6, <1>7, <2>1, Grow DEF TypeOK
    <2>4. saved' \in 0..MaxSaves
      BY <1>2, <1>6
    <2>5. TypeOK'
      BY <1>1, <1>6, <1>8, <2>1, <2>3, <2>4 DEF TypeOK
    <2>6. ShownIsNoted' /\ Fit' /\ Numbered'
      BY <1>1, <1>6, <2>1 DEF ShownIsNoted, Fit, Numbered
    <2>7. Fresh'
      BY <2>1 DEF Fresh, Quiet
    <2> QED BY <1>11, <2>2, <2>5, <2>6, <2>7 DEF IInv
  <1> QED BY <1>12, <1>13

LEMMA AcceptInv ==
  ASSUME IInv, NEW r \in requests, Accept(r)
  PROVE  IInv'
  <1> DEFINE d == [r EXCEPT !.done = TRUE]
  <1>1. TypeOK /\ ShownIsNoted /\ Fit /\ RequestsAgree /\ Waiting /\ Numbered
    BY DEF IInv
  <1>2. r \in RequestsTo(saved) /\ r.group \in Groups
    BY <1>1 DEF TypeOK, RequestsTo
  <1>3. /\ d \in RequestsTo(saved) /\ d.done
        /\ d.save = r.save /\ d.group = r.group /\ d.op = r.op
    BY <1>2 DEF RequestsTo
  <1>4. /\ requests' = (requests \ {r}) \cup {d}
        /\ UNCHANGED <<members, dialog, lists, open, saved, loads, issued, listed, unseen>>
    BY DEF Accept
  <1>5. backend' \subseteq Groups
    BY <1>1, <1>2 DEF Accept, TypeOK
  <1> HIDE DEF d
  <1>6. TypeOK'
    BY <1>1, <1>3, <1>4, <1>5 DEF TypeOK
  <1>7. RequestsAgree'
    BY <1>1, <1>3, <1>4 DEF RequestsAgree
  <1>8. Waiting'
    BY <1>1, <1>3, <1>4 DEF Waiting
  <1>9. Fresh'
    BY <1>3, <1>4 DEF Fresh, Quiet
  <1>10. ShownIsNoted' /\ Fit' /\ Numbered'
    BY <1>1, <1>4 DEF ShownIsNoted, Fit, Numbered
  <1> QED BY <1>6, <1>7, <1>8, <1>9, <1>10 DEF IInv

\* A request is answered or has failed; no save waits for it alone any more.
LEMMA AnswerInv ==
  ASSUME IInv, NEW r \in requests, Answered(r) \/ Failed(r)
  PROVE  IInv'
  <1>1. TypeOK /\ ShownIsNoted /\ Fit /\ RequestsAgree /\ Waiting /\ Numbered /\ Fresh
    BY DEF IInv
  <1>2. requests' = requests \ {r} /\ UNCHANGED <<backend, members, lists, saved, listed>>
    BY DEF Answered, Failed
  <1>3. requests' \subseteq RequestsTo(saved') /\ RequestsAgree'
    BY <1>1, <1>2 DEF TypeOK, RequestsAgree
  <1>4. ASSUME NEW s \in open, s.n = r.save, Settle(s)
        PROVE  IInv'
    <2>1. open' = open \ {s}
      BY <1>4 DEF Settle
    <2>2. Waiting'
      BY <1>1, <1>2, <1>4, <2>1 DEF Waiting
    <2>3. UNCHANGED <<backend, members, lists, listed>> /\ saved' = saved
      BY <1>2
    <2> QED BY <1>3, <1>4, <2>2, <2>3, SettleInv
  <1>5. ASSUME UNCHANGED <<dialog, open, loads, issued>>, unseen' \in BOOLEAN, Waiting', Fresh'
        PROVE  IInv'
    <2>1. TypeOK'
      BY <1>1, <1>2, <1>3, <1>5 DEF TypeOK
    <2>2. ShownIsNoted' /\ Fit' /\ Numbered'
      BY <1>1, <1>2, <1>5 DEF ShownIsNoted, Fit, Numbered
    <2> QED BY <1>3, <1>5, <2>1, <2>2 DEF IInv
  <1>6. CASE Answered(r)
    <2>1. CASE \E s \in open : s.n = r.save /\ Settle(s)
      BY <1>4, <2>1
    <2>2. CASE /\ \E s \in open : s.n = r.save
               /\ \E q \in requests \ {r} : q.save = r.save
               /\ UNCHANGED <<dialog, open, loads, issued, unseen>>
      <3>1. Waiting'
        BY <1>1, <1>2, <2>2 DEF Waiting
      <3>2. Fresh'
        BY <2>2 DEF Fresh, Quiet
      <3>3. unseen' \in BOOLEAN
        BY <1>1, <2>2 DEF TypeOK
      <3> QED BY <1>5, <2>2, <3>1, <3>2, <3>3
    <2>3. CASE /\ \A s \in open : s.n # r.save
               /\ unseen' = TRUE
               /\ UNCHANGED <<dialog, open, loads, issued>>
      <3>1. Waiting'
        BY <1>1, <1>2, <2>3 DEF Waiting
      <3>2. Fresh'
        BY <2>3 DEF Fresh, Quiet
      <3> QED BY <1>5, <2>3, <3>1, <3>2
    <2> QED BY <1>6, <2>1, <2>2, <2>3 DEF Answered
  <1>7. CASE Failed(r)
    <2>1. CASE \E s \in open : s.n = r.save /\ Settle(s)
      BY <1>4, <2>1
    <2>2. CASE /\ \A s \in open : s.n # r.save
               /\ unseen' = (unseen \/ r.done)
               /\ UNCHANGED <<dialog, open, loads, issued>>
      <3>1. Waiting'
        BY <1>1, <1>2, <2>2 DEF Waiting
      <3>2. Quiet' => Quiet
        BY <1>2, <2>2 DEF Quiet
      <3>3. Fresh'
        BY <1>1, <1>2, <2>2, <3>2 DEF Fresh
      <3>4. unseen' \in BOOLEAN
        BY <2>2
      <3> QED BY <1>5, <2>2, <3>1, <3>3, <3>4
    <2> QED BY <1>7, <2>1, <2>2 DEF Failed
  <1> QED BY <1>6, <1>7

-----------------------------------------------------------------------------
(* Loading.                                                                *)

LEMMA ReadInv ==
  ASSUME IInv, NEW l \in loads, Read(l)
  PROVE  IInv'
  <1> DEFINE d == [l EXCEPT !.read = TRUE, !.data = backend]
  <1>1. TypeOK /\ ShownIsNoted /\ Fit /\ RequestsAgree /\ Waiting /\ Numbered /\ Fresh
    BY DEF IInv
  <1>2. l \in LoadsTo(issued) /\ backend \subseteq Groups
    BY <1>1 DEF TypeOK
  <1>3. d \in LoadsTo(issued) /\ d.n = l.n /\ d.data = backend
    BY <1>2 DEF LoadsTo
  <1>4. /\ loads' = (loads \ {l}) \cup {d}
        /\ UNCHANGED <<backend, members, dialog, lists, requests, open, saved, issued, listed, unseen>>
    BY DEF Read
  <1> HIDE DEF d
  <1>5. TypeOK'
    BY <1>1, <1>3, <1>4 DEF TypeOK
  <1>6. Numbered'
    BY <1>1, <1>3, <1>4 DEF Numbered
  <1>7. Fresh'
    BY <1>1, <1>3, <1>4 DEF Fresh, Quiet
  <1>8. ShownIsNoted' /\ Fit' /\ RequestsAgree' /\ Waiting'
    BY <1>1, <1>4 DEF ShownIsNoted, Fit, RequestsAgree, Waiting
  <1> QED BY <1>5, <1>6, <1>7, <1>8 DEF IInv

LEMMA LoadedInv ==
  ASSUME IInv, NEW l \in loads, LoadDone(l) \/ LoadFails(l)
  PROVE  IInv'
  <1>1. TypeOK /\ ShownIsNoted /\ Fit /\ RequestsAgree /\ Waiting /\ Numbered /\ Fresh
    BY DEF IInv
  <1>2. /\ loads' = loads \ {l}
        /\ UNCHANGED <<backend, dialog, lists, requests, open, saved, issued, unseen>>
    BY DEF LoadDone, LoadFails
  <1>3. /\ l.n \in 1..issued /\ l.data \subseteq Groups /\ issued \in Nat
    BY <1>1 DEF TypeOK, LoadsTo
  <1>4. \/ members' = members /\ listed' = listed
        \/ members' = l.data /\ listed' = l.n /\ l.read
    BY DEF LoadDone, LoadFails
  <1>5. members' \subseteq Groups /\ listed' \in 0..issued
    BY <1>1, <1>3, <1>4 DEF TypeOK
  <1>6. TypeOK'
    BY <1>1, <1>2, <1>5 DEF TypeOK
  <1>7. Numbered'
    BY <1>1, <1>2, <1>4 DEF Numbered
  <1>8. Fresh'
    BY <1>1, <1>2, <1>4 DEF Fresh, Quiet
  <1>9. ShownIsNoted' /\ Fit' /\ RequestsAgree' /\ Waiting'
    BY <1>1, <1>2 DEF ShownIsNoted, Fit, RequestsAgree, Waiting
  <1> QED BY <1>6, <1>7, <1>8, <1>9 DEF IInv

-----------------------------------------------------------------------------
LEMMA Inductive == IInv /\ [Next]_vars => IInv'
  <1> SUFFICES ASSUME IInv, [Next]_vars PROVE IInv'
    OBVIOUS
  <1>1. CASE Open
    BY <1>1, OpenInv
  <1>2. CASE Cancel \/ ListComes \/ ListFails
    BY <1>2, BoxesInv
  <1>3. CASE \E g \in Groups : Tick(g) \/ Untick(g)
    BY <1>3, TickInv
  <1>4. CASE Save
    BY <1>4, SaveInv
  <1>5. CASE \E r \in requests : Accept(r) \/ Answered(r) \/ Failed(r)
    BY <1>5, AcceptInv, AnswerInv
  <1>6. CASE \E l \in loads : Read(l) \/ LoadDone(l) \/ LoadFails(l)
    BY <1>6, ReadInv, LoadedInv
  <1>7. CASE UNCHANGED vars
    BY <1>7 DEF vars, IInv, TypeOK, ShownIsNoted, Fit, RequestsAgree, Waiting, Numbered, Fresh, Quiet
  <1> QED BY <1>1, <1>2, <1>3, <1>4, <1>5, <1>6, <1>7 DEF Next

\* The invariant holds whatever order requests, lists and loads are answered in.
THEOREM Invariance == Spec => []IInv
  BY InitInv, Inductive, PTL DEF Spec

\* The variables stay within their sets, and the bounds are kept.
THEOREM TypeCorrect == Spec => []TypeOK
  <1>1. IInv => TypeOK
    BY DEF IInv
  <1> QED BY <1>1, Invariance, PTL

\* However often a box was ticked, what the boxes show is noted for the save
\* (add_to_call_group.coffee:45-66).
THEOREM ShownNoted == Spec => []ShownIsNoted
  <1>1. IInv => ShownIsNoted
    BY DEF IInv
  <1> QED BY <1>1, Invariance, PTL

\* No two requests of one save contradict each other, so they can be posted at
\* once (add_to_call_group.coffee:20-34).
THEOREM Agree == Spec => []RequestsAgree
  <1>1. IInv => RequestsAgree
    BY DEF IInv
  <1> QED BY <1>1, Invariance, PTL

\* The page that shows the newest load has the line's groups as the backend has
\* them, once nothing is in flight (config_edit_item_line.coffee:67-75).
THEOREM Current == Spec => []SettledIsCurrent
  <1>1. IInv => SettledIsCurrent
    <2> SUFFICES ASSUME IInv, requests = {}, listed = issued, ~unseen
                 PROVE  members = backend
      BY DEF SettledIsCurrent
    <2>1. Waiting /\ Fresh
      BY DEF IInv
    <2>2. Quiet
      BY <2>1 DEF Waiting, Quiet
    <2> QED BY <2>1, <2>2 DEF Fresh
  <1> QED BY <1>1, Invariance, PTL
===============================================================================
