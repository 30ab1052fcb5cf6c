------------------------------ MODULE CallGroups ------------------------------
(***************************************************************************)
(* The dialog in which an administrator ticks the call groups of a line.   *)
(*                                                                         *)
(* Opening it takes the line's groups as the page has them and asks for    *)
(* the list of all groups; a tick or its removal is noted as an addition   *)
(* or a deletion; saving posts one request for each.  When all have        *)
(* succeeded, or one has failed, the dialog is closed and the directory is *)
(* loaded again, which renders the page anew: a line of the new rendering  *)
(* has no dialog yet.                                                      *)
(***************************************************************************)
EXTENDS Naturals, Sequences, Functions

CONSTANTS Groups,     \* call groups, without the conference
          MaxChanges, \* bound: additions and deletions of one dialog
          MaxLists,   \* bound: lists of groups asked for at a time
          MaxSaves    \* bound: saves, and loads after them

ASSUME BoundAssumption ==
  MaxChanges \in Nat /\ MaxLists \in Nat \ {0} /\ MaxSaves \in Nat \ {0}

VARIABLES
  backend,  \* groups the line is a member of, at the backend
  members,  \* the same as the page has it
  dialog,   \* the dialog: the rendering it belongs to, the line's groups when it
            \* was opened, the boxes that are ticked, whether there are none, the
            \* ones of an earlier opening or new ones, the changes noted
  lists,    \* number of lists of groups the dialog waits for
  requests, \* requests of saves that are not answered
  open,     \* saves that are not settled
  saved,    \* number of saves so far
  loads,    \* loads of the directory that are not answered
  issued,   \* number of loads so far
  listed,   \* the load the page shows
  unseen    \* history: a request of a settled save was carried out since the last load

vars == <<backend, members, dialog, lists, requests, open, saved, loads, issued, listed, unseen>>

Init ==
  /\ backend \in SUBSET Groups
  /\ members = backend
  /\ dialog = [open |-> FALSE, line |-> 0, members |-> {}, ticks |-> {}, boxes |-> "none",
               adds |-> <<>>, dels |-> <<>>]
  /\ lists = 0
  /\ requests = {} /\ open = {} /\ saved = 0
  /\ loads = {} /\ issued = 0 /\ listed = 0
  /\ unseen = FALSE

-----------------------------------------------------------------------------
(* The dialog.                                                             *)

\* The dialog of this rendering is used again, with the boxes it has.
Open ==
  LET again == dialog.line = listed
  IN  /\ ~dialog.open
      /\ again => lists < MaxLists
      /\ lists' = IF again THEN lists + 1 ELSE 1
      /\ dialog' = [open |-> TRUE, line |-> listed, members |-> members,
                    ticks |-> IF again THEN dialog.ticks ELSE {},
                    boxes |-> IF again /\ dialog.boxes # "none" THEN "old" ELSE "none",
                    adds |-> <<>>, dels |-> <<>>]
      /\ UNCHANGED <<backend, members, requests, open, saved, loads, issued, listed, unseen>>

Cancel ==
  /\ dialog.open
  /\ dialog' = [dialog EXCEPT !.open = FALSE]
  /\ UNCHANGED <<backend, members, lists, requests, open, saved, loads, issued, listed, unseen>>

\* Mutant of ListComes: the boxes are ticked by what the page has now.
ListComesNow ==
  /\ lists > 0
  /\ lists' = lists - 1
  /\ dialog' = [dialog EXCEPT !.ticks = members, !.boxes = "new"]
  /\ UNCHANGED <<backend, members, requests, open, saved, loads, issued, listed, unseen>>

\* The list of groups comes: the boxes are rendered, and the line's are ticked.
ListComes ==
  /\ lists > 0
  /\ lists' = lists - 1
  /\ dialog' = [dialog EXCEPT !.ticks = dialog.members, !.boxes = "new"]
  /\ UNCHANGED <<backend, members, requests, open, saved, loads, issued, listed, unseen>>

\* Mutant of ListFails: it may fail unasked.
ListFailsUnasked ==
  /\ lists' = lists - 1
  /\ UNCHANGED <<backend, members, dialog, requests, open, saved, loads, issued, listed, unseen>>

ListFails ==
  /\ lists > 0
  /\ lists' = lists - 1
  /\ UNCHANGED <<backend, members, dialog, requests, open, saved, loads, issued, listed, unseen>>

\* A box can be clicked.
Clickable ==
  /\ dialog.open /\ dialog.boxes # "none"
  /\ Len(dialog.adds) + Len(dialog.dels) < MaxChanges

\* Mutant of Tick: it does not look whether the line is a member already.
TickAnyway(g) ==
  /\ Clickable /\ g \notin dialog.ticks
  /\ dialog' = [dialog EXCEPT !.ticks = @ \cup {g}, !.adds = Append(@, g)]
  /\ UNCHANGED <<backend, members, lists, requests, open, saved, loads, issued, listed, unseen>>

\* A group the line is not in is an addition.  The deletions stay as they are:
\* what filter returns is dropped.
Tick(g) ==
  /\ Clickable /\ g \notin dialog.ticks
  /\ dialog' = [dialog EXCEPT !.ticks = @ \cup {g},
                              !.adds = IF g \in dialog.members THEN @ ELSE Append(@, g)]
  /\ UNCHANGED <<backend, members, lists, requests, open, saved, loads, issued, listed, unseen>>

\* A group the line is in is a deletion.  The additions stay as they are.
Untick(g) ==
  /\ Clickable /\ g \in dialog.ticks
  /\ dialog' = [dialog EXCEPT !.ticks = @ \ {g},
                              !.dels = IF g \in dialog.members THEN Append(@, g) ELSE @]
  /\ UNCHANGED <<backend, members, lists, requests, open, saved, loads, issued, listed, unseen>>

-----------------------------------------------------------------------------
(* Saving.                                                                 *)

LoadAll ==
  /\ issued < MaxSaves
  /\ issued' = issued + 1
  /\ loads' = loads \cup {[n |-> issued + 1, read |-> FALSE, data |-> {}]}
  /\ unseen' = FALSE

\* All requests of the save s have succeeded, or one has failed.  Its dialog is
\* closed, although it may have been opened again.
Settle(s) ==
  /\ open' = open \ {s}
  /\ dialog' = [dialog EXCEPT !.open = @ /\ dialog.line # s.line]
  /\ LoadAll

\* The n-th save's requests for the changes cs.
Posted(n, o, cs) ==
  {[save |-> n, no |-> i, op |-> o, group |-> cs[i], done |-> FALSE] : i \in DOMAIN cs}

\* One request for each change noted; without any the save is settled at once.
Save ==
  LET posted == Posted(saved + 1, "add", dialog.adds) \cup Posted(saved + 1, "delete", dialog.dels)
      s == [n |-> saved + 1, line |-> dialog.line]
  IN  /\ dialog.open
      /\ saved < MaxSaves
      /\ saved' = saved + 1
      /\ requests' = requests \cup posted
      /\ IF posted = {}
         THEN Settle(s)
         ELSE open' = open \cup {s} /\ UNCHANGED <<dialog, loads, issued, unseen>>
      /\ UNCHANGED <<backend, members, lists, listed>>

\* The backend carries r out.
Accept(r) ==
  /\ ~r.done
  /\ backend' = IF r.op = "add" THEN backend \cup {r.group} ELSE backend \ {r.group}
  /\ requests' = (requests \ {r}) \cup {[r EXCEPT !.done = TRUE]}
  /\ UNCHANGED <<members, dialog, lists, open, saved, loads, issued, listed, unseen>>

\* The last answer settles the save, if none before was a failure.
Answered(r) ==
  /\ r.done
  /\ requests' = requests \ {r}
  /\ \/ \E s \in open : /\ s.n = r.save
                        /\ \A q \in requests \ {r} : q.save # r.save
                        /\ Settle(s)
     \/ /\ \E s \in open : s.n = r.save
        /\ \E q \in requests \ {r} : q.save = r.save
        /\ UNCHANGED <<dialog, open, loads, issued, unseen>>
     \/ /\ \A s \in open : s.n # r.save
        /\ unseen' = TRUE
        /\ UNCHANGED <<dialog, open, loads, issued>>
  /\ UNCHANGED <<backend, members, lists, saved, listed>>

\* Mutant of Failed: nothing is loaded again.
FailedQuietly(r) ==
  /\ requests' = requests \ {r}
  /\ open' = {s \in open : s.n # r.save}
  /\ UNCHANGED <<backend, members, dialog, lists, saved, loads, issued, listed, unseen>>

\* r is refused, or its answer is lost: the first failure settles the save.
Failed(r) ==
  /\ requests' = requests \ {r}
  /\ \/ \E s \in open : s.n = r.save /\ Settle(s)
     \/ /\ \A s \in open : s.n # r.save
        /\ unseen' = (unseen \/ r.done)
        /\ UNCHANGED <<dialog, open, loads, issued>>
  /\ UNCHANGED <<backend, members, lists, saved, listed>>

-----------------------------------------------------------------------------
(* Loading.                                                                *)

Read(l) ==
  /\ ~l.read
  /\ loads' = (loads \ {l}) \cup {[l EXCEPT !.read = TRUE, !.data = backend]}
  /\ UNCHANGED <<backend, members, dialog, lists, requests, open, saved, issued, listed, unseen>>

\* The page is rendered anew; an open dialog stays as it is.
LoadDone(l) ==
  /\ l.read
  /\ members' = l.data
  /\ listed' = l.n
  /\ loads' = loads \ {l}
  /\ UNCHANGED <<backend, dialog, lists, requests, open, saved, issued, unseen>>

LoadFails(l) ==
  /\ loads' = loads \ {l}
  /\ UNCHANGED <<backend, members, dialog, lists, requests, open, saved, issued, listed, unseen>>

Next ==
  \/ Open \/ Cancel \/ ListComes \/ ListFails
  \/ \E g \in Groups : Tick(g) \/ Untick(g)
  \/ Save
  \/ \E r \in requests : Accept(r) \/ Answered(r) \/ Failed(r)
  \/ \E l \in loads : Read(l) \/ LoadDone(l) \/ LoadFails(l)

Spec == Init /\ [][Next]_vars

-----------------------------------------------------------------------------
DialogsTo(i) == [open : BOOLEAN, line : 0..i, members : SUBSET Groups, ticks : SUBSET Groups,
                 boxes : {"none", "old", "new"}, adds : Seq(Groups), dels : Seq(Groups)]
RequestsTo(n) == [save : 1..n, no : 1..MaxChanges, op : {"add", "delete"}, group : Groups,
                  done : BOOLEAN]
SavesTo(n, i) == [n : 1..n, line : 0..i]
LoadsTo(i) == [n : 1..i, read : BOOLEAN, data : SUBSET Groups]

TypeOK ==
  /\ backend \subseteq Groups /\ members \subseteq Groups
  /\ dialog \in DialogsTo(issued)
  /\ Len(dialog.adds) + Len(dialog.dels) <= MaxChanges
  /\ lists \in 0..MaxLists
  /\ requests \subseteq RequestsTo(saved)
  /\ open \subseteq SavesTo(saved, issued)
  /\ saved \in 0..MaxSaves /\ issued \in 0..MaxSaves /\ listed \in 0..issued
  /\ loads \subseteq LoadsTo(issued)
  /\ unseen \in BOOLEAN

\* What the boxes show is noted: a group that is ticked and that the line is not
\* in is an addition, and one it is in that is not ticked is a deletion, however
\* often boxes were ticked and whatever was loaded meanwhile
\* (add_to_call_group.coffee:45-66, 75-88).
ShownIsNoted ==
  dialog.boxes = "new" => /\ dialog.ticks \ dialog.members \subseteq Range(dialog.adds)
                          /\ dialog.members \ dialog.ticks \subseteq Range(dialog.dels)

\* The requests of one save can be carried out in any order: none adds the line
\* to a group from which another takes it (add_to_call_group.coffee:20-34).
RequestsAgree ==
  \A r, q \in requests : r.save = q.save /\ r.group = q.group => r.op = q.op

\* When no request is in flight and the newest load is shown, the page has what
\* the backend has, unless a request was carried out after its save was settled by
\* another's failure (config_edit_item_line.coffee:67-75).
SettledIsCurrent ==
  requests = {} /\ listed = issued /\ ~unseen => members = backend
===============================================================================
