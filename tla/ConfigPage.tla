------------------------------- MODULE ConfigPage -------------------------------
(***************************************************************************)
(* The administrator's configuration page.                                 *)
(*                                                                         *)
(* It lists the main line, the users with their lines (bundles), the       *)
(* bundles nobody has, and the call groups.  The directory is loaded from  *)
(* the backend; the tab (sub) filters it into items, which the page        *)
(* renders.  A handler that writes to the backend does not wait: its       *)
(* answer comes later, in any order, and most answers load the directory   *)
(* again.  Every load has two steps here, the backend's reading of its     *)
(* data and the browser's callback, so that writes and other loads come    *)
(* between.                                                                *)
(*                                                                         *)
(* "Are you sure?" warnings are drawn over an item or a line and carry its *)
(* index.  The overlay meant to disable the other items meanwhile has no   *)
(* size on this page (its style is the editable list's), so several        *)
(* warnings can be open.                                                   *)
(***************************************************************************)
EXTENDS Naturals, SequencesExt

CONSTANTS Users, Bundles, Groups,
          Main,       \* the main line, a group nobody deletes
          Unassigned, \* the owner of a bundle nobody has
          None,       \* no item, no line
          Order,      \* all items in the order the directory lists them
          Subs,       \* the tabs: "all", "users", "groups", "main", "unassigned"
          MaxWrites,  \* bound: requests that change the backend
          MaxLoads    \* bound: loads of the directory

Items == {Main} \cup Users \cup Bundles \cup Groups

ASSUME ItemsAssumption ==
  /\ Main \notin Users \cup Bundles \cup Groups
  /\ Users \cap Bundles = {} /\ Users \cap Groups = {} /\ Bundles \cap Groups = {}
  /\ Unassigned \notin Users /\ None \notin Items
ASSUME OrderAssumption == Order \in Seq(Items) /\ ToSet(Order) = Items /\ IsInjective(Order)
ASSUME BoundAssumption == MaxWrites \in Nat /\ MaxLoads \in Nat \ {0}

VARIABLES
  backend,   \* the company directory at the backend
  directory, \* options.directory
  lines,     \* the bundles of each user of the directory
  items,     \* options.items: what the page lists
  sub,       \* the tab of the URL
  asked,     \* open warnings over items
  lineAsked, \* open warnings over lines
  dialog,    \* the open dialog that assigns a bundle: its user, its choices
  writes,    \* writes in flight
  loads,     \* loads in flight
  posted,    \* number of writes so far
  issued,    \* number of loads so far, the newest load's id
  listed,    \* history: the load the directory comes from
  hidden,    \* history: items deleted from the list since it was rendered
  unseen     \* history: a write succeeded, its answer was lost, nothing reloads

vars == <<backend, directory, lines, items, sub, asked, lineAsked, dialog, writes,
          loads, posted, issued, listed, hidden, unseen>>

-----------------------------------------------------------------------------
(* What the backend has and how the directory lists it.                    *)

Backend == [owner : [Bundles -> Users \cup {Unassigned}], groups : SUBSET Groups]

\* The loop that pushes the entries of s that are in T to a new list.  It gives
\* what SelectSeq gives (MCConfigPage), as a function on the prefixes of s, of
\* which facts can be proved.
Kept(s, T) ==
  LET kept[n \in 0..Len(s)] ==
        IF n = 0 THEN <<>>
        ELSE IF s[n] \in T THEN Append(kept[n - 1], s[n]) ELSE kept[n - 1]
  IN kept[Len(s)]

LinesOf(b, u) == Kept(Order, {x \in Bundles : b.owner[x] = u})

\* A user is listed only through a bundle.
Present(b, x) ==
  \/ x = Main
  \/ x \in Users /\ \E l \in Bundles : b.owner[l] = x
  \/ x \in Bundles /\ b.owner[x] = Unassigned
  \/ x \in Groups /\ x \in b.groups

Listing(b) == Kept(Order, {x \in Items : Present(b, x)})

InSub(s, x) ==
  CASE s = "users"      -> x \in Users
    [] s = "groups"     -> x \in Groups \cup {Main}
    [] s = "main"       -> x = Main
    [] s = "unassigned" -> x \in Bundles
    [] OTHER            -> TRUE

Tab(s) == {x \in Items : InSub(s, x)}

Filter(d, s) == Kept(d, Tab(s))

-----------------------------------------------------------------------------
(* Steps the handlers share.                                               *)

\* Mutant of Render: the list is updated in place, and a warning over an item
\* stays where an item is left.
RenderInPlace(new, gone) ==
  /\ items' = new
  /\ hidden' = gone
  /\ asked' = {w \in asked : w.idx \in DOMAIN new}
  /\ lineAsked' = {}

\* A change of items renders the list again, and the warnings are gone.
Render(new, gone) ==
  /\ items' = new
  /\ hidden' = gone
  /\ asked' = {}
  /\ lineAsked' = {}

Post(ws) ==
  /\ posted + Cardinality(ws) <= MaxWrites
  /\ posted' = posted + Cardinality(ws)
  /\ writes' = writes \cup ws

\* A request by the handler of a warning that was shown on an item or a line.
Write(id, op, item, line, shown) ==
  [id |-> id, op |-> op, item |-> item, line |-> line, shown |-> shown, stage |-> "sent"]

LoadAll ==
  /\ issued < MaxLoads
  /\ issued' = issued + 1
  /\ loads' = loads \cup {[id |-> issued + 1, seen |-> None]}
  /\ unseen' = FALSE

-----------------------------------------------------------------------------
(* The page is built: nothing is listed, the first load is on its way.     *)
Init ==
  /\ backend \in Backend
  /\ directory = <<>>
  /\ lines = [u \in Users |-> <<>>]
  /\ items = <<>>
  /\ sub \in Subs
  /\ asked = {}
  /\ lineAsked = {}
  /\ dialog = None
  /\ writes = {}
  /\ loads = {[id |-> 1, seen |-> None]}
  /\ posted = 0
  /\ issued = 1
  /\ listed = 0
  /\ hidden = {}
  /\ unseen = FALSE

\* Another tab: the directory is filtered anew.
SwitchSub(s) ==
  /\ s # sub
  /\ sub' = s
  /\ Render(Filter(directory, s), {})
  /\ UNCHANGED <<backend, directory, lines, dialog, writes, loads, posted, issued,
                 listed, unseen>>

-----------------------------------------------------------------------------
(* The administrator.                                                      *)

Covered(x) == \E w \in asked : w.item = x

\* Mutant of AskDelete: the index is counted from zero.
AskDeleteFromZero(i) ==
  /\ dialog = None
  /\ items[i] \in Users \cup Groups
  /\ ~Covered(items[i])
  /\ asked' = asked \cup {[idx |-> i - 1, item |-> items[i]]}
  /\ UNCHANGED <<backend, directory, lines, items, sub, lineAsked, dialog, writes,
                 loads, posted, issued, listed, hidden, unseen>>

\* The Delete link of a user or a group.
AskDelete(i) ==
  /\ dialog = None
  /\ items[i] \in Users \cup Groups
  /\ ~Covered(items[i])
  /\ asked' = asked \cup {[idx |-> i, item |-> items[i]]}
  /\ UNCHANGED <<backend, directory, lines, items, sub, lineAsked, dialog, writes,
                 loads, posted, issued, listed, hidden, unseen>>

\* The icon that takes a line from a user who has another one.
AskUnassign(u, j) ==
  /\ dialog = None
  /\ Contains(items, u) /\ ~Covered(u)
  /\ \A w \in lineAsked : w.user # u
  /\ Len(lines[u]) > 1
  /\ lineAsked' = lineAsked \cup {[user |-> u, idx |-> j, line |-> lines[u][j]]}
  /\ UNCHANGED <<backend, directory, lines, items, sub, asked, dialog, writes, loads,
                 posted, issued, listed, hidden, unseen>>

\* No, on an item: all warnings are taken away.
RejectDelete ==
  /\ dialog = None
  /\ asked # {}
  /\ asked' = {}
  /\ lineAsked' = {}
  /\ UNCHANGED <<backend, directory, lines, items, sub, dialog, writes, loads, posted,
                 issued, listed, hidden, unseen>>

\* No, on a line: that user's warning is taken away.
RejectUnassign(w) ==
  /\ dialog = None
  /\ ~Covered(w.user)
  /\ lineAsked' = lineAsked \ {w}
  /\ UNCHANGED <<backend, directory, lines, items, sub, asked, dialog, writes, loads,
                 posted, issued, listed, hidden, unseen>>

\* Yes, on a line.
ConfirmUnassign(w) ==
  /\ dialog = None
  /\ ~Covered(w.user)
  /\ lines' = [lines EXCEPT ![w.user] = RemoveAt(@, w.idx)]
  /\ Post({Write(posted + 1, "removebundleforuser", w.user, lines[w.user][w.idx], w.line)})
  /\ lineAsked' = lineAsked \ {w}
  /\ UNCHANGED <<backend, directory, items, sub, asked, dialog, loads, issued, listed, hidden,
                 unseen>>

\* Yes, on an item.  The click runs two handlers: the list's, which deletes the
\* item, and before it the item's own, meant for its lines' warnings, which
\* takes the line of the same index from a user who has one.
ConfirmDelete(w) ==
  LET x == items[w.idx]
      also == x \in Users /\ w.idx \in DOMAIN lines[x] IN
  /\ dialog = None
  /\ lines' = IF also THEN [lines EXCEPT ![x] = RemoveAt(@, w.idx)] ELSE lines
  /\ Post({Write(posted + 1, "delete", x, None, w.item)}
          \cup IF also THEN {Write(posted + 2, "removebundleforuser", x,
                                   lines[x][w.idx], w.item)} ELSE {})
  /\ Render(RemoveAt(items, w.idx), hidden \cup {x})
  /\ UNCHANGED <<backend, directory, sub, dialog, loads, issued, listed, unseen>>

\* Add Line: the dialog offers the bundles that were unassigned when the page
\* was rendered, and stays open when it is rendered again.
OpenDialog(u) ==
  /\ dialog = None
  /\ Contains(items, u) /\ ~Covered(u)
  /\ \A w \in lineAsked : w.user # u
  /\ lines[u] # <<>>
  /\ ToSet(directory) \cap Bundles # {}
  /\ dialog' = [user |-> u, choices |-> ToSet(directory) \cap Bundles]
  /\ UNCHANGED <<backend, directory, lines, items, sub, asked, lineAsked, writes, loads,
                 posted, issued, listed, hidden, unseen>>

SelectBundle(b) ==
  /\ dialog # None
  /\ b \in dialog.choices
  /\ Post({Write(posted + 1, "addbundleforuser", dialog.user, b, None)})
  /\ dialog' = None
  /\ UNCHANGED <<backend, directory, lines, items, sub, asked, lineAsked, loads, issued,
                 listed, hidden, unseen>>

CancelDialog ==
  /\ dialog # None
  /\ dialog' = None
  /\ UNCHANGED <<backend, directory, lines, items, sub, asked, lineAsked, writes, loads,
                 posted, issued, listed, hidden, unseen>>

\* Save, on a bundle nobody has: a new user gets it.
AddUserToBundle(b, u) ==
  /\ dialog = None
  /\ Contains(items, b)
  /\ Post({Write(posted + 1, "adduserwithbundles", u, b, None)})
  /\ UNCHANGED <<backend, directory, lines, items, sub, asked, lineAsked, dialog, loads,
                 issued, listed, hidden, unseen>>

\* The dialog of the page's button Add Call Group.
AddCallGroup(g) ==
  /\ dialog = None
  /\ Post({Write(posted + 1, "addgroup", g, None, None)})
  /\ UNCHANGED <<backend, directory, lines, items, sub, asked, lineAsked, dialog, loads,
                 issued, listed, hidden, unseen>>

-----------------------------------------------------------------------------
(* The backend.                                                            *)

Possible(w) ==
  CASE w.op = "delete" -> Present(backend, w.item)
    [] w.op = "addgroup" -> w.item \notin backend.groups
    [] w.op = "removebundleforuser" -> backend.owner[w.line] = w.item
    [] w.op = "addbundleforuser" ->
         backend.owner[w.line] = Unassigned /\ Present(backend, w.item)
    [] w.op = "adduserwithbundles" ->
         backend.owner[w.line] = Unassigned /\ ~Present(backend, w.item)

Effect(w) ==
  CASE w.op = "delete" ->
         [owner  |-> [b \in Bundles |-> IF backend.owner[b] = w.item THEN Unassigned
                                        ELSE backend.owner[b]],
          groups |-> backend.groups \ {w.item}]
    [] w.op = "addgroup" -> [backend EXCEPT !.groups = @ \cup {w.item}]
    [] w.op = "removebundleforuser" -> [backend EXCEPT !.owner[w.line] = Unassigned]
    [] OTHER -> [backend EXCEPT !.owner[w.line] = w.item]

Accept(w) ==
  /\ w.stage = "sent"
  /\ Possible(w)
  /\ backend' = Effect(w)
  /\ writes' = (writes \ {w}) \cup {[w EXCEPT !.stage = "accepted"]}
  /\ UNCHANGED <<directory, lines, items, sub, asked, lineAsked, dialog, loads, posted,
                 issued, listed, hidden, unseen>>

\* A load reads the directory.
Read(l) ==
  /\ l.seen = None
  /\ loads' = (loads \ {l}) \cup {[l EXCEPT !.seen = backend]}
  /\ UNCHANGED <<backend, directory, lines, items, sub, asked, lineAsked, dialog, writes,
                 posted, issued, listed, hidden, unseen>>

-----------------------------------------------------------------------------
(* The callbacks.                                                          *)

\* Mutant of Done: the directory is not loaded again.
DoneQuietly(w) ==
  /\ w.stage = "accepted"
  /\ writes' = writes \ {w}
  /\ UNCHANGED <<backend, directory, lines, items, sub, asked, lineAsked, dialog, loads,
                 posted, issued, listed, hidden, unseen>>

\* A write is answered with success: the directory is loaded again.
Done(w) ==
  /\ w.stage = "accepted"
  /\ writes' = writes \ {w}
  /\ LoadAll
  /\ UNCHANGED <<backend, directory, lines, items, sub, asked, lineAsked, dialog, posted,
                 listed, hidden>>

\* A write fails: it was refused, or its answer was lost.  The handlers of
\* assignments load the directory again, those of deletions and of new groups
\* do not.
Fail(w) ==
  /\ writes' = writes \ {w}
  /\ IF w.op \in {"delete", "addgroup"}
     THEN /\ unseen' = (unseen \/ w.stage = "accepted")
          /\ UNCHANGED <<loads, issued>>
     ELSE LoadAll
  /\ UNCHANGED <<backend, directory, lines, items, sub, asked, lineAsked, dialog, posted,
                 listed, hidden>>

\* Mutant of LoadDone: the directory is replaced and not filtered.
LoadDoneUnfiltered(l) ==
  /\ l.seen # None
  /\ loads' = loads \ {l}
  /\ directory' = Listing(l.seen)
  /\ lines' = [u \in Users |-> LinesOf(l.seen, u)]
  /\ Render(Listing(l.seen), {})
  /\ listed' = l.id
  /\ UNCHANGED <<backend, sub, dialog, writes, posted, issued, unseen>>

\* The directory comes: it is replaced, and filtered by the tab of that moment.
LoadDone(l) ==
  /\ l.seen # None
  /\ loads' = loads \ {l}
  /\ directory' = Listing(l.seen)
  /\ lines' = [u \in Users |-> LinesOf(l.seen, u)]
  /\ Render(Filter(Listing(l.seen), sub), {})
  /\ listed' = l.id
  /\ UNCHANGED <<backend, sub, dialog, writes, posted, issued, unseen>>

LoadFailed(l) ==
  /\ loads' = loads \ {l}
  /\ UNCHANGED <<backend, directory, lines, items, sub, asked, lineAsked, dialog, writes,
                 posted, issued, listed, hidden, unseen>>

Next ==
  \/ \E s \in Subs : SwitchSub(s)
  \/ \E i \in DOMAIN items : AskDelete(i)
  \/ \E u \in Users : \E j \in DOMAIN lines[u] : AskUnassign(u, j)
  \/ RejectDelete
  \/ \E w \in lineAsked : RejectUnassign(w) \/ ConfirmUnassign(w)
  \/ \E w \in asked : ConfirmDelete(w)
  \/ \E u \in Users : OpenDialog(u)
  \/ \E b \in Bundles : SelectBundle(b)
  \/ CancelDialog
  \/ \E b \in Bundles, u \in Users : AddUserToBundle(b, u)
  \/ \E g \in Groups : AddCallGroup(g)
  \/ \E w \in writes : Accept(w) \/ Done(w) \/ Fail(w)
  \/ \E l \in loads : Read(l) \/ LoadDone(l) \/ LoadFailed(l)

Spec == Init /\ [][Next]_vars

-----------------------------------------------------------------------------
Writes == [id : 1..MaxWrites,
           op : {"delete", "addgroup", "removebundleforuser", "addbundleforuser",
                 "adduserwithbundles"},
           item : Items, line : Bundles \cup {None}, shown : Items \cup {None},
           stage : {"sent", "accepted"}]

TypeOK ==
  /\ backend \in Backend
  /\ directory \in Seq(Items)
  /\ lines \in [Users -> Seq(Bundles)]
  /\ items \in Seq(Items)
  /\ sub \in Subs
  /\ asked \subseteq [idx : 1..Len(items), item : Users \cup Groups]
  /\ lineAsked \subseteq [user : Users, idx : Nat, line : Bundles]
  /\ dialog \in {None} \cup [user : Users, choices : SUBSET Bundles]
  /\ writes \subseteq Writes
  /\ loads \subseteq [id : 1..issued, seen : Backend \cup {None}]
  /\ posted \in 0..MaxWrites
  /\ issued \in 1..MaxLoads
  /\ listed \in 0..issued
  /\ hidden \subseteq Items
  /\ unseen \in BOOLEAN

\* What the page lists is the directory, filtered by the tab, but for items
\* whose deletion was confirmed since: no answer and no tab leaves the list
\* behind (switch_sub, config_index.coffee:77-104).
ShownIsDirectory ==
  items = Kept(directory, Tab(sub) \ hidden)

\* A deletion is of the item its warning was drawn on, and a line confirmed in
\* a line's warning is that line, though both are found by an index and the
\* lists change while the warning is open.
ConfirmedIsShown ==
  \A w \in writes :
    /\ w.op = "delete" => w.item = w.shown
    /\ w.op = "removebundleforuser" /\ w.shown \in Bundles => w.line = w.shown

\* When nothing is being written and the newest load is the one listed, the
\* page lists what the backend has: every write the page was told of is
\* followed by a load (a lost answer to a deletion or a new group is not).
SettledIsCurrent ==
  writes = {} /\ listed = issued /\ ~unseen =>
    /\ directory = Listing(backend)
    /\ \A u \in Users : lines[u] = LinesOf(backend, u)

\* A line is taken from a user only when the warning confirmed was a line's:
\* config_edit_item.coffee:87 and :97 say of the handlers that they unassign,
\* or remove, a user's bundle.
UnassignConfirmed ==
  \A w \in writes : w.op = "removebundleforuser" => w.shown = w.line
================================================================================
