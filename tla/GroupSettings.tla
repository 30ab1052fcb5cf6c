----------------------------- MODULE GroupSettings -----------------------------
(***************************************************************************)
(* The settings of a call group: its members in the order in which they    *)
(* are rung, and an option, such as what a caller of it hears.             *)
(*                                                                         *)
(* Each page has a model of the group of its own, which asks for the       *)
(* group's settings.  The answer is merged into the model that the store   *)
(* has for the group: an earlier page's, until this page's has its first   *)
(* answer.  Merging changes the members one by one and never makes their   *)
(* list shorter; then the page's model is made equal to the store's.       *)
(***************************************************************************)
EXTENDS OnePage, Sequences, SequencesExt

CONSTANTS Users,     \* users with an extension
          Members,   \* the members at first, in order
          Options,   \* values of the option
          Playable,  \* those that can be taken: a greeting needs a recording
          FirstOption,  \* the option at first
          MaxGroupSent  \* bound: as MaxSent, for what this page sends

ASSUME GroupAssumption ==
  /\ Members \in Seq(Users) /\ IsInjective(Members)
  /\ Playable \subseteq Options /\ FirstOption \in Playable

VARIABLES
  ring,     \* the members, at the backend
  option,   \* the option, at the backend
  group,    \* members and option of the model in the store
  owner,    \* the visit whose page's model that is; 0 for another page's
  visit,    \* number of the request sent when the page was opened
  ready,    \* its model has had its first answer
  sub,      \* page shown inside: "none", "settings" or "members"
  build,    \* its number
  rows,     \* rows of the list of members as they are arranged: the extension a
            \* row had when it was rendered, and its place in the model's list
  canSort,  \* the rows can be dragged
  canSave,  \* their order can be saved
  tab,      \* option whose tab is pressed
  dialogs,  \* forms to add a member: each with its number, the visit of its page, its
            \* stage, "asked" for the users or "open", the list it takes for the
            \* members, whether that is the store's, and the users it offers
  calls,    \* changes that are not answered
  loads,    \* questions for the settings that are not answered
  merged,   \* history: an answer changed the members under the rows
  mixed     \* history: a request was sent before the one before it was answered,
            \* or from the dialog of an earlier visit, or failed so that the page
            \* and the backend differ

backendVars == <<ring, option>>
modelVars == <<group, owner, visit, ready>>
viewVars == <<sub, build, rows, canSort, canSave, tab, merged>>
groupVars == <<backendVars, modelVars, viewVars, dialogs, calls, loads, mixed>>

GroupInit ==
  /\ ring = Members /\ option = FirstOption
  /\ group = [members |-> <<>>, option |-> FirstOption]
  /\ owner = 0 /\ visit = 0 /\ ready = FALSE
  /\ sub = "none" /\ build = 0 /\ rows = <<>> /\ canSort = FALSE /\ canSave = FALSE
  /\ tab = FirstOption /\ merged = FALSE
  /\ dialogs = {}
  /\ calls = {} /\ loads = {} /\ mixed = FALSE

Waiting == calls # {} \/ loads # {}

\* A dialog that is open is modal: it covers what is on the page, and not the
\* browser's history.  Until the users have come there is none.  Of several that
\* are open, any is used.
DialogOpen == \E d \in dialogs : d.stage = "open"

\* The lists of the dialogs are no longer the store's.
Frozen(ds) == {[d EXCEPT !.live = FALSE] : d \in ds}

Question == [no |-> sent + 1, visit |-> visit', read |-> FALSE,
             data |-> [members |-> <<>>, option |-> option]]

-----------------------------------------------------------------------------
(* The pages.                                                              *)

\* The rows of the members ms.
Rendered(ms) == [i \in DOMAIN ms |-> [id |-> ms[i], at |-> i]]

\* The page s is built inside, from the model g.
Build(s, g) ==
  /\ sub' = s /\ build' = sent'
  /\ rows' = IF s = "members" THEN Rendered(g.members) ELSE <<>>
  /\ canSort' = (rows' # <<>>) /\ canSave' = FALSE
  /\ tab' = g.option /\ merged' = FALSE

\* The page is opened, with a model of its own.  A model that waits for its first
\* answer is not left for another.
OpenGroup ==
  /\ sent < MaxGroupSent /\ OpenPage("group")
  /\ ready \/ loads = {}
  /\ visit' = sent' /\ ready' = FALSE
  /\ Build("none", group)
  /\ loads' = loads \cup {Question}
  /\ mixed' = (mixed \/ Waiting)
  /\ UNCHANGED <<backendVars, group, owner, dialogs, calls>>

\* Another page loads the directory: it puts a model of the group into the store,
\* which has its members under another name.
DirectoryComes ==
  /\ page # "group" /\ owner # 0
  /\ owner' = 0
  /\ group' = [members |-> <<>>, option |-> option]
  /\ dialogs' = Frozen(dialogs)
  /\ UNCHANGED <<pageVars, backendVars, visit, ready, viewVars, calls, loads, mixed>>

\* The other page is shown inside.
Show(s) ==
  /\ page = "group" /\ ready /\ s # sub
  /\ sent < MaxGroupSent /\ Send
  /\ Build(s, group)
  /\ UNCHANGED <<page, backendVars, modelVars, dialogs, calls, loads, mixed>>

-----------------------------------------------------------------------------
(* Changes.                                                                *)

\* The change c is posted.
Post(c) ==
  /\ sent < MaxGroupSent /\ Send
  /\ calls' = calls \cup {c}
  /\ UNCHANGED <<page, backendVars, owner, visit, ready>>

\* It is posted by the page.
PostHere(c) ==
  /\ page = "group" /\ ready
  /\ Post(c)
  /\ mixed' = (mixed \/ Waiting)

\* A row is dragged over the next one; a longer drag is several.
Drag(i) ==
  /\ page = "group" /\ canSort /\ i + 1 \in DOMAIN rows
  /\ rows' = [rows EXCEPT ![i] = rows[i + 1], ![i + 1] = rows[i]]
  /\ canSave' = TRUE
  /\ UNCHANGED <<pageVars, backendVars, modelVars, sub, build, canSort, tab, merged,
                 dialogs, calls, loads, mixed>>

\* Mutant of Save: the settings are not asked for.
SaveOnly ==
  /\ canSave
  /\ PostHere([kind |-> "order", no |-> sent + 1, build |-> build,
               ids |-> [i \in DOMAIN rows |-> rows[i].id], done |-> FALSE])
  /\ UNCHANGED <<group, viewVars, dialogs, loads>>

\* The order of the extensions of the rows is posted, and the settings are asked
\* for at once.
Save ==
  /\ canSave
  /\ PostHere([kind |-> "order", no |-> sent + 1, build |-> build,
               ids |-> [i \in DOMAIN rows |-> rows[i].id], done |-> FALSE])
  /\ loads' = loads \cup {Question}
  /\ UNCHANGED <<group, viewVars, dialogs>>

\* A member is deleted: the one the model has in the row's place.
Delete(i) ==
  /\ i \in DOMAIN rows
  /\ PostHere([kind |-> "delete", no |-> sent + 1, visit |-> visit,
               user |-> group.members[rows[i].at], done |-> FALSE, data |-> <<>>])
  /\ UNCHANGED <<group, viewVars, dialogs, loads>>

\* A tab is pressed.  What cannot be taken is shown and no more.
Press(o) ==
  /\ page = "group" /\ sub = "settings" /\ o # tab
  /\ tab' = o
  /\ \/ /\ o \notin Playable
        /\ UNCHANGED <<pageVars, backendVars, modelVars, calls, mixed>>
     \/ /\ o \in Playable
        /\ group' = [group EXCEPT !.option = o]
        /\ PostHere([kind |-> "option", no |-> sent + 1, value |-> o, done |-> FALSE])
  /\ UNCHANGED <<sub, build, rows, canSort, canSave, merged, dialogs, loads>>

-----------------------------------------------------------------------------
(* The dialogs to add a member.                                            *)

\* The link is pressed: a new form asks for the users.  The list of members is the
\* model's of this moment.
OpenDialog ==
  /\ page = "group" /\ sub = "members"
  /\ sent < MaxGroupSent /\ Send
  /\ dialogs' = dialogs \cup {[no |-> sent + 1, visit |-> visit, stage |-> "asked",
                               list |-> group.members, live |-> TRUE, offered |-> {}]}
  /\ UNCHANGED <<page, backendVars, modelVars, viewVars, calls, loads, mixed>>

\* The users come: those that are not in the list are offered, if there are any.
UsersCome(d) ==
  LET others == Users \ ToSet(d.list)
  IN  /\ d.stage = "asked"
      /\ dialogs' = (dialogs \ {d}) \cup
           {[d EXCEPT !.stage = "open", !.offered = us] : us \in {others} \ {{}}}
      /\ UNCHANGED <<pageVars, backendVars, modelVars, viewVars, calls, loads, mixed>>

\* It is cancelled, or the users do not come.
CloseDialog(d) ==
  /\ dialogs' = dialogs \ {d}
  /\ UNCHANGED <<pageVars, backendVars, modelVars, viewVars, calls, loads, mixed>>

\* One of the users offered is added to the model of the dialog's page, whatever
\* page is shown now, and the dialog is closed.
Add(d, u) ==
  /\ d.stage = "open" /\ u \in d.offered
  /\ Post([kind |-> "add", no |-> sent + 1, visit |-> d.visit, user |-> u, done |-> FALSE,
           data |-> <<>>])
  /\ mixed' = (mixed \/ Waiting \/ d.visit # owner)
  /\ dialogs' = dialogs \ {d}
  /\ UNCHANGED <<group, viewVars, loads>>

-----------------------------------------------------------------------------
(* The backend.                                                            *)

\* The backend carries c out.  An order that is not one of the members is refused.
CallCarriedOut(c) ==
  /\ ~c.done
  /\ \/ /\ c.kind = "order"
        /\ IsInjective(c.ids) /\ ToSet(c.ids) = ToSet(ring)
        /\ ring' = c.ids /\ UNCHANGED option
        /\ calls' = (calls \ {c}) \cup {[c EXCEPT !.done = TRUE]}
     \/ /\ c.kind \in {"add", "delete"}
        /\ \/ c.kind = "add" /\ c.user \notin ToSet(ring) /\ ring' = Append(ring, c.user)
           \/ /\ c.kind = "delete"
              /\ \E i \in DOMAIN ring : ring[i] = c.user /\ ring' = RemoveAt(ring, i)
           \/ c.kind = "add" /\ c.user \in ToSet(ring) /\ UNCHANGED ring
           \/ c.kind = "delete" /\ c.user \notin ToSet(ring) /\ UNCHANGED ring
        /\ calls' = (calls \ {c}) \cup {[c EXCEPT !.done = TRUE, !.data = ring']}
        /\ UNCHANGED option
     \/ /\ c.kind = "option"
        /\ option' = c.value /\ UNCHANGED ring
        /\ calls' = (calls \ {c}) \cup {[c EXCEPT !.done = TRUE]}
  /\ UNCHANGED <<pageVars, modelVars, viewVars, dialogs, loads, mixed>>

\* The backend reads the settings.
SettingsRead(l) ==
  /\ ~l.read
  /\ loads' = (loads \ {l}) \cup
       {[l EXCEPT !.read = TRUE, !.data = [members |-> ring, option |-> option]]}
  /\ mixed' = (mixed \/ \E c \in calls : ~c.done)
  /\ UNCHANGED <<pageVars, backendVars, modelVars, viewVars, dialogs, calls>>

-----------------------------------------------------------------------------
(* Answers.                                                                *)

\* Saving is disabled on the page that saved.
OrderAnswered(c) ==
  /\ c.kind = "order"
  /\ canSave' = (canSave /\ c.build # build)
  /\ UNCHANGED <<modelVars, sub, build, rows, canSort, tab, merged, dialogs>>

\* Mutant of MembersAnswered: the rows stay.
MembersAnsweredUnder(c) ==
  /\ c.kind \in {"add", "delete"}
  /\ group' = IF c.visit = owner THEN [group EXCEPT !.members = c.data] ELSE group
  /\ dialogs' = Frozen(dialogs)
  /\ UNCHANGED <<owner, visit, ready, viewVars>>

\* The model of the page that asked has a new list of members.  If that is the
\* one in the store, the page with the list is rendered anew: its rows cannot be
\* dragged.
MembersAnswered(c) ==
  /\ c.kind \in {"add", "delete"}
  /\ IF c.visit = owner
     THEN /\ group' = [group EXCEPT !.members = c.data]
          /\ rows' = IF sub = "members" THEN Rendered(c.data) ELSE rows
          /\ canSort' = FALSE /\ canSave' = FALSE /\ merged' = FALSE
          /\ dialogs' = Frozen(dialogs)
     ELSE UNCHANGED <<group, rows, canSort, canSave, merged, dialogs>>
  /\ UNCHANGED <<owner, visit, ready, sub, build, tab>>

CallAnswered(c) ==
  /\ c.done
  /\ calls' = calls \ {c}
  /\ \/ OrderAnswered(c)
     \/ MembersAnswered(c)
     \/ c.kind = "option" /\ UNCHANGED <<modelVars, viewVars, dialogs>>
  /\ UNCHANGED <<pageVars, backendVars, loads, mixed>>

\* c is refused, or its answer is lost: what the page has stays.
CallFails(c) ==
  /\ calls' = calls \ {c}
  /\ \/ OrderAnswered(c) /\ UNCHANGED mixed
     \/ /\ c.kind # "order"
        /\ mixed' = (mixed \/ (c.kind = "option") = ~c.done)
        /\ UNCHANGED <<modelVars, viewVars, dialogs>>
  /\ UNCHANGED <<pageVars, backendVars, loads>>

\* The members old with those of an answer merged into them.
Merged(old, new) ==
  [i \in DOMAIN old \cup DOMAIN new |-> IF i \in DOMAIN new THEN new[i] ELSE old[i]]

\* The settings come.  The first answer to a page's question makes its model the
\* store's, and builds the page inside.  A later one changes the members under
\* the rows, which are rendered anew only if the list is longer.
SettingsCome(l) ==
  LET ms == Merged(group.members, l.data.members)
      first == l.visit = visit /\ ~ready
      anew == sub = "members" /\ rows # <<>> /\ Len(ms) > Len(group.members)
      shared == {IF d.live THEN [d EXCEPT !.list = ms] ELSE d : d \in dialogs}
  IN  /\ l.read
      /\ loads' = loads \ {l}
      /\ group' = [members |-> ms, option |-> l.data.option]
      /\ UNCHANGED <<pageVars, backendVars, visit, calls, mixed>>
      /\ \/ /\ first
            /\ owner' = visit /\ ready' = TRUE
            /\ IF page = "group"
               THEN \E s \in {"settings", "members"} : Build(s, group')
               ELSE UNCHANGED viewVars
            /\ dialogs' = Frozen(shared)
         \/ /\ ~first
            /\ rows' = IF anew THEN Rendered(ms) ELSE rows
            /\ merged' = (~anew /\ (merged \/ ms # group.members))
            /\ dialogs' = shared
            /\ UNCHANGED <<owner, ready, sub, build, canSort, canSave, tab>>

\* Nothing is done about a failure.
SettingsFail(l) ==
  /\ loads' = loads \ {l}
  /\ mixed' = (mixed \/ ready)
  /\ UNCHANGED <<pageVars, backendVars, modelVars, viewVars, dialogs, calls>>

\* What an open dialog covers.
GroupClicks ==
  \/ Save \/ OpenDialog
  \/ \E i \in DOMAIN rows : Drag(i) \/ Delete(i)
  \/ \E o \in Options : Press(o)

GroupRest ==
  \/ OpenGroup \/ DirectoryComes
  \/ \E s \in {"settings", "members"} : Show(s)
  \/ \E d \in dialogs : UsersCome(d) \/ CloseDialog(d) \/ \E u \in Users : Add(d, u)
  \/ \E c \in calls : CallCarriedOut(c) \/ CallAnswered(c) \/ CallFails(c)
  \/ \E l \in loads : SettingsRead(l) \/ SettingsCome(l) \/ SettingsFail(l)

GroupNext == GroupClicks \/ GroupRest

-----------------------------------------------------------------------------
Models == [members : Seq(Users), option : Options]

DialogsTo(n) == [no : 1..n, visit : 0..n, stage : {"asked", "open"}, list : Seq(Users),
                 live : BOOLEAN, offered : SUBSET Users]

CallsTo(n) ==
  [kind : {"order"}, no : 1..n, build : 0..n, ids : Seq(Users), done : BOOLEAN]
  \cup [kind : {"add", "delete"}, no : 1..n, visit : 0..n, user : Users, done : BOOLEAN,
        data : Seq(Users)]
  \cup [kind : {"option"}, no : 1..n, value : Playable, done : BOOLEAN]

QuestionsTo(n) == [no : 1..n, visit : 0..n, read : BOOLEAN, data : Models]

GroupTypeOK ==
  /\ ring \in Seq(Users) /\ option \in Playable
  /\ group \in Models
  /\ owner \in 0..sent /\ visit \in 0..sent /\ ready \in BOOLEAN
  /\ sub \in {"none", "settings", "members"} /\ build \in 0..sent
  /\ rows \in Seq([id : Users, at : Nat \ {0}])
  /\ canSort \in BOOLEAN /\ canSave \in BOOLEAN
  /\ tab \in Options
  /\ dialogs \subseteq DialogsTo(sent)
  /\ calls \subseteq CallsTo(sent)
  /\ loads \subseteq QuestionsTo(sent)
  /\ merged \in BOOLEAN /\ mixed \in BOOLEAN

\* An order is saved as it is seen: each row has the extension of the member shown
\* in it, and each member has one row, however they are dragged, added and
\* deleted, unless an answer has changed the members under the rows
\* (members_page.coffee:56-60, members_page.html:21-23, group.coffee:30-33).
RowsAreMembers ==
  page = "group" /\ ready /\ sub = "members" /\ ~merged =>
    /\ DOMAIN rows = DOMAIN group.members
    /\ \A i \in DOMAIN rows : /\ rows[i].at \in DOMAIN group.members
                              /\ rows[i].id = group.members[rows[i].at]
                              /\ \A j \in DOMAIN rows : rows[i].at = rows[j].at => i = j

\* What the page has is what the backend has: when all is answered, they have the
\* same members in the same order and the same option, unless a request was sent
\* before the one before it was answered, the settings were read before an order
\* was changed, or a request failed (members_page.coffee:61-71,
\* call_settings_page.coffee:53-68, group_member_delete_form.coffee:25-29).
SettledIsBackends ==
  page = "group" /\ ready /\ ~mixed /\ ~Waiting =>
    group = [members |-> ring, option |-> option]
===============================================================================
