-------------------------------- MODULE Wizard --------------------------------
(***************************************************************************)
(* The wizard in which a new administrator chooses the phone and the       *)
(* number of each line, reviews the order and confirms it.                 *)
(*                                                                         *)
(* Each step is loaded and built anew whenever its address is followed.    *)
(* The first reserves a number as soon as it is chosen and gives back the  *)
(* one that was chosen before; the second asks for a summary of the order  *)
(* when it is built; the third posts the order when it is built.  What is  *)
(* chosen is kept in the lines, which all steps share.                     *)
(***************************************************************************)
EXTENDS OnePage, Functions

CONSTANTS Lines, Numbers, Phones,
          FirstNumber,  \* the number of each line at first
          FirstPhone,   \* the phone of the lines at first
          NoNumber,     \* a line has no old number
          MaxWizardSent \* bound: as MaxSent, for what the wizard sends and loads

ASSUME WizardAssumption ==
  /\ FirstNumber \in Injection(Lines, Numbers) /\ FirstPhone \in Phones
  /\ NoNumber \notin Numbers

VARIABLES
  assigned,  \* the number of each line, at the backend
  held,      \* numbers reserved and not assigned, at the backend
  url,       \* step of the address; 0 when it names none, which is the first
  loading,   \* steps that are loaded, each with its number and, as a history, the
             \* phones of the lines when it was confirmed; {} if it was not
  known,     \* steps that have been loaded once
  step,      \* step shown; 0 before the lines have come
  built,     \* number of the request or load with which it was built
  lines,     \* what is chosen for each line: its number, the one to be replaced, the phone
  oldDid,    \* the number each line had when the first step shown was built
  picking,   \* dialog that is open to choose a phone or a number: its line, and the
             \* number of the form it belongs to with the old number of that line
  summary,   \* phones of the summary the second step shows; {} while there is none
  agreed,    \* the agreement under it is ticked
  requests,  \* requests that are not answered
  orders,    \* history: the orders posted, with the phones seen by who confirmed them
  kept,      \* history: no number was lost by a failure, no first step was built
             \* after a number was chosen, and no order was posted while one was
             \* being chosen or reserved or after another order
  late       \* history: a phone was chosen in a dialog that was left open, after the
             \* second step had been built

chosenVars == <<lines, oldDid, picking>>
addressVars == <<url, loading, known>>
wizardVars == <<assigned, held, addressVars, step, built, chosenVars, summary, agreed, requests,
                orders, kept, late>>

WizardInit ==
  /\ assigned = FirstNumber /\ held = {}
  /\ url = 0 /\ loading = {} /\ known = {} /\ step = 0 /\ built = 0
  /\ lines = [l \in Lines |-> [did |-> FirstNumber[l], old |-> NoNumber, phone |-> FirstPhone]]
  /\ oldDid = FirstNumber /\ picking = {}
  /\ summary = {} /\ agreed = FALSE
  /\ requests = {} /\ orders = {} /\ kept = TRUE /\ late = FALSE

PhonesOf(ls) == [l \in Lines |-> ls[l].phone]

-----------------------------------------------------------------------------
(* The steps.                                                              *)

\* Mutant of BuildStep1: the number to be replaced is that of the line's last choice.
BuildStep1Old ==
  /\ step' = 1
  /\ oldDid' = [l \in Lines |-> lines[l].old]
  /\ kept' = (kept /\ \A l \in Lines : lines[l].old = NoNumber)
  /\ UNCHANGED <<summary, agreed, requests, orders, late>>

\* The first step takes the number a line has as the one to be replaced, also
\* when it was chosen in an earlier first step.
BuildStep1 ==
  /\ step' = 1
  /\ oldDid' = [l \in Lines |-> lines[l].did]
  /\ kept' = (kept /\ \A l \in Lines : lines[l].old = NoNumber)
  /\ UNCHANGED <<summary, agreed, requests, orders, late>>

\* The second step asks for the summary.
BuildStep2(no) ==
  /\ step' = 2
  /\ summary' = {} /\ agreed' = FALSE /\ late' = FALSE
  /\ requests' = requests \cup
       {[kind |-> "review", no |-> no, phones |-> PhonesOf(lines), done |-> FALSE]}
  /\ UNCHANGED <<oldDid, orders, kept>>

\* The third step posts the order.
BuildStep3(no, seen) ==
  /\ step' = 3
  /\ requests' = requests \cup {[kind |-> "order", no |-> no, lines |-> lines, done |-> FALSE]}
  /\ orders' = orders \cup {[no |-> no, phones |-> PhonesOf(lines), seen |-> seen]}
  /\ kept' = /\ kept /\ orders = {}
             /\ \A r \in requests : r.kind # "reserve"
             /\ \A d \in picking : d.kind # "number"
  /\ UNCHANGED <<oldDid, summary, agreed, late>>

\* The step of l is built in place of the one that is shown.
BuildStep(l) ==
  /\ built' = l.no
  /\ \/ l.step = 1 /\ BuildStep1
     \/ l.step = 2 /\ BuildStep2(l.no)
     \/ l.step = 3 /\ BuildStep3(l.no, l.seen)
  /\ UNCHANGED <<assigned, held, lines, picking>>

-----------------------------------------------------------------------------
(* The addresses.                                                          *)

\* The page is opened, and the lines come.  It is opened once.
OpenWizard ==
  /\ step = 0 /\ built = 0
  /\ sent < MaxWizardSent /\ OpenPage("wizard")
  /\ step' = 1 /\ built' = sent + 1 /\ known' = {1}
  /\ UNCHANGED <<assigned, held, url, loading, chosenVars, summary, agreed, requests, orders, kept, late>>

\* The address u is followed, unless it is the address there is: its step is loaded.
\* One that has been loaded is there within milliseconds; otherwise the step before
\* is shown, with its links, until it comes.
Follow(u, seen) ==
  LET l == [no |-> sent + 1, step |-> IF u = 0 THEN 1 ELSE u, seen |-> seen]
  IN  /\ page = "wizard" /\ step # 0 /\ u # url
      /\ sent < MaxWizardSent /\ Send
      /\ url' = u
      /\ \/ l.step \in known /\ BuildStep(l) /\ UNCHANGED loading
         \/ /\ l.step \notin known /\ loading' = loading \cup {l}
            /\ UNCHANGED <<assigned, held, step, built, chosenVars, summary, agreed, requests, orders,
                           kept, late>>
      /\ UNCHANGED <<page, known>>

\* The step of l comes, and is built also when its address is not the page's any
\* more.  What asked for the same step before comes first.
Loaded(l) ==
  /\ \A m \in loading : m.no < l.no => m.step \notin known \cup {l.step}
  /\ loading' = loading \ {l} /\ known' = known \cup {l.step}
  /\ BuildStep(l)
  /\ UNCHANGED <<pageVars, url>>

Continue == step = 1 /\ Follow(2, {})

Back == step = 2 /\ Follow(1, {})

Confirm == step = 2 /\ agreed /\ Follow(3, {PhonesOf(lines)})

\* The disabled button is pressed before the summary has come: its handler looks
\* for the agreement under it and throws, so that the link is followed.
ConfirmEarly == step = 2 /\ summary = {} /\ Follow(3, {})

\* The browser's history, or an address that is typed.
Jump == \E u \in 0..3 : Follow(u, {})

-----------------------------------------------------------------------------
(* The choices.  Both dialogs are modal and do not belong to the step: the      *)
(* browser's history leads to other steps, and pages, under an open one.       *)

\* A dialog is opened by the form of the line l.
OpenPicker(kind, l) ==
  /\ page = "wizard" /\ step = 1 /\ picking = {}
  /\ picking' = {[kind |-> kind, line |-> l, form |-> built, old |-> oldDid[l]]}
  /\ UNCHANGED <<pageVars, assigned, held, addressVars, step, built, lines, oldDid, summary, agreed,
                 requests, orders, kept, late>>

ClosePicker ==
  /\ picking # {} /\ picking' = {}
  /\ UNCHANGED <<pageVars, assigned, held, addressVars, step, built, lines, oldDid, summary, agreed,
                 requests, orders, kept, late>>

\* The phone p is selected, and the dialog is closed.
ChoosePhone(d, p) ==
  /\ d.kind = "phone"
  /\ lines' = [lines EXCEPT ![d.line].phone = p]
  /\ picking' = {}
  /\ late' = (late \/ step # 1)
  /\ UNCHANGED <<pageVars, assigned, held, addressVars, step, built, oldDid, summary, agreed, requests,
                 orders, kept>>

\* The number n is to be reserved.  The dialog stays open.
Choose(d, n) ==
  /\ d.kind = "number" /\ n # lines[d.line].did
  /\ sent < MaxWizardSent /\ Send
  /\ requests' = requests \cup {[kind |-> "reserve", no |-> sent + 1, line |-> d.line, num |-> n,
                                 old |-> d.old, form |-> d.form, done |-> FALSE]}
  /\ UNCHANGED <<page, assigned, held, addressVars, step, built, chosenVars, summary, agreed, orders,
                 kept, late>>

\* The boxes under the summary are ticked.
Agree ==
  /\ page = "wizard" /\ step = 2 /\ summary # {}
  /\ agreed' = ~agreed
  /\ UNCHANGED <<pageVars, assigned, held, addressVars, step, built, chosenVars, summary, requests,
                 orders, kept, late>>

-----------------------------------------------------------------------------
(* The backend, and its answers.                                           *)

Dids(ls) == [l \in Lines |-> ls[l].did]

\* The backend carries r out.
CarriedOut(r) ==
  /\ ~r.done
  /\ \/ r.kind = "review" /\ UNCHANGED <<assigned, held>>
     \/ /\ r.kind = "reserve"
        /\ r.num \notin held \cup Range(assigned)
        /\ held' = held \cup {r.num}
        /\ UNCHANGED assigned
     \/ /\ r.kind = "unreserve"
        /\ held' = held \ {r.num}
        /\ UNCHANGED assigned
     \/ /\ r.kind = "order"
        /\ \A l \in Lines : r.lines[l].did \in held \cup {assigned[l]}
        /\ assigned' = Dids(r.lines)
        /\ held' = held \ Range(assigned')
  /\ requests' = (requests \ {r}) \cup {[r EXCEPT !.done = TRUE]}
  /\ UNCHANGED <<pageVars, addressVars, step, built, chosenVars, summary, agreed, orders, kept, late>>

\* What an answer leaves alone, whatever it is to.
AnswerKeeps == UNCHANGED <<pageVars, assigned, held, addressVars, step, built, oldDid, agreed, orders,
                           kept, late>>

\* Mutant of Reviewed: the answer to an earlier step is taken for this one's.
ReviewedAnyStep(r) ==
  /\ r.kind = "review"
  /\ requests' = requests \ {r}
  /\ summary' = {r.phones}
  /\ AnswerKeeps /\ UNCHANGED <<lines, picking>>

\* The summary is shown by the step that asked for it.
Reviewed(r) ==
  /\ r.kind = "review"
  /\ requests' = requests \ {r}
  /\ summary' = IF r.no = built THEN {r.phones} ELSE summary
  /\ AnswerKeeps /\ UNCHANGED <<lines, picking>>

\* The dialog of the form that asked is closed.
Picked(r) == {d \in picking : d.kind = "number" /\ d.form = r.form /\ d.line = r.line}

\* Mutant of Reserved: the number chosen before is not given back.
ReservedOnly(r) ==
  /\ r.kind = "reserve"
  /\ lines' = [lines EXCEPT ![r.line].did = r.num, ![r.line].old = r.old]
  /\ requests' = requests \ {r}
  /\ picking' = picking \ Picked(r)
  /\ AnswerKeeps /\ UNCHANGED summary

\* The line has the number.  The one it had is given back, unless it is the one
\* the form that asked takes for the line's old number.
Reserved(r) ==
  LET had == lines[r.line].did
  IN  /\ r.kind = "reserve"
      /\ lines' = [lines EXCEPT ![r.line].did = r.num, ![r.line].old = r.old]
      /\ requests' = (requests \ {r}) \cup
           {[kind |-> "unreserve", no |-> r.no, num |-> n, done |-> FALSE] : n \in {had} \ {r.old}}
      /\ picking' = picking \ Picked(r)
      /\ AnswerKeeps /\ UNCHANGED summary

\* Nothing is done with the answer to the others.
Answered(r) ==
  /\ r.done
  /\ \/ Reviewed(r)
     \/ Reserved(r)
     \/ /\ r.kind \in {"unreserve", "order"}
        /\ requests' = requests \ {r}
        /\ AnswerKeeps /\ UNCHANGED <<lines, picking, summary>>

\* r is refused, or its answer is lost: nothing is done but to tell the user.
Failed(r) ==
  /\ requests' = requests \ {r}
  /\ kept' = (kept /\ \/ r.kind \in {"review", "order"}
                      \/ r.kind = "reserve" /\ ~r.done
                      \/ r.kind = "unreserve" /\ r.done)
  /\ UNCHANGED <<pageVars, assigned, held, addressVars, step, built, chosenVars, summary, agreed,
                 orders, late>>

\* What an open dialog covers.
WizardClicks ==
  \/ Continue \/ Back \/ Confirm \/ ConfirmEarly \/ Agree
  \/ \E l \in Lines : \E k \in {"phone", "number"} : OpenPicker(k, l)

WizardRest ==
  \/ OpenWizard \/ Jump \/ ClosePicker
  \/ \E l \in loading : Loaded(l)
  \/ \E d \in picking : \/ \E p \in Phones : ChoosePhone(d, p)
                        \/ \E n \in Numbers : Choose(d, n)
  \/ \E r \in requests : CarriedOut(r) \/ Answered(r) \/ Failed(r)

WizardNext == WizardClicks \/ WizardRest

LineChoice == [did : Numbers, old : Numbers \cup {NoNumber}, phone : Phones]

Pickers(n) == [kind : {"phone", "number"}, line : Lines, form : 0..n, old : Numbers]

LoadsTo(n) == [no : 1..n, step : 1..3, seen : SUBSET [Lines -> Phones]]

RequestsTo(n) ==
  [kind : {"review"}, no : 1..n, phones : [Lines -> Phones], done : BOOLEAN]
  \cup [kind : {"reserve"}, no : 1..n, line : Lines, num : Numbers, old : Numbers, form : 0..n,
        done : BOOLEAN]
  \cup [kind : {"unreserve"}, no : 1..n, num : Numbers, done : BOOLEAN]
  \cup [kind : {"order"}, no : 1..n, lines : [Lines -> LineChoice], done : BOOLEAN]

OrdersTo(n) == [no : 1..n, phones : [Lines -> Phones], seen : SUBSET [Lines -> Phones]]

WizardTypeOK ==
  /\ assigned \in [Lines -> Numbers] /\ held \subseteq Numbers
  /\ url \in 0..3 /\ loading \subseteq LoadsTo(sent) /\ known \subseteq 1..3
  /\ step \in 0..3 /\ built \in 0..sent
  /\ lines \in [Lines -> LineChoice] /\ oldDid \in [Lines -> Numbers]
  /\ picking \subseteq Pickers(sent)
  /\ summary \subseteq [Lines -> Phones] /\ agreed \in BOOLEAN
  /\ requests \subseteq RequestsTo(sent)
  /\ orders \subseteq OrdersTo(sent)
  /\ kept \in BOOLEAN /\ late \in BOOLEAN

\* No number stays reserved that no line has, and none is given back that a line
\* has: when nothing is open, the numbers reserved are those of the lines that
\* are not theirs yet, in whatever order numbers are chosen, answered and ordered,
\* unless a number was chosen before the first step was built again or when an
\* order was posted, or one was lost (wizard_edit_form.coffee:136-157).
HeldIsChosen ==
  kept /\ requests = {} => held = Range(Dids(lines)) \ Range(assigned)

\* The charges that the second step shows are those of the phones that it shows:
\* however the steps are left and loaded, and in whatever order the summaries come,
\* it never shows one of phones that were changed before it was built.  A dialog
\* that was left open can change them after (wizard_step_2.coffee:24-36,
\* wizard_index.coffee:50-63).
SummaryIsCurrent ==
  step = 2 /\ ~late => summary \subseteq {PhonesOf(lines)}

\* "You are configuring your lines with the information below": an order that was
\* confirmed is for the phones that the second step showed when it was
\* (wizard_step_2.coffee:13, wizard_step_3.coffee:26-28).
OrderIsAsConfirmed ==
  \A o \in orders : o.seen \subseteq {o.phones}
===============================================================================
