------------------------------ MODULE PagesProofs ------------------------------
(***************************************************************************)
(* What is proved of the pages, for any users, numbers, plans and bounds.  *)
(*                                                                         *)
(* A step is one page's, and leaves the others' variables alone: all they  *)
(* see of it is that the page shown may be another (never theirs), and     *)
(* that numbers above sent are taken.  So each page has an invariant of    *)
(* its own, which is shown to survive its own steps and those of others.   *)
(***************************************************************************)
EXTENDS Pages, SequenceTheorems, FiniteSetTheorems, TLAPS

-----------------------------------------------------------------------------
(* What a step does to page and sent.                                      *)

\* A step of the page p: no other page is shown by it.
Moved(p) ==
  /\ page' \in {page, p}
  /\ sent' \in {sent, sent + 1} /\ sent' \in 0..MaxSent

\* A request is sent within the bound.
LEMMA SendMoves == ASSUME PageTypeOK, NEW p, page' \in {page, p}, Send PROVE Moved(p)
  BY SentAssumption DEF PageTypeOK, Send, Moved

\* So is the one of a page that is opened.
LEMMA OpenMoves == ASSUME PageTypeOK, NEW p, OpenPage(p)
                   PROVE  Moved(p) /\ page' = p /\ page # p /\ sent' = sent + 1
  BY SendMoves DEF OpenPage, Send

\* Nothing is sent.
LEMMA StayMoves == ASSUME PageTypeOK, NEW p, page' \in {page, p}, sent' = sent PROVE Moved(p)
  BY DEF PageTypeOK, Moved

-----------------------------------------------------------------------------
(* The plan selector.                                                      *)

\* The question asked last is about what is selected, and its answer is the total.
PlanInv ==
  /\ PlanTypeOK
  /\ \A q \in prices : q.no = asked => q.plan = plan
  /\ TotalIsThePlans

\* The steps of the selector.
LEMMA PlanMoves == PageTypeOK /\ PlanNext => Moved("plans")
<1> SUFFICES ASSUME PageTypeOK, PlanNext PROVE Moved("plans")
  OBVIOUS
<1>1. CASE OpenPlans
  BY <1>1, OpenMoves DEF OpenPlans
<1>2. CASE ListComes
  BY <1>2, SendMoves DEF ListComes, Ask
<1>3. ASSUME NEW n \in LineCounts, ChangeLines(n) PROVE Moved("plans")
  BY <1>3, SendMoves DEF ChangeLines, Ask
<1>4. ASSUME NEW x \in Products, ChangePeriod(x) PROVE Moved("plans")
  BY <1>4, SendMoves DEF ChangePeriod, Ask
<1>5. ASSUME NEW q \in prices, PriceComes(q) \/ PriceFails(q) PROVE Moved("plans")
  BY <1>5, StayMoves DEF PriceComes, PriceFails, pageVars
<1> QED
  BY <1>1, <1>2, <1>3, <1>4, <1>5 DEF PlanNext, PlanClicks, PlanRest

\* Numbers that are taken do not matter to it.
LEMMA PlanElse == ASSUME PageTypeOK, PlanInv, UNCHANGED planVars, NEW p, Moved(p)
                  PROVE  PlanInv'
<1>1. sent \in Nat /\ sent' \in Nat /\ sent <= sent'
  BY SentAssumption DEF PageTypeOK, Moved
<1>2. 1..sent \subseteq 1..sent' /\ 0..sent \subseteq 0..sent'
  BY <1>1
<1>3. [no : 1..sent, plan : Plans] \subseteq [no : 1..sent', plan : Plans]
  BY <1>2
<1>4. UNCHANGED <<listed, plan, total, prices, asked, answered>>
  BY DEF planVars
<1> QED
  BY <1>2, <1>3, <1>4 DEF PlanInv, PlanTypeOK, TotalIsThePlans

\* A plan is asked for: it is the one selected, and nothing older is about it.
LEMMA AskPlan ==
  ASSUME PageTypeOK, PlanInv, plan' \in Plans, Ask(plan'), listed' \in BOOLEAN,
         UNCHANGED <<total, answered>>
  PROVE  PlanInv'
<1>1. sent \in Nat /\ sent' = sent + 1 /\ sent' \in 1..sent'
  BY SentAssumption DEF PageTypeOK, Ask, Send
<1>2. 1..sent \subseteq 1..sent' /\ 0..sent \subseteq 0..sent' /\ sent' \notin 0..sent
  BY <1>1
<1>3. \A q \in prices' : q = [no |-> sent', plan |-> plan'] \/ q \in prices
  BY <1>1 DEF Ask
<1>4. prices \subseteq [no : 1..sent, plan : Plans]
  BY DEF PlanInv, PlanTypeOK
<1>5. prices' \subseteq [no : 1..sent', plan : Plans]
  BY <1>1, <1>2, <1>3, <1>4
<1>6. asked' = sent' /\ answered' # asked' /\ answered' \in 0..sent'
  BY <1>1, <1>2 DEF PlanInv, PlanTypeOK, Ask
<1>7. \A q \in prices' : q.no = asked' => q.plan = plan'
  BY <1>2, <1>3, <1>4, <1>6
<1>8. total' \subseteq Plans /\ asked' \in 0..sent'
  BY <1>1, <1>6 DEF PlanInv, PlanTypeOK
<1> QED
  BY <1>5, <1>6, <1>7, <1>8 DEF PlanInv, PlanTypeOK, TotalIsThePlans

\* The selector's own steps.
LEMMA PlanStep == PageTypeOK /\ PlanInv /\ PlanNext => PlanInv'
<1> SUFFICES ASSUME PageTypeOK, PlanInv, PlanNext PROVE PlanInv'
  OBVIOUS
<1>0. /\ plan \in Plans /\ listed \in BOOLEAN
      /\ FirstPlan \in Plans /\ [FirstPlan EXCEPT !.product = NoProduct] \in Plans
      /\ FirstPlan.product \in Products
  BY PlanAssumption DEF PlanInv, PlanTypeOK, Plans
<1>1. CASE OpenPlans
  <2>1. sent' = sent + 1 /\ sent \in Nat /\ 0 \in 0..sent' /\ sent' \in 1..sent'
    BY <1>1, OpenMoves, SentAssumption DEF OpenPlans, PageTypeOK
  <2>2. /\ UNCHANGED listed /\ asked' = sent' /\ total' = {} /\ answered' = 0
        /\ plan' = IF listed THEN FirstPlan ELSE [FirstPlan EXCEPT !.product = NoProduct]
        /\ prices' = IF listed THEN {[no |-> sent', plan |-> FirstPlan]} ELSE {}
    BY <1>1, <2>1 DEF OpenPlans
  <2> QED
    BY <1>0, <2>1, <2>2 DEF PlanInv, PlanTypeOK, TotalIsThePlans
<1>2. CASE ListComes
  <2>1. plan' \in Plans
    BY <1>0, <1>2 DEF ListComes, Plans
  <2> QED
    BY <1>2, <2>1, AskPlan DEF ListComes
<1>3. ASSUME NEW n \in LineCounts, ChangeLines(n) PROVE PlanInv'
  <2>1. plan' \in Plans
    BY <1>0, <1>3 DEF ChangeLines, Plans
  <2> QED
    BY <1>0, <1>3, <2>1, AskPlan DEF ChangeLines
<1>4. ASSUME NEW x \in Products, ChangePeriod(x) PROVE PlanInv'
  <2>1. plan' \in Plans
    BY <1>0, <1>4 DEF ChangePeriod, Plans
  <2> QED
    BY <1>0, <1>4, <2>1, AskPlan DEF ChangePeriod
<1>5. ASSUME NEW q \in prices, PriceComes(q) PROVE PlanInv'
  <2>1. q \in [no : 1..sent, plan : Plans] /\ (q.no = asked => q.plan = plan) /\ q.no \in 0..sent
    BY DEF PlanInv, PlanTypeOK
  <2> QED
    BY <1>5, <2>1 DEF PriceComes, pageVars, PlanInv, PlanTypeOK, TotalIsThePlans
<1>6. ASSUME NEW q \in prices, PriceFails(q) PROVE PlanInv'
  BY <1>6 DEF PriceFails, pageVars, PlanInv, PlanTypeOK, TotalIsThePlans
<1> QED
  BY <1>1, <1>2, <1>3, <1>4, <1>5, <1>6 DEF PlanNext, PlanClicks, PlanRest
-----------------------------------------------------------------------------
(* The wizard.                                                             *)

\* The numbers of what is loaded are its own: no summary was asked for with one.
LoadInv ==
  /\ step = 0 => loading = {} /\ picking = {}
  /\ \A l, m \in loading : l.no = m.no => l = m
  /\ \A l \in loading : \A r \in requests : r.kind = "review" => r.no # l.no

\* What the second step shows, or will show, are the charges of the phones chosen.
ReviewInv ==
  /\ LoadInv
  /\ SummaryIsCurrent
  /\ step = 2 /\ ~late =>
       \A r \in requests : r.kind = "review" /\ r.no = built => r.phones = PhonesOf(lines)

\* An address is followed.
Followed == \E u \in 0..3 : \E seen \in SUBSET [Lines -> Phones] : Follow(u, seen)

\* What a step that is not built leaves alone.
shownVars == <<assigned, held, step, built, lines, oldDid, picking, summary, agreed, requests,
               orders, kept, late>>

\* The phones of what is chosen.
LEMMA PhonesType == ASSUME NEW ls \in [Lines -> LineChoice] PROVE PhonesOf(ls) \in [Lines -> Phones]
  BY DEF PhonesOf, LineChoice

\* The links and the history follow addresses.
LEMMA LinksFollow ==
  ASSUME WizardTypeOK, Continue \/ Back \/ Confirm \/ ConfirmEarly \/ Jump
  PROVE  Followed
<1>1. PhonesOf(lines) \in [Lines -> Phones]
  BY PhonesType DEF WizardTypeOK
<1>2. {} \in SUBSET [Lines -> Phones] /\ {PhonesOf(lines)} \in SUBSET [Lines -> Phones]
  BY <1>1
<1>3. 1 \in 0..3 /\ 2 \in 0..3 /\ 3 \in 0..3
  OBVIOUS
<1> QED
  BY <1>2, <1>3 DEF Continue, Back, Confirm, ConfirmEarly, Jump, Followed

\* Opening and closing a dialog, and what is done in it.
LEMMA WizardKinds ==
  ASSUME WizardTypeOK, WizardNext
  PROVE  \/ OpenWizard \/ Followed \/ Agree \/ ClosePicker
         \/ \E l \in loading : Loaded(l)
         \/ \E l \in Lines : \E k \in {"phone", "number"} : OpenPicker(k, l)
         \/ \E d \in picking : \E p \in Phones : ChoosePhone(d, p)
         \/ \E d \in picking : \E n \in Numbers : Choose(d, n)
         \/ \E r \in requests : CarriedOut(r) \/ Answered(r) \/ Failed(r)
  BY LinksFollow DEF WizardNext, WizardClicks, WizardRest

\* The steps of the wizard.
LEMMA WizardMoves == PageTypeOK /\ WizardTypeOK /\ WizardNext => Moved("wizard")
<1> SUFFICES ASSUME PageTypeOK, WizardTypeOK, WizardNext PROVE Moved("wizard")
  OBVIOUS
<1>1. CASE OpenWizard
  BY <1>1, OpenMoves DEF OpenWizard
<1>2. CASE Followed
  BY <1>2, SendMoves DEF Followed, Follow
<1>3. CASE Agree \/ ClosePicker
  BY <1>3, StayMoves DEF Agree, ClosePicker, pageVars
<1>4. ASSUME NEW l \in loading, Loaded(l) PROVE Moved("wizard")
  BY <1>4, StayMoves DEF Loaded, pageVars
<1>5. ASSUME NEW l \in Lines, NEW k \in {"phone", "number"}, OpenPicker(k, l) PROVE Moved("wizard")
  BY <1>5, StayMoves DEF OpenPicker, pageVars
<1>6. ASSUME NEW d \in picking, NEW p \in Phones, ChoosePhone(d, p) PROVE Moved("wizard")
  BY <1>6, StayMoves DEF ChoosePhone, pageVars
<1>7. ASSUME NEW d \in picking, NEW n \in Numbers, Choose(d, n) PROVE Moved("wizard")
  BY <1>7, SendMoves DEF Choose
<1>8. ASSUME NEW r \in requests, CarriedOut(r) \/ Answered(r) \/ Failed(r) PROVE Moved("wizard")
  BY <1>8, StayMoves DEF CarriedOut, Answered, Reviewed, Reserved, AnswerKeeps, Failed, pageVars
<1> QED
  BY <1>1, <1>2, <1>3, <1>4, <1>5, <1>6, <1>7, <1>8, WizardKinds

\* Requests, loads, dialogs and orders stay within the numbers taken when more are.
LEMMA RequestsGrow == ASSUME PageTypeOK, NEW p, Moved(p)
                      PROVE  /\ sent \in Nat /\ sent' \in Nat
                             /\ 1..sent \subseteq 1..sent' /\ 0..sent \subseteq 0..sent'
                             /\ RequestsTo(sent) \subseteq RequestsTo(sent')
                             /\ OrdersTo(sent) \subseteq OrdersTo(sent')
                             /\ LoadsTo(sent) \subseteq LoadsTo(sent')
                             /\ Pickers(sent) \subseteq Pickers(sent')
<1>1. sent \in Nat /\ sent' \in Nat /\ 1..sent \subseteq 1..sent' /\ 0..sent \subseteq 0..sent'
  BY SentAssumption DEF PageTypeOK, Moved
<1>2. RequestsTo(sent) \subseteq RequestsTo(sent')
  BY <1>1 DEF RequestsTo
<1>3. /\ OrdersTo(sent) \subseteq OrdersTo(sent') /\ LoadsTo(sent) \subseteq LoadsTo(sent')
      /\ Pickers(sent) \subseteq Pickers(sent')
  BY <1>1 DEF OrdersTo, LoadsTo, Pickers
<1> QED
  BY <1>1, <1>2, <1>3

\* Numbers that are taken do not matter to the wizard.
LEMMA WizardElse ==
  ASSUME PageTypeOK, WizardTypeOK, ReviewInv, UNCHANGED wizardVars, NEW p, Moved(p)
  PROVE  WizardTypeOK' /\ ReviewInv'
<1>1. UNCHANGED <<url, loading, known>> /\ UNCHANGED shownVars
  BY DEF wizardVars, addressVars, chosenVars, shownVars
<1>2. /\ 0..sent \subseteq 0..sent'
      /\ RequestsTo(sent) \subseteq RequestsTo(sent') /\ OrdersTo(sent) \subseteq OrdersTo(sent')
      /\ LoadsTo(sent) \subseteq LoadsTo(sent') /\ Pickers(sent) \subseteq Pickers(sent')
  BY RequestsGrow
<1>3. WizardTypeOK'
  BY <1>1, <1>2 DEF WizardTypeOK, shownVars
<1>4. ReviewInv'
  BY <1>1 DEF ReviewInv, LoadInv, SummaryIsCurrent, PhonesOf, shownVars
<1> QED
  BY <1>3, <1>4

\* What the requests of each kind are, and what they are when they are carried out.
LEMMA RequestKinds ==
  ASSUME NEW n, NEW r \in RequestsTo(n)
  PROVE  /\ r.no \in 1..n /\ r.done \in BOOLEAN
         /\ r.kind \in {"review", "reserve", "unreserve", "order"}
         /\ r.kind = "review" => r.phones \in [Lines -> Phones]
         /\ r.kind = "reserve" => /\ r.line \in Lines /\ r.num \in Numbers /\ r.old \in Numbers
                                  /\ r.form \in 0..n
         /\ r.kind = "unreserve" => r.num \in Numbers
         /\ r.kind = "order" => r.lines \in [Lines -> LineChoice]
  BY DEF RequestsTo

LEMMA RequestDone ==
  ASSUME NEW n, NEW r \in RequestsTo(n)
  PROVE  /\ [r EXCEPT !.done = TRUE] \in RequestsTo(n)
         /\ [r EXCEPT !.done = TRUE].kind = r.kind /\ [r EXCEPT !.done = TRUE].no = r.no
         /\ [r EXCEPT !.done = TRUE].done
         /\ r.kind = "review" => [r EXCEPT !.done = TRUE].phones = r.phones
         /\ r.kind = "reserve" => /\ [r EXCEPT !.done = TRUE].line = r.line
                                  /\ [r EXCEPT !.done = TRUE].num = r.num
                                  /\ [r EXCEPT !.done = TRUE].old = r.old
         /\ r.kind = "unreserve" => [r EXCEPT !.done = TRUE].num = r.num
         /\ r.kind = "order" => [r EXCEPT !.done = TRUE].lines = r.lines
<1> DEFINE d == [r EXCEPT !.done = TRUE]
<1>1. CASE r \in [kind : {"review"}, no : 1..n, phones : [Lines -> Phones], done : BOOLEAN]
  BY <1>1 DEF RequestsTo
<1>2. CASE r \in [kind : {"reserve"}, no : 1..n, line : Lines, num : Numbers, old : Numbers,
                  form : 0..n, done : BOOLEAN]
  BY <1>2 DEF RequestsTo
<1>3. CASE r \in [kind : {"unreserve"}, no : 1..n, num : Numbers, done : BOOLEAN]
  BY <1>3 DEF RequestsTo
<1>4. CASE r \in [kind : {"order"}, no : 1..n, lines : [Lines -> LineChoice], done : BOOLEAN]
  BY <1>4 DEF RequestsTo
<1> QED
  BY <1>1, <1>2, <1>3, <1>4 DEF RequestsTo

\* The step of l is built, with a number that no summary was asked for with, and
\* that none will be.
Fresh(l) ==
  /\ BuildStep(l)
  /\ \A r \in requests : r.kind = "review" => r.no # l.no
  /\ \A m \in loading' : m.no # l.no

\* An address that is followed, or a step that comes, is one that is built or loaded.
LEMMA StepBuilt ==
  ASSUME PageTypeOK, WizardTypeOK, LoadInv, Moved("wizard"), Followed \/ \E l \in loading : Loaded(l)
  PROVE  /\ url' \in 0..3 /\ loading' \subseteq LoadsTo(sent') /\ known' \subseteq 1..3
         /\ step # 0
         /\ (\E l \in LoadsTo(sent') : Fresh(l)) \/ UNCHANGED shownVars
         /\ \A l, m \in loading' : l.no = m.no => l = m
         /\ \A l \in loading' : \A r \in requests : r.kind = "review" => r.no # l.no
<1>0. /\ sent \in Nat /\ LoadsTo(sent) \subseteq LoadsTo(sent')
      /\ loading \subseteq LoadsTo(sent) /\ loading \subseteq LoadsTo(sent')
      /\ \A l \in loading : l.no \in 1..sent /\ l.step \in 1..3
      /\ \A r \in requests : r.no \in 1..sent
      /\ url \in 0..3 /\ known \subseteq 1..3
  BY RequestsGrow, RequestKinds DEF WizardTypeOK, LoadsTo
<1>1. ASSUME NEW u \in 0..3, NEW seen \in SUBSET [Lines -> Phones], Follow(u, seen)
      PROVE  /\ url' \in 0..3 /\ loading' \subseteq LoadsTo(sent') /\ known' \subseteq 1..3
             /\ step # 0
             /\ (\E l \in LoadsTo(sent') : Fresh(l)) \/ UNCHANGED shownVars
             /\ \A l, m \in loading' : l.no = m.no => l = m
             /\ \A l \in loading' : \A r \in requests : r.kind = "review" => r.no # l.no
  <2> DEFINE x == [no |-> sent + 1, step |-> IF u = 0 THEN 1 ELSE u, seen |-> seen]
  <2>1. /\ step # 0 /\ sent' = sent + 1 /\ url' = u /\ UNCHANGED known
        /\ \/ BuildStep(x) /\ UNCHANGED loading
           \/ loading' = loading \cup {x} /\ UNCHANGED shownVars
    BY <1>1 DEF Follow, Send, shownVars, chosenVars
  <2>2. x \in LoadsTo(sent') /\ x.no = sent + 1
    BY <1>0, <2>1 DEF LoadsTo
  <2>3. sent + 1 \notin 1..sent
    BY <1>0
  <2>4. \A r \in requests : r.no # x.no
    BY <1>0, <2>2, <2>3
  <2>5. \A l \in loading : l.no # x.no
    BY <1>0, <2>2, <2>3
  <2> HIDE DEF x
  <2>6. CASE BuildStep(x) /\ UNCHANGED loading
    <3>1. Fresh(x)
      BY <2>4, <2>5, <2>6 DEF Fresh
    <3> QED
      BY <1>0, <2>1, <2>2, <2>5, <2>6, <3>1 DEF LoadInv
  <2>7. CASE loading' = loading \cup {x} /\ UNCHANGED shownVars
    BY <1>0, <2>1, <2>2, <2>4, <2>5, <2>7 DEF LoadInv, shownVars
  <2> QED
    BY <2>1, <2>6, <2>7
<1>2. ASSUME NEW l \in loading, Loaded(l)
      PROVE  /\ url' \in 0..3 /\ loading' \subseteq LoadsTo(sent') /\ known' \subseteq 1..3
             /\ step # 0
             /\ \E m \in LoadsTo(sent') : Fresh(m)
             /\ loading' \subseteq loading
  <2>1. BuildStep(l) /\ loading' = loading \ {l} /\ known' = known \cup {l.step} /\ UNCHANGED url
    BY <1>2 DEF Loaded
  <2>2. Fresh(l) /\ l \in LoadsTo(sent')
    BY <1>0, <2>1 DEF Fresh, LoadInv
  <2> QED
    BY <1>0, <2>1, <2>2 DEF LoadInv
<1> QED
  BY <1>1, <1>2 DEF Followed, LoadInv

\* The wizard's own steps keep its types.
LEMMA WizardTypeStep == PageTypeOK /\ WizardTypeOK /\ LoadInv /\ WizardNext => WizardTypeOK'
<1> SUFFICES ASSUME PageTypeOK, WizardTypeOK, LoadInv, WizardNext PROVE WizardTypeOK'
  OBVIOUS
<1>0. /\ Moved("wizard")
      /\ sent \in Nat /\ sent' \in Nat /\ 1..sent \subseteq 1..sent' /\ 0..sent \subseteq 0..sent'
      /\ RequestsTo(sent) \subseteq RequestsTo(sent') /\ OrdersTo(sent) \subseteq OrdersTo(sent')
      /\ LoadsTo(sent) \subseteq LoadsTo(sent') /\ Pickers(sent) \subseteq Pickers(sent')
  BY WizardMoves, RequestsGrow
<1>00. /\ assigned \in [Lines -> Numbers] /\ held \subseteq Numbers
       /\ url \in 0..3 /\ loading \subseteq LoadsTo(sent') /\ known \subseteq 1..3
       /\ step \in 0..3 /\ built \in 0..sent'
       /\ lines \in [Lines -> LineChoice] /\ oldDid \in [Lines -> Numbers]
       /\ picking \subseteq Pickers(sent') /\ picking \subseteq Pickers(sent)
       /\ summary \subseteq [Lines -> Phones] /\ agreed \in BOOLEAN
       /\ requests \subseteq RequestsTo(sent) /\ requests \subseteq RequestsTo(sent')
       /\ orders \subseteq OrdersTo(sent') /\ kept \in BOOLEAN /\ late \in BOOLEAN
  BY <1>0 DEF WizardTypeOK
<1>01. PhonesOf(lines) \in [Lines -> Phones]
  BY <1>00, PhonesType
<1>02. \A l \in Lines : /\ lines[l].did \in Numbers /\ lines[l].phone \in Phones
                        /\ lines[l].old \in Numbers \cup {NoNumber}
  BY <1>00 DEF LineChoice
<1>03. \A d \in picking : d.line \in Lines /\ d.form \in 0..sent' /\ d.old \in Numbers
  BY <1>00 DEF Pickers
<1>1. CASE OpenWizard
  <2>1. sent' = sent + 1 /\ sent + 1 \in 0..sent'
    BY <1>0, <1>1, OpenMoves DEF OpenWizard
  <2>2. /\ step' = 1 /\ built' = sent + 1 /\ known' = {1}
        /\ UNCHANGED <<assigned, held, url, loading, lines, oldDid, picking, summary, agreed, requests,
                       orders, kept, late>>
    BY <1>1 DEF OpenWizard, chosenVars
  <2> QED
    BY <1>00, <2>1, <2>2 DEF WizardTypeOK
<1>2. CASE Followed \/ \E l \in loading : Loaded(l)
  <2>0. /\ url' \in 0..3 /\ loading' \subseteq LoadsTo(sent') /\ known' \subseteq 1..3
        /\ (\E l \in LoadsTo(sent') : Fresh(l)) \/ UNCHANGED shownVars
    BY <1>0, <1>2, StepBuilt
  <2>1. CASE UNCHANGED shownVars
    BY <1>00, <2>0, <2>1 DEF shownVars, WizardTypeOK
  <2>2. ASSUME NEW l \in LoadsTo(sent'), BuildStep(l) PROVE WizardTypeOK'
    <3>0. /\ l.no \in 1..sent' /\ l.no \in 0..sent' /\ l.seen \in SUBSET [Lines -> Phones]
          /\ built' = l.no /\ UNCHANGED <<assigned, held, lines, picking>>
      BY <1>0, <2>2 DEF LoadsTo, BuildStep
    <3>1. CASE BuildStep1
      <4>1. /\ step' = 1 /\ oldDid' = [x \in Lines |-> lines[x].did]
            /\ kept' = (kept /\ \A x \in Lines : lines[x].old = NoNumber)
            /\ UNCHANGED <<summary, agreed, requests, orders, late>>
        BY <3>1 DEF BuildStep1
      <4> QED
        BY <1>00, <1>02, <2>0, <3>0, <4>1 DEF WizardTypeOK
    <3>2. CASE BuildStep2(l.no)
      <4>1. [kind |-> "review", no |-> l.no, phones |-> PhonesOf(lines), done |-> FALSE]
              \in RequestsTo(sent')
        BY <1>01, <3>0 DEF RequestsTo
      <4>2. /\ step' = 2 /\ summary' = {} /\ agreed' = FALSE /\ late' = FALSE
            /\ UNCHANGED <<oldDid, orders, kept>>
            /\ requests' = requests \cup {[kind |-> "review", no |-> l.no, phones |-> PhonesOf(lines),
                                          done |-> FALSE]}
        BY <3>2 DEF BuildStep2
      <4>3. requests' \subseteq RequestsTo(sent') /\ summary' \subseteq [Lines -> Phones]
        BY <1>00, <4>1, <4>2
      <4>4. step' \in 0..3
        BY <4>2
      <4>5. agreed' \in BOOLEAN /\ late' \in BOOLEAN
        BY <4>2, Zenon
      <4> QED
        BY <1>00, <2>0, <3>0, <4>2, <4>3, <4>4, <4>5 DEF WizardTypeOK
    <3>3. CASE BuildStep3(l.no, l.seen)
      <4>1. [kind |-> "order", no |-> l.no, lines |-> lines, done |-> FALSE] \in RequestsTo(sent')
        BY <1>00, <3>0 DEF RequestsTo
      <4>2. [no |-> l.no, phones |-> PhonesOf(lines), seen |-> l.seen] \in OrdersTo(sent')
        BY <1>01, <3>0 DEF OrdersTo
      <4>3. /\ step' = 3 /\ kept' \in BOOLEAN /\ UNCHANGED <<oldDid, summary, agreed, late>>
            /\ requests' = requests \cup {[kind |-> "order", no |-> l.no, lines |-> lines,
                                          done |-> FALSE]}
            /\ orders' = orders \cup {[no |-> l.no, phones |-> PhonesOf(lines), seen |-> l.seen]}
        BY <1>00, <3>3 DEF BuildStep3
      <4>4. requests' \subseteq RequestsTo(sent') /\ orders' \subseteq OrdersTo(sent')
        BY <1>00, <4>1, <4>2, <4>3
      <4> QED
        BY <1>00, <2>0, <3>0, <4>3, <4>4 DEF WizardTypeOK
    <3> QED
      BY <2>2, <3>1, <3>2, <3>3 DEF BuildStep
  <2> QED
    BY <2>0, <2>1, <2>2 DEF Fresh
<1>3. CASE Agree \/ ClosePicker
  BY <1>00, <1>3 DEF Agree, ClosePicker, addressVars, chosenVars, WizardTypeOK
<1>4. ASSUME NEW l \in Lines, NEW k \in {"phone", "number"}, OpenPicker(k, l) PROVE WizardTypeOK'
  <2>1. [kind |-> k, line |-> l, form |-> built, old |-> oldDid[l]] \in Pickers(sent')
    BY <1>00 DEF Pickers
  <2> QED
    BY <1>00, <1>4, <2>1 DEF OpenPicker, addressVars, WizardTypeOK
<1>5. ASSUME NEW d \in picking, NEW p \in Phones, ChoosePhone(d, p) PROVE WizardTypeOK'
  <2>1. lines' \in [Lines -> LineChoice]
    BY <1>00, <1>03, <1>5 DEF ChoosePhone, LineChoice
  <2>2. /\ picking' = {} /\ late' \in BOOLEAN
        /\ UNCHANGED <<assigned, held, url, loading, known, step, built, oldDid, summary, agreed,
                       requests, orders, kept>>
    BY <1>00, <1>5 DEF ChoosePhone, addressVars
  <2> QED
    BY <1>00, <2>1, <2>2 DEF WizardTypeOK
<1>6. ASSUME NEW d \in picking, NEW n \in Numbers, Choose(d, n) PROVE WizardTypeOK'
  <2>0. sent' = sent + 1 /\ sent + 1 \in 1..sent'
    BY <1>0, <1>6 DEF Choose, Send
  <2>1. [kind |-> "reserve", no |-> sent + 1, line |-> d.line, num |-> n, old |-> d.old,
         form |-> d.form, done |-> FALSE] \in RequestsTo(sent')
    BY <1>03, <2>0 DEF RequestsTo
  <2> QED
    BY <1>00, <1>6, <2>1 DEF Choose, addressVars, chosenVars, WizardTypeOK
<1>7. ASSUME NEW r \in requests, CarriedOut(r) PROVE WizardTypeOK'
  <2>1. [r EXCEPT !.done = TRUE] \in RequestsTo(sent')
    BY <1>00, RequestDone
  <2>2. assigned' \in [Lines -> Numbers] /\ held' \subseteq Numbers
    <3>1. CASE r.kind = "order"
      <4>1. Dids(r.lines) \in [Lines -> Numbers]
        BY <1>00, <3>1, RequestKinds DEF Dids, LineChoice
      <4> QED
        BY <1>00, <1>7, <3>1, <4>1 DEF CarriedOut
    <3>2. CASE r.kind # "order"
      BY <1>00, <1>7, <3>2, RequestKinds DEF CarriedOut
    <3> QED
      BY <3>1, <3>2
  <2> QED
    BY <1>00, <1>7, <2>1, <2>2 DEF CarriedOut, addressVars, chosenVars, WizardTypeOK
<1>8. ASSUME NEW r \in requests, Answered(r) PROVE WizardTypeOK'
  <2>0. UNCHANGED <<assigned, held, url, loading, known, step, built, oldDid, agreed, orders, kept, late>>
    BY <1>8 DEF Answered, Reviewed, Reserved, AnswerKeeps, addressVars
  <2>1. CASE Reviewed(r)
    <3>1. r.phones \in [Lines -> Phones]
      BY <1>00, <2>1, RequestKinds DEF Reviewed
    <3> QED
      BY <1>00, <2>0, <2>1, <3>1 DEF Reviewed, WizardTypeOK
  <2>2. CASE Reserved(r)
    <3>1. r.line \in Lines /\ r.num \in Numbers /\ r.old \in Numbers /\ r.no \in 1..sent'
      BY <1>00, <2>2, RequestKinds DEF Reserved
    <3>2. lines' \in [Lines -> LineChoice]
      BY <1>00, <2>2, <3>1 DEF Reserved, LineChoice
    <3>3. ASSUME NEW n \in Numbers
          PROVE  [kind |-> "unreserve", no |-> r.no, num |-> n, done |-> FALSE] \in RequestsTo(sent')
      BY <3>1 DEF RequestsTo
    <3>4. requests' \subseteq RequestsTo(sent')
      BY <1>00, <1>02, <2>2, <3>1, <3>3 DEF Reserved
    <3>5. picking' \subseteq picking /\ UNCHANGED summary
      BY <2>2 DEF Reserved
    <3> QED
      BY <1>00, <2>0, <3>2, <3>4, <3>5 DEF WizardTypeOK
  <2>3. CASE requests' = requests \ {r} /\ UNCHANGED <<lines, picking, summary>>
    BY <1>00, <2>0, <2>3 DEF WizardTypeOK
  <2> QED
    BY <1>8, <2>1, <2>2, <2>3 DEF Answered
<1>9. ASSUME NEW r \in requests, Failed(r) PROVE WizardTypeOK'
  BY <1>00, <1>9 DEF Failed, addressVars, chosenVars, WizardTypeOK
<1> QED
  BY <1>1, <1>2, <1>3, <1>4, <1>5, <1>6, <1>7, <1>8, <1>9, WizardKinds

\* What is chosen is not changed where its summary is shown, but in a dialog that was
\* left open, and no summary is taken for another step's.
LEMMA ReviewStep == PageTypeOK /\ WizardTypeOK /\ ReviewInv /\ WizardNext => ReviewInv'
<1> SUFFICES ASSUME PageTypeOK, WizardTypeOK, ReviewInv, WizardNext PROVE ReviewInv'
  OBVIOUS
<1>0. /\ sent \in Nat /\ requests \subseteq RequestsTo(sent) /\ lines \in [Lines -> LineChoice]
      /\ Moved("wizard") /\ LoadInv
  BY SentAssumption, WizardMoves DEF WizardTypeOK, PageTypeOK, ReviewInv
<1> USE DEF ReviewInv, SummaryIsCurrent
<1>1. CASE OpenWizard
  BY <1>1 DEF OpenWizard, LoadInv, chosenVars
<1>2. CASE Followed \/ \E l \in loading : Loaded(l)
  <2>0. /\ step # 0
        /\ (\E l \in LoadsTo(sent') : Fresh(l)) \/ UNCHANGED shownVars
        /\ \A l, m \in loading' : l.no = m.no => l = m
        /\ \A l \in loading' : \A r \in requests : r.kind = "review" => r.no # l.no
    BY <1>0, <1>2, StepBuilt
  <2>1. CASE UNCHANGED shownVars
    BY <2>0, <2>1 DEF shownVars, LoadInv, PhonesOf
  <2>2. ASSUME NEW l \in LoadsTo(sent'), Fresh(l) PROVE ReviewInv'
    <3>0. /\ built' = l.no /\ UNCHANGED <<lines, picking>> /\ UNCHANGED PhonesOf(lines)
          /\ \A r \in requests : r.kind = "review" => r.no # l.no
          /\ \A m \in loading' : m.no # l.no
      BY <2>2 DEF Fresh, BuildStep, PhonesOf
    <3>1. CASE step' # 2
      <4>0. BuildStep1 => step' = 1 /\ requests' = requests
        BY DEF BuildStep1
      <4>00. BuildStep3(l.no, l.seen) =>
               step' = 3 /\ \A r \in requests' : r.kind = "review" => r \in requests
        BY DEF BuildStep3
      <4>1. step' # 0 /\ \A r \in requests' : r.kind = "review" => r \in requests
        BY <2>2, <3>1, <4>0, <4>00 DEF Fresh, BuildStep, BuildStep2
      <4> QED
        BY <2>0, <3>1, <4>1 DEF LoadInv
    <3>2. CASE BuildStep2(l.no)
      <4>1. /\ step' = 2 /\ summary' = {}
            /\ requests' = requests \cup {[kind |-> "review", no |-> l.no, phones |-> PhonesOf(lines),
                                          done |-> FALSE]}
        BY <3>2 DEF BuildStep2
      <4> QED
        BY <2>0, <3>0, <4>1 DEF LoadInv
    <3> QED
      <4>1. BuildStep1 => step' = 1
        BY DEF BuildStep1
      <4>2. BuildStep3(l.no, l.seen) => step' = 3
        BY DEF BuildStep3
      <4> QED
        BY <2>2, <3>1, <3>2, <4>1, <4>2 DEF Fresh, BuildStep
  <2> QED
    BY <2>0, <2>1, <2>2
<1>3. CASE Agree
  BY <1>3 DEF Agree, addressVars, chosenVars, LoadInv, PhonesOf
<1>4. CASE ClosePicker
  BY <1>4 DEF ClosePicker, addressVars, LoadInv, PhonesOf
<1>5. ASSUME NEW l \in Lines, NEW k \in {"phone", "number"}, OpenPicker(k, l) PROVE ReviewInv'
  BY <1>5 DEF OpenPicker, addressVars, LoadInv, PhonesOf
<1>6. ASSUME NEW d \in picking, NEW p \in Phones, ChoosePhone(d, p) PROVE ReviewInv'
  <2>1. late' = (late \/ step # 1) /\ step' = step
    BY <1>6 DEF ChoosePhone
  <2>2. ASSUME step' = 2 PROVE late'
    <3>1. step # 1
      BY <2>1, <2>2
    <3> QED
      BY <2>1, <3>1, Zenon
  <2>3. /\ picking' = {} /\ UNCHANGED <<loading, step, requests>>
    BY <1>6 DEF ChoosePhone, addressVars
  <2> QED
    BY <2>2, <2>3 DEF LoadInv
<1>7. ASSUME NEW d \in picking, NEW n \in Numbers, Choose(d, n) PROVE ReviewInv'
  BY <1>7 DEF Choose, addressVars, chosenVars, LoadInv, PhonesOf
<1>8. ASSUME NEW r \in requests, CarriedOut(r) PROVE ReviewInv'
  <2> DEFINE d == [r EXCEPT !.done = TRUE]
  <2>1. d.kind = r.kind /\ d.no = r.no /\ (r.kind = "review" => d.phones = r.phones)
    BY <1>0, RequestDone
  <2>2. /\ UNCHANGED <<loading, step, built, lines, picking, summary, late>>
        /\ requests' = (requests \ {r}) \cup {d}
    BY <1>8 DEF CarriedOut, addressVars, chosenVars
  <2> HIDE DEF d
  <2> QED
    BY <2>1, <2>2 DEF LoadInv, PhonesOf
<1>9. ASSUME NEW r \in requests, Answered(r) PROVE ReviewInv'
  <2>0. UNCHANGED <<loading, step, built, late>>
    BY <1>9 DEF Answered, Reviewed, Reserved, AnswerKeeps, addressVars
  <2>1. CASE Reviewed(r)
    BY <2>0, <2>1 DEF Reviewed, LoadInv, PhonesOf
  <2>2. CASE Reserved(r)
    <3>1. PhonesOf(lines') = PhonesOf(lines)
      BY <1>0, <2>2 DEF Reserved, PhonesOf, LineChoice
    <3>2. \A q \in requests' : q.kind = "review" => q \in requests
      BY <2>2 DEF Reserved
    <3>3. picking' \subseteq picking /\ UNCHANGED summary
      BY <2>2 DEF Reserved
    <3> QED
      BY <2>0, <3>1, <3>2, <3>3 DEF LoadInv
  <2>3. CASE requests' = requests \ {r} /\ UNCHANGED <<lines, picking, summary>>
    BY <2>0, <2>3 DEF LoadInv, PhonesOf
  <2> QED
    BY <1>9, <2>1, <2>2, <2>3 DEF Answered
<1>10. ASSUME NEW r \in requests, Failed(r) PROVE ReviewInv'
  BY <1>10 DEF Failed, addressVars, chosenVars, LoadInv, PhonesOf
<1> QED
  BY <1>1, <1>2, <1>3, <1>4, <1>5, <1>6, <1>7, <1>8, <1>9, <1>10, WizardKinds

\* The requests that matter to which numbers are held.
Reserving == {r \in requests : r.kind = "reserve"}
Releasing == {r \in requests : r.kind = "unreserve" /\ ~r.done}
Ordering == {r \in requests : r.kind = "order"}

\* What is the line's is not held, and nothing is ordered before an order is posted.
OwnedInv ==
  /\ held \cap Range(assigned) = {}
  /\ orders = {} => Ordering = {} /\ assigned = FirstNumber
  /\ step = 0 => requests = {} /\ orders = {} /\ picking = {}

\* No number can be chosen: the first step is not shown, nor is a dialog to choose one.
Chosen == step # 1 /\ \A d \in picking : d.kind # "number"

\* A number to be replaced is the line's first one, and once the lines' numbers are
\* ordered no other is chosen.
ChosenInv ==
  /\ oldDid = FirstNumber /\ \A d \in picking : d.old = FirstNumber[d.line]
  /\ \A l \in Lines : \/ lines[l].old = NoNumber /\ lines[l].did = FirstNumber[l]
                      \/ lines[l].old = FirstNumber[l] /\ lines[l].did \notin Range(FirstNumber)
  /\ assigned = FirstNumber \/ (assigned = Dids(lines) /\ Chosen /\ Reserving = {})
  /\ \A r \in Reserving : r.old = FirstNumber[r.line]
  /\ \A o, p \in Ordering : o = p
  /\ \A o \in Ordering : ~o.done =>
       /\ assigned = FirstNumber
       /\ Dids(o.lines) = FirstNumber \/ (Dids(o.lines) = Dids(lines) /\ Chosen /\ Reserving = {})

\* A number that is held is that of one line, of one answer under way or of one request
\* to give it back.
HolderInv ==
  /\ \A l, m \in Lines : lines[l].did = lines[m].did => l = m
  /\ \A l \in Lines : lines[l].did \in held \cup Range(assigned)
  /\ \A r \in Reserving : r.done => r.num \in held /\ \A l \in Lines : lines[l].did # r.num
  /\ \A r, q \in Reserving : r.done /\ q.done /\ r.num = q.num => r = q
  /\ \A u \in Releasing : u.num \in held /\ \A l \in Lines : lines[l].did # u.num
  /\ \A u, v \in Releasing : u.num = v.num => u = v
  /\ \A u \in Releasing : \A r \in Reserving : r.done => r.num # u.num
  /\ \A n \in held : \/ \E l \in Lines : lines[l].did = n
                     \/ \E r \in Reserving : r.done /\ r.num = n
                     \/ \E u \in Releasing : u.num = n

HeldInv == OwnedInv /\ (kept => ChosenInv /\ HolderInv)

\* It is about these variables of the wizard only.
LEMMA HeldSame ==
  ASSUME HeldInv, UNCHANGED <<assigned, held, step, lines, oldDid, picking, requests, orders, kept>>
  PROVE  HeldInv'
<1>1. UNCHANGED <<assigned, held, step, lines, oldDid, picking, requests, orders, kept>>
  OBVIOUS
<1>2. UNCHANGED <<Reserving, Releasing, Ordering>> /\ UNCHANGED Dids(lines) /\ UNCHANGED Chosen
  BY <1>1 DEF Reserving, Releasing, Ordering, Dids, Chosen
<1>3. OwnedInv'
  BY <1>1, <1>2 DEF HeldInv, OwnedInv
<1>4. ChosenInv => ChosenInv'
  BY <1>1, <1>2 DEF ChosenInv, Dids
<1>5. HolderInv => HolderInv'
  BY <1>1, <1>2 DEF HolderInv
<1> QED
  BY <1>1, <1>3, <1>4, <1>5 DEF HeldInv

LEMMA HeldElse == ASSUME HeldInv, UNCHANGED wizardVars PROVE HeldInv'
  BY HeldSame DEF wizardVars, chosenVars

\* The numbers of the lines, when none is chosen.
LEMMA NoneChosen ==
  ASSUME WizardTypeOK, ChosenInv, \A l \in Lines : lines[l].old = NoNumber
  PROVE  Dids(lines) = FirstNumber /\ assigned = FirstNumber
<1>1. FirstNumber \in [Lines -> Numbers] /\ NoNumber \notin Numbers
  BY WizardAssumption DEF Injection
<1>2. \A l \in Lines : lines[l].did = FirstNumber[l]
  BY <1>1 DEF ChosenInv
<1>3. Dids(lines) = FirstNumber
  BY <1>1, <1>2 DEF Dids
<1> QED
  BY <1>3 DEF ChosenInv

\* The steps that are built: nothing is chosen, held or given back by them.
LEMMA HeldBuild ==
  ASSUME WizardTypeOK, HeldInv, NEW l, BuildStep(l)
  PROVE  HeldInv'
<1>0. UNCHANGED <<assigned, held, lines, picking>> /\ UNCHANGED Dids(lines)
  BY DEF BuildStep, Dids
<1>1. CASE BuildStep1
  <2>1. /\ step' = 1 /\ oldDid' = Dids(lines) /\ UNCHANGED <<requests, orders>>
        /\ kept' = (kept /\ \A x \in Lines : lines[x].old = NoNumber)
    BY <1>1 DEF BuildStep1, Dids
  <2>2. UNCHANGED <<Reserving, Releasing, Ordering>>
    BY <2>1 DEF Reserving, Releasing, Ordering
  <2>3. OwnedInv'
    BY <1>0, <2>1, <2>2 DEF HeldInv, OwnedInv
  <2>4. ASSUME kept' PROVE ChosenInv' /\ HolderInv'
    <3>1. ChosenInv /\ HolderInv /\ Dids(lines) = FirstNumber /\ assigned = FirstNumber
      BY <2>1, <2>4, NoneChosen DEF HeldInv
    <3>2. ChosenInv'
      BY <1>0, <2>1, <2>2, <3>1 DEF ChosenInv
    <3>3. HolderInv'
      BY <1>0, <2>2, <3>1 DEF HolderInv
    <3> QED
      BY <3>2, <3>3
  <2> QED
    BY <2>3, <2>4 DEF HeldInv
<1>2. CASE BuildStep2(l.no)
  <2>1. step' = 2 /\ UNCHANGED <<oldDid, orders, kept>>
    BY <1>2 DEF BuildStep2
  <2>2. UNCHANGED <<Reserving, Releasing, Ordering>>
    BY <1>2 DEF BuildStep2, Reserving, Releasing, Ordering
  <2>3. OwnedInv' /\ (Chosen => Chosen')
    BY <1>0, <2>1, <2>2 DEF HeldInv, OwnedInv, Chosen
  <2>4. ChosenInv => ChosenInv'
    BY <1>0, <2>1, <2>2, <2>3 DEF ChosenInv
  <2>5. HolderInv => HolderInv'
    BY <1>0, <2>2 DEF HolderInv
  <2> QED
    BY <2>1, <2>3, <2>4, <2>5 DEF HeldInv
<1>3. CASE BuildStep3(l.no, l.seen)
  <2> DEFINE o == [kind |-> "order", no |-> l.no, lines |-> lines, done |-> FALSE]
  <2>1. /\ step' = 3 /\ requests' = requests \cup {o} /\ orders' # {} /\ UNCHANGED oldDid
        /\ kept' = /\ kept /\ orders = {}
                   /\ \A r \in requests : r.kind # "reserve"
                   /\ \A d \in picking : d.kind # "number"
    BY <1>3 DEF BuildStep3
  <2>2. UNCHANGED <<Reserving, Releasing>> /\ Ordering' = Ordering \cup {o} /\ o.lines = lines
    BY <2>1 DEF Reserving, Releasing, Ordering
  <2> HIDE DEF o
  <2>3. OwnedInv'
    BY <1>0, <2>1 DEF HeldInv, OwnedInv
  <2>4. ASSUME kept' PROVE ChosenInv' /\ HolderInv'
    <3>0. /\ kept /\ orders = {} /\ \A r \in requests : r.kind # "reserve"
          /\ \A d \in picking : d.kind # "number"
      BY <2>1, <2>4, Zenon
    <3>1. /\ ChosenInv /\ HolderInv /\ Ordering = {} /\ assigned = FirstNumber /\ Reserving = {}
          /\ Chosen'
      BY <1>0, <2>1, <3>0 DEF HeldInv, OwnedInv, Reserving, Chosen
    <3>2. ChosenInv'
      BY <1>0, <2>1, <2>2, <3>1 DEF ChosenInv
    <3>3. HolderInv'
      BY <1>0, <2>2, <3>1 DEF HolderInv
    <3> QED
      BY <3>2, <3>3
  <2> QED
    BY <2>3, <2>4 DEF HeldInv
<1> QED
  BY <1>1, <1>2, <1>3 DEF BuildStep

\* The backend carries a request out.
LEMMA HeldDone ==
  ASSUME WizardTypeOK, HeldInv, NEW r \in requests, CarriedOut(r)
  PROVE  HeldInv'
<1> DEFINE d == [r EXCEPT !.done = TRUE]
<1>1. /\ d.kind = r.kind /\ d.done /\ ~r.done
      /\ r.kind = "reserve" => d.num = r.num /\ d.old = r.old /\ d.line = r.line
      /\ r.kind = "order" => d.lines = r.lines
  BY RequestDone DEF WizardTypeOK, CarriedOut
<1>2. /\ requests' = (requests \ {r}) \cup {d}
      /\ UNCHANGED <<step, lines, oldDid, picking, orders, kept>>
      /\ UNCHANGED Dids(lines) /\ UNCHANGED Chosen
  BY DEF CarriedOut, Dids, chosenVars, Chosen
<1>3. /\ DOMAIN assigned = Lines /\ step # 0
      /\ r.kind \in {"review", "reserve", "unreserve", "order"}
  BY RequestKinds DEF WizardTypeOK, HeldInv, OwnedInv
<1> HIDE DEF d
<1>4. CASE r.kind = "review"
  <2>1. UNCHANGED <<Reserving, Releasing, Ordering>> /\ UNCHANGED <<assigned, held>>
    BY <1>1, <1>2, <1>4 DEF Reserving, Releasing, Ordering, CarriedOut
  <2>2. OwnedInv'
    BY <1>2, <1>3, <2>1 DEF HeldInv, OwnedInv
  <2>3. ChosenInv => ChosenInv'
    BY <1>2, <2>1 DEF ChosenInv
  <2>4. HolderInv => HolderInv'
    BY <1>2, <2>1 DEF HolderInv
  <2> QED
    BY <1>2, <2>2, <2>3, <2>4 DEF HeldInv
<1>5. CASE r.kind = "reserve"
  <2>1. /\ r \in Reserving /\ Reserving' = (Reserving \ {r}) \cup {d}
        /\ UNCHANGED <<Releasing, Ordering>> /\ UNCHANGED assigned
        /\ held' = held \cup {r.num} /\ r.num \notin held \cup Range(assigned)
    BY <1>1, <1>2, <1>5 DEF Reserving, Releasing, Ordering, CarriedOut
  <2>2. OwnedInv'
    BY <1>2, <1>3, <2>1 DEF HeldInv, OwnedInv
  <2>3. ChosenInv => ChosenInv'
    BY <1>1, <1>2, <1>5, <2>1 DEF ChosenInv
  <2>4. ASSUME HolderInv PROVE HolderInv'
    <3>1. \A l \in Lines : lines[l].did # r.num
      BY <2>1, <2>4 DEF HolderInv
    <3>2. \A q \in Reserving : q.done => q.num # r.num
      BY <2>1, <2>4 DEF HolderInv
    <3>3. \A u \in Releasing : u.num # r.num
      BY <2>1, <2>4 DEF HolderInv
    <3> QED
      BY <1>1, <1>2, <1>5, <2>1, <2>4, <3>1, <3>2, <3>3 DEF HolderInv
  <2> QED
    BY <1>2, <2>2, <2>3, <2>4 DEF HeldInv
<1>6. CASE r.kind = "unreserve"
  <2>1. /\ r \in Releasing /\ Releasing' = Releasing \ {r}
        /\ UNCHANGED <<Reserving, Ordering>> /\ UNCHANGED assigned
        /\ held' = held \ {r.num}
    BY <1>1, <1>2, <1>6 DEF Reserving, Releasing, Ordering, CarriedOut
  <2>2. OwnedInv'
    BY <1>2, <1>3, <2>1 DEF HeldInv, OwnedInv
  <2>3. ChosenInv => ChosenInv'
    BY <1>2, <2>1 DEF ChosenInv
  <2>4. HolderInv => HolderInv'
    BY <1>2, <2>1 DEF HolderInv
  <2> QED
    BY <1>2, <2>2, <2>3, <2>4 DEF HeldInv
<1>7. CASE r.kind = "order"
  <2>1. /\ r \in Ordering /\ Ordering' = (Ordering \ {r}) \cup {d}
        /\ UNCHANGED <<Reserving, Releasing>>
        /\ assigned' = Dids(r.lines) /\ held' = held \ Range(assigned')
    BY <1>1, <1>2, <1>7 DEF Reserving, Releasing, Ordering, CarriedOut
  <2>2. OwnedInv'
    BY <1>2, <1>3, <2>1 DEF HeldInv, OwnedInv
  <2>3. ASSUME ChosenInv PROVE ChosenInv'
    BY <1>1, <1>2, <1>7, <2>1, <2>3 DEF ChosenInv
  <2>4. ASSUME ChosenInv, HolderInv PROVE HolderInv'
    <3>1. CASE assigned' = assigned
      <4>1. held' = held
        BY <2>1, <3>1 DEF HeldInv, OwnedInv
      <4> QED
        BY <1>2, <2>1, <2>4, <3>1, <4>1 DEF HolderInv
    <3>2. CASE assigned' = Dids(lines) /\ Reserving = {}
      <4>1. Range(assigned') = {lines[l].did : l \in Lines}
        BY <3>2 DEF Dids, Range
      <4> QED
        BY <1>2, <2>1, <2>4, <3>2, <4>1 DEF HolderInv
    <3> QED
      BY <1>1, <1>7, <2>1, <2>4, <3>1, <3>2 DEF ChosenInv
  <2> QED
    BY <1>2, <2>2, <2>3, <2>4 DEF HeldInv
<1> QED
  BY <1>3, <1>4, <1>5, <1>6, <1>7

\* The line has the number that was reserved for it, and the one it had is given back.
LEMMA HeldReserved ==
  ASSUME WizardTypeOK, HeldInv, NEW r \in requests, r.done, Reserved(r)
  PROVE  HeldInv'
<1> DEFINE had == lines[r.line].did
           back == {[kind |-> "unreserve", no |-> r.no, num |-> n, done |-> FALSE] : n \in {had} \ {r.old}}
<1>1. /\ r.kind = "reserve" /\ requests' = (requests \ {r}) \cup back
      /\ lines' = [lines EXCEPT ![r.line].did = r.num, ![r.line].old = r.old]
      /\ picking' \subseteq picking
      /\ UNCHANGED <<assigned, held, step, oldDid, orders, kept>>
  BY DEF Reserved, AnswerKeeps
<1>2. /\ r.line \in Lines /\ lines \in [Lines -> LineChoice] /\ step # 0
      /\ DOMAIN assigned = Lines /\ FirstNumber \in [Lines -> Numbers]
  BY <1>1, RequestKinds, WizardAssumption DEF WizardTypeOK, HeldInv, OwnedInv, Injection
<1>3. /\ r \in Reserving /\ Reserving' = Reserving \ {r} /\ Ordering' = Ordering
      /\ Releasing' = Releasing \cup back /\ \A u \in back : u.num = had /\ had # r.old
  BY <1>1 DEF Reserving, Releasing, Ordering
<1>4. \A l \in Lines : IF l = r.line THEN lines'[l].did = r.num /\ lines'[l].old = r.old
                                     ELSE lines'[l].did = lines[l].did /\ lines'[l].old = lines[l].old
  BY <1>1, <1>2 DEF LineChoice
<1>5. \A u, v \in back : u = v
  OBVIOUS
<1>6. had # r.old => \E u \in back : u.num = had
  <2>1. ASSUME had # r.old
        PROVE  [kind |-> "unreserve", no |-> r.no, num |-> had, done |-> FALSE] \in back
    BY <2>1
  <2> QED
    BY <2>1
<1> HIDE DEF back
<1>7. OwnedInv'
  BY <1>1, <1>2, <1>3 DEF HeldInv, OwnedInv
<1>8. ASSUME ChosenInv, HolderInv PROVE ChosenInv' /\ HolderInv'
  <2>1. assigned = FirstNumber /\ r.old = FirstNumber[r.line] /\ r.old \in Range(FirstNumber)
    BY <1>2, <1>3, <1>8 DEF ChosenInv, Range
  <2>2. r.num \in held /\ r.num \notin Range(FirstNumber) /\ \A l \in Lines : lines[l].did # r.num
    BY <1>3, <1>8, <2>1 DEF HolderInv, HeldInv, OwnedInv
  <2>3. had # r.old => had \notin Range(FirstNumber) /\ had \in held
    BY <1>2, <1>8, <2>1 DEF ChosenInv, HolderInv
  <2>4. \A n \in held : n # r.old
    BY <2>1 DEF HeldInv, OwnedInv
  <2>5. ChosenInv'
    <3>1. \A o \in Ordering : ~o.done => Dids(o.lines) = FirstNumber
      BY <1>3, <1>8 DEF ChosenInv
    <3> QED
      BY <1>1, <1>2, <1>3, <1>4, <1>8, <2>1, <2>2, <3>1 DEF ChosenInv
  <2> HIDE DEF had
  <2>6. HolderInv'
    <3>0. had = lines[r.line].did
      BY DEF had
    <3>1. (\A l, m \in Lines : lines[l].did = lines[m].did => l = m)'
      BY <1>2, <1>4, <1>8, <2>2 DEF HolderInv
    <3>2. \A l \in Lines : lines'[l].did \in held \cup Range(assigned)
      BY <1>4, <1>8, <2>2 DEF HolderInv
    <3>3. \A q \in Reserving' : q.done => q.num \in held /\ \A l \in Lines : lines'[l].did # q.num
      <4> SUFFICES ASSUME NEW q \in Reserving', q.done
                   PROVE  q.num \in held /\ \A l \in Lines : lines'[l].did # q.num
        OBVIOUS
      <4>1. q \in Reserving /\ q # r
        BY <1>3
      <4>2. q.num \in held /\ q.num # r.num /\ \A l \in Lines : lines[l].did # q.num
        BY <1>3, <1>8, <4>1 DEF HolderInv
      <4> QED
        BY <1>4, <4>2
    <3>4. (\A q, p \in Reserving : q.done /\ p.done /\ q.num = p.num => q = p)'
      BY <1>3, <1>8 DEF HolderInv
    <3>5. (\A u \in Releasing : u.num \in held /\ \A l \in Lines : lines[l].did # u.num)'
      <4> SUFFICES ASSUME NEW u \in Releasing' PROVE u.num \in held /\ \A l \in Lines : lines'[l].did # u.num
        BY <1>1
      <4>1. CASE u \in Releasing
        BY <1>3, <1>4, <1>8, <4>1 DEF HolderInv
      <4>2. CASE u \in back
        BY <1>2, <1>3, <1>4, <1>8, <2>2, <2>3, <3>0, <4>2 DEF HolderInv
      <4> QED
        BY <1>3, <4>1, <4>2
    <3>6. (\A u, v \in Releasing : u.num = v.num => u = v)'
      BY <1>2, <1>3, <1>5, <1>8, <3>0 DEF HolderInv
    <3>7. (\A u \in Releasing : \A q \in Reserving : q.done => q.num # u.num)'
      BY <1>2, <1>3, <1>8, <3>0 DEF HolderInv
    <3>8. ASSUME NEW n \in held
          PROVE  \/ \E l \in Lines : lines'[l].did = n
                 \/ \E q \in Reserving' : q.done /\ q.num = n
                 \/ \E u \in Releasing' : u.num = n
      <4>1. CASE \E l \in Lines : lines[l].did = n
        BY <1>3, <1>4, <1>6, <2>4, <3>0, <4>1
      <4>2. CASE \E q \in Reserving : q.done /\ q.num = n
        BY <1>2, <1>3, <1>4, <4>2
      <4>3. CASE \E u \in Releasing : u.num = n
        BY <1>3, <4>3
      <4> QED
        BY <1>8, <4>1, <4>2, <4>3 DEF HolderInv
    <3> QED
      BY <1>1, <3>1, <3>2, <3>3, <3>4, <3>5, <3>6, <3>7, <3>8 DEF HolderInv
  <2> QED
    BY <2>5, <2>6
<1> QED
  BY <1>1, <1>7, <1>8 DEF HeldInv

\* A request is answered or fails, and nothing is chosen: what it stood for is over.
LEMMA HeldOver ==
  ASSUME WizardTypeOK, HeldInv, NEW r \in requests, requests' = requests \ {r},
         UNCHANGED <<assigned, held, step, lines, oldDid, picking, orders>>,
         kept' => /\ kept /\ r \notin Releasing
                  /\ r.kind = "reserve" => ~r.done
  PROVE  HeldInv'
<1>1. /\ Reserving' = Reserving \ {r} /\ Releasing' = Releasing \ {r} /\ Ordering' = Ordering \ {r}
      /\ UNCHANGED Dids(lines) /\ UNCHANGED Chosen /\ step # 0
  BY DEF Reserving, Releasing, Ordering, Dids, Chosen, HeldInv, OwnedInv
<1>2. OwnedInv'
  BY <1>1 DEF HeldInv, OwnedInv
<1>3. ChosenInv => ChosenInv'
  BY <1>1 DEF ChosenInv
<1>4. ASSUME kept', HolderInv PROVE HolderInv'
  <2>1. \A q \in Reserving : q.done => q # r
    BY <1>4 DEF Reserving
  <2>2. \A u \in Releasing : u # r
    BY <1>4
  <2> QED
    BY <1>1, <1>4, <2>1, <2>2 DEF HolderInv
<1> QED
  BY <1>2, <1>3, <1>4 DEF HeldInv

\* The wizard's own steps.
LEMMA HeldStep ==
  PageTypeOK /\ WizardTypeOK /\ LoadInv /\ HeldInv /\ WizardNext => HeldInv'
<1> SUFFICES ASSUME PageTypeOK, WizardTypeOK, LoadInv, HeldInv, WizardNext PROVE HeldInv'
  OBVIOUS
<1>0. lines \in [Lines -> LineChoice] /\ requests \subseteq RequestsTo(sent) /\ Moved("wizard")
  BY WizardMoves DEF WizardTypeOK
<1>1. CASE OpenWizard
  <2>1. /\ step = 0 /\ step' = 1
        /\ UNCHANGED <<assigned, held, lines, oldDid, picking, requests, orders, kept>>
    BY <1>1 DEF OpenWizard, chosenVars
  <2>2. /\ UNCHANGED <<Reserving, Releasing, Ordering>> /\ UNCHANGED Dids(lines)
        /\ assigned = FirstNumber /\ Ordering = {}
    BY <2>1 DEF Reserving, Releasing, Ordering, Dids, HeldInv, OwnedInv
  <2>3. OwnedInv'
    BY <2>1, <2>2 DEF HeldInv, OwnedInv
  <2>4. ChosenInv => ChosenInv'
    BY <2>1, <2>2 DEF ChosenInv
  <2>5. HolderInv => HolderInv'
    BY <2>1, <2>2 DEF HolderInv
  <2> QED
    BY <2>1, <2>3, <2>4, <2>5 DEF HeldInv
<1>2. CASE Followed \/ \E l \in loading : Loaded(l)
  <2>1. (\E l \in LoadsTo(sent') : BuildStep(l)) \/ UNCHANGED shownVars
    BY <1>0, <1>2, StepBuilt DEF Fresh
  <2>2. CASE UNCHANGED shownVars
    <3>1. UNCHANGED <<assigned, held, step, lines, oldDid, picking, requests, orders, kept>>
      BY <2>2 DEF shownVars
    <3> QED
      BY <3>1, HeldSame
  <2> QED
    BY <2>1, <2>2, HeldBuild
<1>3. CASE Agree
  BY <1>3, HeldSame DEF Agree, chosenVars
<1>4. CASE ClosePicker \/ \E l \in Lines : \E k \in {"phone", "number"} : OpenPicker(k, l)
  <2>1. UNCHANGED <<assigned, held, step, lines, oldDid, requests, orders, kept>>
    BY <1>4 DEF ClosePicker, OpenPicker
  <2>2. /\ UNCHANGED <<Reserving, Releasing, Ordering>> /\ UNCHANGED Dids(lines)
        /\ Chosen => Chosen'
        /\ step = 0 => picking' = {}
        /\ \A d \in picking' : d \in picking \/ d.old = oldDid[d.line]
    BY <1>4, <2>1 DEF ClosePicker, OpenPicker, Chosen, Reserving, Releasing, Ordering, Dids
  <2>3. OwnedInv'
    BY <2>1, <2>2 DEF HeldInv, OwnedInv
  <2>4. ChosenInv => ChosenInv'
    BY <2>1, <2>2 DEF ChosenInv
  <2>5. HolderInv => HolderInv'
    BY <2>1, <2>2 DEF HolderInv
  <2> QED
    BY <2>1, <2>3, <2>4, <2>5 DEF HeldInv
<1>5. ASSUME NEW d \in picking, NEW p \in Phones, ChoosePhone(d, p) PROVE HeldInv'
  <2>1. /\ UNCHANGED <<assigned, held, step, oldDid, requests, orders, kept>>
        /\ lines' = [lines EXCEPT ![d.line].phone = p] /\ picking' = {}
    BY <1>5 DEF ChoosePhone
  <2>2. \A m \in Lines : lines'[m].did = lines[m].did /\ lines'[m].old = lines[m].old
    BY <1>0, <2>1 DEF LineChoice
  <2>3. UNCHANGED <<Reserving, Releasing, Ordering>> /\ UNCHANGED Dids(lines) /\ (Chosen => Chosen')
    BY <2>1, <2>2 DEF Reserving, Releasing, Ordering, Dids, Chosen
  <2>4. OwnedInv'
    BY <2>1, <2>3 DEF HeldInv, OwnedInv
  <2>5. ChosenInv => ChosenInv'
    BY <2>1, <2>2, <2>3 DEF ChosenInv
  <2>6. HolderInv => HolderInv'
    BY <2>1, <2>2, <2>3 DEF HolderInv
  <2> QED
    BY <2>1, <2>4, <2>5, <2>6 DEF HeldInv
<1>6. ASSUME NEW d \in picking, NEW n \in Numbers, Choose(d, n) PROVE HeldInv'
  <2> DEFINE r == [kind |-> "reserve", no |-> sent + 1, line |-> d.line, num |-> n,
                   old |-> d.old, form |-> d.form, done |-> FALSE]
  <2>1. /\ UNCHANGED <<assigned, held, step, lines, oldDid, picking, orders, kept>>
        /\ requests' = requests \cup {r} /\ ~Chosen /\ step # 0
    BY <1>6 DEF Choose, chosenVars, Chosen, HeldInv, OwnedInv
  <2>2. /\ Reserving' = Reserving \cup {r} /\ UNCHANGED <<Releasing, Ordering>>
        /\ UNCHANGED Dids(lines) /\ r.line = d.line /\ r.old = d.old /\ ~r.done
    BY <2>1 DEF Reserving, Releasing, Ordering, Dids
  <2> HIDE DEF r
  <2>3. OwnedInv'
    BY <2>1, <2>2 DEF HeldInv, OwnedInv
  <2>4. ChosenInv => ChosenInv'
    BY <2>1, <2>2 DEF ChosenInv
  <2>5. HolderInv => HolderInv'
    BY <2>1, <2>2 DEF HolderInv
  <2> QED
    BY <2>1, <2>3, <2>4, <2>5 DEF HeldInv
<1>7. ASSUME NEW r \in requests, CarriedOut(r) PROVE HeldInv'
  BY <1>7, HeldDone
<1>8. ASSUME NEW r \in requests, Answered(r) PROVE HeldInv'
  <2>1. CASE Reserved(r)
    BY <1>8, <2>1, HeldReserved DEF Answered
  <2>2. CASE r.kind # "reserve"
    <3>1. r.done /\ requests' = requests \ {r}
      BY <1>8, <2>2 DEF Answered, Reviewed, Reserved
    <3>2. UNCHANGED <<assigned, held, step, lines, oldDid, picking, orders, kept>>
      BY <1>8, <2>2 DEF Answered, Reviewed, Reserved, AnswerKeeps
    <3>3. r \notin Releasing
      BY <3>1 DEF Releasing
    <3> QED
      BY <2>2, <3>1, <3>2, <3>3, HeldOver
  <2> QED
    BY <1>8, <2>1, <2>2 DEF Answered, Reviewed
<1>9. ASSUME NEW r \in requests, Failed(r) PROVE HeldInv'
  <2>1. requests' = requests \ {r} /\ UNCHANGED <<assigned, held, step, lines, oldDid, picking, orders>>
    BY <1>9 DEF Failed, chosenVars
  <2>2. kept' => kept /\ r \notin Releasing /\ (r.kind = "reserve" => ~r.done)
    BY <1>9 DEF Failed, Releasing
  <2> QED
    BY <2>1, <2>2, HeldOver
<1> QED
  BY <1>1, <1>2, <1>3, <1>4, <1>5, <1>6, <1>7, <1>8, <1>9, WizardKinds

-----------------------------------------------------------------------------
(* The account's page.                                                     *)

\* The form is shown where the address is, and what it says of the address is told by
\* the question asked last, which is about what is typed when nothing is waiting.
VerdictInv ==
  /\ form # 0 => stage = "shown"
  /\ page = "account" /\ stage = "shown" => (timer => ~valid)
  /\ page = "account" /\ form # 0 =>
       /\ told = "nothing" => ~wrong
       /\ told = "nothing" /\ ~timer => \A q \in checks : q.no = verified => q.address = tenant
  /\ VerdictIsTheAddress

\* All updates that are open are of the address shown, and it is the backend's as soon
\* as one of them is carried out.  There is a control to post one.
UpdateInv ==
  /\ stage = "shown" => infos \in 1..MaxInfos
  /\ page = "account" /\ ~unsaved =>
       /\ stage \in {"asked", "read"} => updates = {}
       /\ stage = "read" => account = contact
       /\ stage = "shown" =>
            /\ \A u \in updates : u.address = tenant
            /\ tenant = contact \/ \E u \in updates : ~u.done

\* The steps of the account's page.
LEMMA AccountMoves == PageTypeOK /\ AccountNext => Moved("account")
<1> SUFFICES ASSUME PageTypeOK, AccountNext PROVE Moved("account")
  OBVIOUS
<1>1. CASE OpenAccount
  BY <1>1, OpenMoves DEF OpenAccount
<1>2. CASE AccountRead \/ AccountComes \/ ShowAgain
  BY <1>2, StayMoves DEF AccountRead, AccountComes, ShowAgain, pageVars
<1>3. CASE ChangeAddress \/ Update
  BY <1>3, SendMoves DEF ChangeAddress, Update
<1>4. ASSUME NEW x \in Streets, TypeStreet(x) PROVE Moved("account")
  BY <1>4, StayMoves DEF TypeStreet, pageVars
<1>5. ASSUME NEW x \in States, TypeState(x) PROVE Moved("account")
  BY <1>5, StayMoves, SendMoves DEF TypeState, Verify, pageVars
<1>6. CASE Pause
  BY <1>6, StayMoves, SendMoves DEF Pause, Verify, pageVars
<1>7. ASSUME NEW q \in checks, CheckAnswered(q) \/ CheckFails(q) PROVE Moved("account")
  BY <1>7, StayMoves DEF CheckAnswered, CheckFails, pageVars
<1>8. ASSUME NEW u \in updates, UpdateCarriedOut(u) \/ UpdateAnswered(u) \/ UpdateFails(u)
      PROVE  Moved("account")
  BY <1>8, StayMoves DEF UpdateCarriedOut, UpdateAnswered, UpdateFails, pageVars
<1> QED
  BY <1>1, <1>2, <1>3, <1>4, <1>5, <1>6, <1>7, <1>8 DEF AccountNext, AccountClicks, AccountRest

\* The types when more numbers are taken.
LEMMA AccountGrow ==
  ASSUME PageTypeOK, AccountTypeOK, NEW p, Moved(p)
  PROVE  /\ sent \in Nat /\ sent' \in Nat
         /\ contact \in Addresses /\ account \in Addresses /\ tenant \in Addresses
         /\ stage \in {"none", "asked", "read", "shown"} /\ opened \in 0..sent' /\ infos \in 0..MaxInfos
         /\ valid \in BOOLEAN /\ timer \in BOOLEAN
         /\ form \in 0..sent' /\ verdict \in BOOLEAN /\ wrong \in BOOLEAN
         /\ checks \subseteq [no : 1..sent', form : 0..sent', address : Addresses]
         /\ verified \in 0..sent' /\ told \in {"nothing", "newest", "mixed"}
         /\ updates \subseteq UpdatesTo(sent')
         /\ unsaved \in BOOLEAN
<1>1. sent \in Nat /\ sent' \in Nat /\ 0..sent \subseteq 0..sent' /\ 1..sent \subseteq 1..sent'
  BY SentAssumption DEF PageTypeOK, Moved
<1>2. checks \subseteq [no : 1..sent', form : 0..sent', address : Addresses]
  BY <1>1 DEF AccountTypeOK
<1>3. updates \subseteq UpdatesTo(sent')
  BY <1>1 DEF AccountTypeOK, UpdatesTo
<1> QED
  BY <1>1, <1>2, <1>3 DEF AccountTypeOK

\* Numbers that are taken do not matter to it.
LEMMA AccountElse ==
  ASSUME PageTypeOK, AccountTypeOK, VerdictInv, UpdateInv, UNCHANGED accountVars,
         NEW p, p # "account", Moved(p)
  PROVE  AccountTypeOK' /\ VerdictInv' /\ UpdateInv'
<1>1. /\ UNCHANGED <<contact, account, stage, opened, infos, tenant, valid, timer>>
      /\ UNCHANGED <<form, verdict, wrong, checks, verified, told, updates, unsaved>>
      /\ page' = "account" => page = "account"
  BY DEF accountVars, formVars, Moved
<1>2. AccountTypeOK'
  BY <1>1, AccountGrow DEF AccountTypeOK
<1>3. VerdictInv'
  BY <1>1 DEF VerdictInv, VerdictIsTheAddress
<1>4. UpdateInv'
  BY <1>1 DEF UpdateInv
<1> QED
  BY <1>2, <1>3, <1>4

\* A part of an address is replaced.
LEMMA AddressParts ==
  ASSUME NEW d \in Addresses
  PROVE  /\ \A x \in Streets : [d EXCEPT !.street = x] \in Addresses
         /\ \A x \in States : [d EXCEPT !.state = x] \in Addresses
  BY DEF Addresses

\* The page's own steps keep its types.
LEMMA AccountTypeStep == PageTypeOK /\ AccountTypeOK /\ AccountNext => AccountTypeOK'
<1> SUFFICES ASSUME PageTypeOK, AccountTypeOK, AccountNext PROVE AccountTypeOK'
  OBVIOUS
<1>0. /\ sent \in Nat /\ sent' \in Nat
      /\ contact \in Addresses /\ account \in Addresses /\ tenant \in Addresses
      /\ stage \in {"none", "asked", "read", "shown"} /\ opened \in 0..sent' /\ infos \in 0..MaxInfos
      /\ valid \in BOOLEAN /\ timer \in BOOLEAN
      /\ form \in 0..sent' /\ verdict \in BOOLEAN /\ wrong \in BOOLEAN
      /\ checks \subseteq [no : 1..sent', form : 0..sent', address : Addresses]
      /\ verified \in 0..sent' /\ told \in {"nothing", "newest", "mixed"}
      /\ updates \subseteq UpdatesTo(sent')
      /\ unsaved \in BOOLEAN
  BY AccountMoves, AccountGrow
<1>00. 0 \in 0..sent' /\ (Send => sent' \in 0..sent' /\ sent' \in 1..sent')
  BY <1>0 DEF Send
<1>02. /\ MaxInfos \in Nat \ {0} /\ 1..MaxInfos \subseteq 0..MaxInfos
       /\ infos < MaxInfos => infos + 1 \in 0..MaxInfos
       /\ 1..infos \subseteq 1..MaxInfos
  BY <1>0, AccountAssumption
<1>01. ASSUME NEW d \in Addresses, Verify(d)
       PROVE  /\ checks' \subseteq [no : 1..sent', form : 0..sent', address : Addresses]
              /\ verified' \in 0..sent' /\ valid' = TRUE /\ told' = "nothing" /\ wrong' = FALSE
              /\ UNCHANGED <<form, verdict>>
  <2>1. [no |-> sent', form |-> form, address |-> d]
          \in [no : 1..sent', form : 0..sent', address : Addresses]
    BY <1>0, <1>00, <1>01 DEF Verify
  <2>2. checks' \subseteq [no : 1..sent', form : 0..sent', address : Addresses]
    BY <1>0, <1>01, <2>1 DEF Verify
  <2> QED
    BY <1>00, <1>01, <2>2 DEF Verify
<1>1. CASE OpenAccount
  BY <1>0, <1>00, <1>1 DEF OpenAccount, OpenPage, AccountTypeOK
<1>2. CASE AccountRead \/ AccountComes
  BY <1>0, <1>02, <1>2 DEF AccountRead, AccountComes, formVars, AccountTypeOK
<1>20. CASE ShowAgain
  BY <1>0, <1>00, <1>02, <1>20 DEF ShowAgain, AccountTypeOK
<1>3. CASE ChangeAddress
  BY <1>0, <1>00, <1>3 DEF ChangeAddress, AccountTypeOK
<1>4. ASSUME NEW x \in Streets, TypeStreet(x) PROVE AccountTypeOK'
  BY <1>0, <1>4, AddressParts DEF TypeStreet, AccountTypeOK
<1>5. ASSUME NEW x \in States, TypeState(x) PROVE AccountTypeOK'
  <2>1. tenant' \in Addresses
    BY <1>0, <1>5, AddressParts DEF TypeState
  <2>2. CASE Verify(tenant')
    <3>1. UNCHANGED <<contact, account, stage, opened, infos, timer, updates>> /\ unsaved' \in BOOLEAN
      BY <1>0, <1>5 DEF TypeState
    <3> QED
      BY <1>0, <1>01, <2>1, <2>2, <3>1 DEF AccountTypeOK
  <2>3. CASE ~Verify(tenant')
    BY <1>0, <1>5, <2>1, <2>3 DEF TypeState, formVars, AccountTypeOK
  <2> QED
    BY <2>2, <2>3
<1>6. CASE Pause
  <2>1. CASE Verify(tenant)
    BY <1>0, <1>01, <1>6, <2>1 DEF Pause, AccountTypeOK
  <2>2. CASE ~Verify(tenant)
    BY <1>0, <1>6, <2>2 DEF Pause, formVars, AccountTypeOK
  <2> QED
    BY <2>1, <2>2
<1>7. CASE Update
  <2>1. ASSUME NEW i \in 1..infos
        PROVE  [no |-> sent', by |-> i, opened |-> opened, address |-> tenant, done |-> FALSE]
                 \in UpdatesTo(sent')
    BY <1>0, <1>00, <1>02, <1>7 DEF Update, UpdatesTo
  <2>2. unsaved' \in BOOLEAN
    BY <1>0, <1>7 DEF Update
  <2>3. UNCHANGED <<contact, account, stage, opened, infos, tenant, valid, timer, form, verdict, wrong,
                    checks, verified, told>>
    BY <1>7 DEF Update, formVars
  <2>4. updates' \subseteq UpdatesTo(sent')
    BY <1>0, <1>7, <2>1 DEF Update
  <2> QED
    BY <1>0, <2>2, <2>3, <2>4 DEF AccountTypeOK
<1>8. ASSUME NEW q \in checks, CheckAnswered(q) \/ CheckFails(q) PROVE AccountTypeOK'
  <2>1. verdict' \in BOOLEAN /\ wrong' \in BOOLEAN /\ told' \in {"nothing", "newest", "mixed"}
    <3>1. CASE CheckAnswered(q) /\ q.form = form
      <4>1. verdict' = (q.address \in Deliverable) /\ wrong' = (wrong \/ q.address \notin Deliverable)
        BY <3>1 DEF CheckAnswered
      <4>2. told' \in {"nothing", "newest", "mixed"}
        BY <3>1 DEF CheckAnswered
      <4> QED
        BY <1>0, <4>1, <4>2
    <3>2. CASE ~(CheckAnswered(q) /\ q.form = form)
      BY <1>0, <1>8, <3>2 DEF CheckAnswered, CheckFails
    <3> QED
      BY <3>1, <3>2
  <2>2. /\ UNCHANGED <<contact, account, stage, opened, infos, tenant, valid, timer, form, verified,
                       updates, unsaved>>
        /\ checks' \subseteq checks
    BY <1>8 DEF CheckAnswered, CheckFails
  <2> QED
    BY <1>0, <2>1, <2>2 DEF AccountTypeOK
<1>9. ASSUME NEW u \in updates, UpdateCarriedOut(u) PROVE AccountTypeOK'
  BY <1>0, <1>9 DEF UpdateCarriedOut, formVars, AccountTypeOK, UpdatesTo
<1>10. ASSUME NEW u \in updates, UpdateAnswered(u) \/ UpdateFails(u) PROVE AccountTypeOK'
  BY <1>0, <1>00, <1>10 DEF UpdateAnswered, UpdateFails, formVars, AccountTypeOK
<1> QED
  BY <1>1, <1>2, <1>20, <1>3, <1>4, <1>5, <1>6, <1>7, <1>8, <1>9, <1>10 DEF AccountNext, AccountClicks, AccountRest

\* What the form says is of the address it has, whatever is typed and answered.
LEMMA VerdictStep == PageTypeOK /\ AccountTypeOK /\ VerdictInv /\ AccountNext => VerdictInv'
<1> SUFFICES ASSUME PageTypeOK, AccountTypeOK, VerdictInv, AccountNext PROVE VerdictInv'
  OBVIOUS
<1>0. /\ sent \in Nat /\ verified \in 0..sent /\ \A q \in checks : q.no \in 1..sent
      /\ valid \in BOOLEAN /\ timer \in BOOLEAN /\ verdict \in BOOLEAN /\ wrong \in BOOLEAN
  BY SentAssumption DEF PageTypeOK, AccountTypeOK
<1>00. Send => sent' = sent + 1 /\ \A q \in checks : q.no # sent'
  BY <1>0 DEF Send
<1> USE DEF VerdictInv, VerdictIsTheAddress
<1>1. CASE OpenAccount
  BY <1>1 DEF OpenAccount
<1>2. CASE AccountRead \/ AccountComes \/ ShowAgain
  BY <1>2 DEF AccountRead, AccountComes, ShowAgain, formVars
<1>3. CASE ChangeAddress
  BY <1>0, <1>3 DEF ChangeAddress
<1>4. ASSUME NEW x \in Streets, TypeStreet(x) PROVE VerdictInv'
  BY <1>4 DEF TypeStreet, Typing
<1>5. ASSUME NEW x \in States, TypeState(x) PROVE VerdictInv'
  BY <1>00, <1>5 DEF TypeState, Typing, Verify, formVars, pageVars
<1>6. CASE Pause
  <2>1. CASE Typing /\ ~valid
    BY <1>00, <1>6, <2>1 DEF Pause, Typing, Verify
  <2>2. CASE ~(Typing /\ ~valid)
    BY <1>6, <2>2 DEF Pause, Typing, formVars, pageVars
  <2> QED
    BY <2>1, <2>2
<1>7. CASE Update
  BY <1>7 DEF Update, formVars
<1>8. ASSUME NEW q \in checks, CheckAnswered(q) PROVE VerdictInv'
  BY <1>0, <1>8 DEF CheckAnswered, pageVars
<1>9. ASSUME NEW q \in checks, CheckFails(q) PROVE VerdictInv'
  BY <1>9 DEF CheckFails, pageVars
<1>10. ASSUME NEW u \in updates, UpdateCarriedOut(u) \/ UpdateAnswered(u) \/ UpdateFails(u)
       PROVE  VerdictInv'
  BY <1>10 DEF UpdateCarriedOut, UpdateAnswered, UpdateFails, formVars, pageVars
<1> QED
  BY <1>1, <1>2, <1>3, <1>4, <1>5, <1>6, <1>7, <1>8, <1>9, <1>10 DEF AccountNext, AccountClicks, AccountRest

\* The address shown is the backend's but while an update of it is under way.
LEMMA UpdateStep ==
  PageTypeOK /\ AccountTypeOK /\ VerdictInv /\ UpdateInv /\ AccountNext => UpdateInv'
<1> SUFFICES ASSUME PageTypeOK, AccountTypeOK, VerdictInv, UpdateInv, AccountNext PROVE UpdateInv'
  OBVIOUS
<1>0. /\ updates \subseteq UpdatesTo(sent) /\ infos \in 0..MaxInfos /\ MaxInfos \in Nat
      /\ unsaved \in BOOLEAN /\ (form # 0 => stage = "shown")
  BY AccountAssumption DEF AccountTypeOK, VerdictInv, UpdatesTo
<1> USE DEF UpdateInv
<1>1. CASE OpenAccount
  BY <1>1 DEF OpenAccount
<1>2. CASE AccountRead \/ AccountComes
  BY <1>2 DEF AccountRead, AccountComes
<1>3. CASE ShowAgain
  BY <1>0, <1>3 DEF ShowAgain, pageVars
<1>4. CASE ChangeAddress
  BY <1>4 DEF ChangeAddress
<1>5. ASSUME NEW x \in Streets, TypeStreet(x) PROVE UpdateInv'
  BY <1>5 DEF TypeStreet
<1>6. ASSUME NEW x \in States, TypeState(x) PROVE UpdateInv'
  BY <1>6 DEF TypeState
<1>7. CASE Pause
  BY <1>7 DEF Pause, pageVars
<1>8. CASE Update
  <2> DEFINE New == {[no |-> sent', by |-> i, opened |-> opened, address |-> tenant,
                      done |-> FALSE] : i \in 1..infos}
  <2>1. /\ page = "account" /\ stage = "shown" /\ UNCHANGED <<page, stage, contact, tenant, infos>>
        /\ updates' = updates \cup New /\ (~unsaved' => updates = {})
    BY <1>0, <1>8 DEF Update, Typing
  <2>2. 1 \in 1..infos
    BY <1>0, <2>1
  <2>3. [no |-> sent', by |-> 1, opened |-> opened, address |-> tenant, done |-> FALSE] \in New
    BY <2>2
  <2>4. \A u \in New : u.address = tenant /\ ~u.done
    OBVIOUS
  <2>5. \E u \in New : ~u.done
    BY <2>3, <2>4
  <2> HIDE DEF New
  <2> QED
    BY <2>1, <2>4, <2>5
<1>9. ASSUME NEW q \in checks, CheckAnswered(q) \/ CheckFails(q) PROVE UpdateInv'
  BY <1>9 DEF CheckAnswered, CheckFails, pageVars
<1>10. ASSUME NEW u \in updates, UpdateCarriedOut(u) PROVE UpdateInv'
  <2> DEFINE d == [u EXCEPT !.done = TRUE]
  <2>1. d.address = u.address /\ d.done = TRUE
    BY <1>0 DEF UpdatesTo
  <2>2. /\ UNCHANGED <<page, unsaved, stage, account, opened, infos, tenant>>
        /\ contact' = u.address /\ updates' = (updates \ {u}) \cup {d} /\ ~u.done
    BY <1>10 DEF UpdateCarriedOut, pageVars
  <2> HIDE DEF d
  <2> QED
    BY <1>0, <2>1, <2>2
<1>11. ASSUME NEW u \in updates, UpdateAnswered(u) PROVE UpdateInv'
  <2>1. /\ UNCHANGED <<page, unsaved, stage, contact, infos, tenant>>
        /\ updates' = updates \ {u} /\ u.done
    BY <1>11 DEF UpdateAnswered, pageVars
  <2> QED
    BY <1>0, <2>1
<1>12. ASSUME NEW u \in updates, UpdateFails(u) PROVE UpdateInv'
  <2>1. /\ UNCHANGED <<page, stage, contact, account, infos, tenant>>
        /\ updates' = updates \ {u} /\ (~unsaved' => ~unsaved /\ u.done)
    BY <1>0, <1>12 DEF UpdateFails, pageVars
  <2> QED
    BY <1>0, <2>1
<1> QED
  BY <1>1, <1>2, <1>3, <1>4, <1>5, <1>6, <1>7, <1>8, <1>9, <1>10, <1>11, <1>12
     DEF AccountNext, AccountClicks, AccountRest

-----------------------------------------------------------------------------
(* Lists of members, and the rows of one.                                  *)

RowSet == [id : Users, at : Nat \ {0}]

\* A function of the first numbers is a sequence.
LEMMA FirstNumbers ==
  ASSUME NEW S, NEW n \in Nat, NEW f \in [1..n -> S]
  PROVE  f \in Seq(S) /\ Len(f) = n /\ DOMAIN f = 1..n
  OBVIOUS

\* A list with another merged into it is as long as the longer one.
LEMMA MergedSeq ==
  ASSUME NEW old \in Seq(Users), NEW new \in Seq(Users)
  PROVE  Merged(old, new) \in Seq(Users) /\ DOMAIN Merged(old, new) = DOMAIN old \cup DOMAIN new
<1> DEFINE n == IF Len(old) >= Len(new) THEN Len(old) ELSE Len(new)
<1>1. DOMAIN old = 1..Len(old) /\ DOMAIN new = 1..Len(new) /\ Len(old) \in Nat /\ Len(new) \in Nat
  OBVIOUS
<1>2. n \in Nat /\ DOMAIN old \cup DOMAIN new = 1..n
  BY <1>1
<1> HIDE DEF n
<1>3. \A i \in 1..n : (IF i \in DOMAIN new THEN new[i] ELSE old[i]) \in Users
  BY <1>1, <1>2, ElementOfSeq
<1>4. Merged(old, new) \in [1..n -> Users]
  BY <1>2, <1>3 DEF Merged
<1> QED
  BY <1>2, <1>4, FirstNumbers

\* The rows of a list: one for each member, in its place.
LEMMA RenderedSeq ==
  ASSUME NEW ms \in Seq(Users)
  PROVE  /\ Rendered(ms) \in Seq(RowSet) /\ DOMAIN Rendered(ms) = DOMAIN ms
         /\ \A i \in DOMAIN ms : Rendered(ms)[i].id = ms[i] /\ Rendered(ms)[i].at = i
<1>1. DOMAIN ms = 1..Len(ms) /\ Len(ms) \in Nat
  OBVIOUS
<1>2. \A i \in 1..Len(ms) : [id |-> ms[i], at |-> i] \in RowSet
  BY <1>1, ElementOfSeq DEF RowSet
<1>3. Rendered(ms) \in [1..Len(ms) -> RowSet]
  BY <1>1, <1>2 DEF Rendered
<1>4. Rendered(ms) \in Seq(RowSet)
  BY <1>1, <1>3, FirstNumbers
<1> QED
  BY <1>1, <1>4 DEF Rendered

\* The extensions of the rows.
LEMMA IdsSeq ==
  ASSUME NEW rs \in Seq(RowSet)
  PROVE  [i \in DOMAIN rs |-> rs[i].id] \in Seq(Users)
<1>1. DOMAIN rs = 1..Len(rs) /\ Len(rs) \in Nat
  OBVIOUS
<1>0. \A i \in 1..Len(rs) : rs[i] \in RowSet
  BY ElementOfSeq
<1>2. \A i \in 1..Len(rs) : rs[i].id \in Users
  BY <1>0 DEF RowSet
<1>3. [i \in DOMAIN rs |-> rs[i].id] \in [1..Len(rs) -> Users]
  BY <1>1, <1>2
<1> QED
  BY <1>1, <1>3, FirstNumbers

\* Two rows that are exchanged.
LEMMA SwappedSeq ==
  ASSUME NEW rs \in Seq(RowSet), NEW i \in DOMAIN rs, i + 1 \in DOMAIN rs,
         NEW ts, ts = [rs EXCEPT ![i] = rs[i + 1], ![i + 1] = rs[i]]
  PROVE  /\ ts \in Seq(RowSet) /\ DOMAIN ts = DOMAIN rs
         /\ \A k \in DOMAIN rs : ts[k] = IF k = i THEN rs[i + 1] ELSE IF k = i + 1 THEN rs[i] ELSE rs[k]
<1>1. DOMAIN rs = 1..Len(rs) /\ Len(rs) \in Nat /\ rs[i] \in RowSet /\ rs[i + 1] \in RowSet
      /\ rs \in [1..Len(rs) -> RowSet] /\ i # i + 1
  BY ElementOfSeq
<1>2. ts \in [1..Len(rs) -> RowSet]
  BY <1>1
<1>3. ts \in Seq(RowSet)
  BY <1>1, <1>2, FirstNumbers
<1> QED
  BY <1>1, <1>3

\* A list one member of which is taken out.
LEMMA RemovedSeq ==
  ASSUME NEW ms \in Seq(Users), NEW i \in DOMAIN ms
  PROVE  RemoveAt(ms, i) \in Seq(Users)
<1>1. DOMAIN ms = 1..Len(ms) /\ Len(ms) \in Nat /\ i \in Nat
  OBVIOUS
<1>2. SubSeq(ms, 1, i - 1) \in Seq(Users)
  BY <1>1, ElementOfSeq, SubSeqProperties
<1>3. SubSeq(ms, i + 1, Len(ms)) \in Seq(Users)
  BY <1>1, ElementOfSeq, SubSeqProperties
<1> QED
  BY <1>2, <1>3, ConcatProperties DEF RemoveAt

\* A list without repetition has as many members as its set.
LEMMA InjectiveLen ==
  ASSUME NEW s \in Seq(Users), IsInjective(s)
  PROVE  Cardinality(ToSet(s)) = Len(s)
<1>1. DOMAIN s = 1..Len(s) /\ Len(s) \in Nat /\ 1 \in Int /\ Len(s) \in Int
  OBVIOUS
<1>2. s \in [1..Len(s) -> ToSet(s)] /\ \A x \in ToSet(s) : \E i \in 1..Len(s) : s[i] = x
  BY <1>1 DEF ToSet
<1>3. s \in Surjection(1..Len(s), ToSet(s)) /\ s \in Injection(1..Len(s), ToSet(s))
  BY <1>1, <1>2 DEF Surjection, Injection, IsInjective
<1>4. IsFiniteSet(1..Len(s)) /\ Cardinality(1..Len(s)) = IF 1 > Len(s) THEN 0 ELSE Len(s) - 1 + 1
  BY <1>1, FS_Interval
<1>5. Cardinality(ToSet(s)) = Cardinality(1..Len(s))
  BY <1>3, <1>4, FS_Surjection
<1> QED
  BY <1>1, <1>4, <1>5

\* A list without repetition is so when a member is taken out.
LEMMA RemovedInjective ==
  ASSUME NEW ms \in Seq(Users), IsInjective(ms), NEW i \in DOMAIN ms
  PROVE  IsInjective(RemoveAt(ms, i))
<1> DEFINE s == SubSeq(ms, 1, i - 1)
           t == SubSeq(ms, i + 1, Len(ms))
           n == Len(ms)
<1>1. DOMAIN ms = 1..n /\ n \in Nat /\ i \in 1..n /\ RemoveAt(ms, i) = s \o t
  BY DEF RemoveAt
<1>2. /\ s \in Seq(Users) /\ Len(s) = i - 1
      /\ \A j \in 1..i - 1 : s[j] = ms[j]
  <2>1. \A j \in 1..i - 1 : ms[j] \in Users
    BY <1>1, ElementOfSeq
  <2>2. /\ s \in Seq(Users) /\ Len(s) = IF 1 <= i - 1 THEN i - 1 - 1 + 1 ELSE 0
        /\ \A j \in 1..(i - 1) - 1 + 1 : s[j] = ms[1 + j - 1]
    BY <1>1, <2>1, SubSeqProperties
  <2> QED
    BY <1>1, <2>2
<1>3. /\ t \in Seq(Users) /\ Len(t) = n - i
      /\ \A j \in 1..n - i : t[j] = ms[i + j]
  <2>1. \A j \in i + 1..n : ms[j] \in Users
    BY <1>1, ElementOfSeq
  <2>2. /\ t \in Seq(Users) /\ Len(t) = IF i + 1 <= n THEN n - (i + 1) + 1 ELSE 0
        /\ \A j \in 1..n - (i + 1) + 1 : t[j] = ms[(i + 1) + j - 1]
    BY <1>1, <2>1, SubSeqProperties
  <2> QED
    BY <1>1, <2>2
<1> HIDE DEF s, t, n
<1>4. /\ s \o t \in Seq(Users) /\ Len(s \o t) = n - 1
      /\ \A j \in 1..n - 1 : (s \o t)[j] = IF j <= i - 1 THEN s[j] ELSE t[j - (i - 1)]
  <2>1. /\ s \o t \in Seq(Users) /\ Len(s \o t) = Len(s) + Len(t)
        /\ \A j \in 1..Len(s) + Len(t) :
             (s \o t)[j] = IF j <= Len(s) THEN s[j] ELSE t[j - Len(s)]
    BY <1>2, <1>3, ConcatProperties
  <2>2. Len(s) + Len(t) = n - 1
    BY <1>1, <1>2, <1>3
  <2> QED
    BY <1>2, <2>1, <2>2
<1>5. DOMAIN (s \o t) = 1..n - 1
  BY <1>4
<1>6. ASSUME NEW j \in 1..n - 1
      PROVE  (s \o t)[j] = ms[IF j < i THEN j ELSE j + 1] /\ (IF j < i THEN j ELSE j + 1) \in 1..n
  <2>1. CASE j < i
    BY <1>1, <1>2, <1>4, <2>1
  <2>2. CASE j >= i
    <3>1. j - (i - 1) \in 1..n - i /\ i + (j - (i - 1)) = j + 1 /\ ~(j <= i - 1)
      BY <1>1, <2>2
    <3>2. (s \o t)[j] = t[j - (i - 1)]
      BY <1>4, <3>1
    <3>3. t[j - (i - 1)] = ms[j + 1]
      BY <1>3, <3>1
    <3> QED
      BY <1>1, <2>2, <3>2, <3>3
  <2>3. j < i \/ j >= i
    BY <1>1
  <2> QED
    BY <2>1, <2>2, <2>3
<1>7. IsInjective(s \o t)
  <2> SUFFICES ASSUME NEW j \in 1..n - 1, NEW k \in 1..n - 1, (s \o t)[j] = (s \o t)[k] PROVE j = k
    BY <1>5 DEF IsInjective
  <2>1. (IF j < i THEN j ELSE j + 1) = (IF k < i THEN k ELSE k + 1)
    BY <1>1, <1>6 DEF IsInjective
  <2> QED
    BY <1>1, <2>1
<1> QED
  BY <1>1, <1>7

\* A new member at the end of a list without repetition.
LEMMA AppendedInjective ==
  ASSUME NEW ms \in Seq(Users), IsInjective(ms), NEW u \in Users, u \notin ToSet(ms)
  PROVE  IsInjective(Append(ms, u))
<1> DEFINE n == Len(ms)
<1>1. /\ DOMAIN ms = 1..n /\ n \in Nat /\ DOMAIN Append(ms, u) = 1..n + 1
      /\ \A i \in 1..n : Append(ms, u)[i] = ms[i]
      /\ Append(ms, u)[n + 1] = u
  BY AppendProperties
<1>2. \A i \in 1..n : ms[i] # u
  BY <1>1 DEF ToSet
<1> HIDE DEF n
<1>3. \A i \in 1..n + 1 : i \in 1..n \/ i = n + 1
  BY <1>1
<1> QED
  BY <1>1, <1>2, <1>3 DEF IsInjective

\* A list into which one is merged that is no shorter becomes that one.
LEMMA MergedSame ==
  ASSUME NEW old \in Seq(Users), NEW new \in Seq(Users), Len(old) <= Len(new)
  PROVE  Merged(old, new) = new
<1>1. DOMAIN old = 1..Len(old) /\ DOMAIN new = 1..Len(new) /\ Len(old) \in Nat /\ Len(new) \in Nat
  OBVIOUS
<1>2. DOMAIN old \cup DOMAIN new = 1..Len(new)
  BY <1>1
<1>3. Merged(old, new) = [i \in 1..Len(new) |-> new[i]]
  BY <1>1, <1>2 DEF Merged
<1> QED
  BY <1>1, <1>3

-----------------------------------------------------------------------------
(* The settings of a group.                                                *)

\* What is known of the types, and goes on to be so when more numbers are taken.
GroupTypes(n) ==
  /\ ring \in Seq(Users) /\ option \in Playable
  /\ group \in Models
  /\ owner \in 0..n /\ visit \in 0..n /\ ready \in BOOLEAN
  /\ sub \in {"none", "settings", "members"} /\ build \in 0..n
  /\ rows \in Seq(RowSet)
  /\ canSort \in BOOLEAN /\ canSave \in BOOLEAN
  /\ tab \in Options
  /\ dialogs \subseteq DialogsTo(n)
  /\ calls \subseteq CallsTo(n)
  /\ loads \subseteq QuestionsTo(n)
  /\ merged \in BOOLEAN /\ mixed \in BOOLEAN

\* Calls, questions and dialogs when more numbers are taken.
LEMMA CallsGrow ==
  ASSUME PageTypeOK, NEW p, Moved(p)
  PROVE  /\ sent \in Nat /\ sent' \in Nat /\ 1..sent \subseteq 1..sent' /\ 0..sent \subseteq 0..sent'
         /\ CallsTo(sent) \subseteq CallsTo(sent') /\ QuestionsTo(sent) \subseteq QuestionsTo(sent')
         /\ DialogsTo(sent) \subseteq DialogsTo(sent')
<1>1. sent \in Nat /\ sent' \in Nat /\ 0..sent \subseteq 0..sent' /\ 1..sent \subseteq 1..sent'
  BY SentAssumption DEF PageTypeOK, Moved
<1>2. CallsTo(sent) \subseteq CallsTo(sent')
  <2> SUFFICES ASSUME NEW r \in CallsTo(sent) PROVE r \in CallsTo(sent')
    OBVIOUS
  <2>1. CASE r \in [kind : {"order"}, no : 1..sent, build : 0..sent, ids : Seq(Users), done : BOOLEAN]
    BY <1>1, <2>1 DEF CallsTo
  <2>2. CASE r \in [kind : {"add", "delete"}, no : 1..sent, visit : 0..sent, user : Users,
                    done : BOOLEAN, data : Seq(Users)]
    BY <1>1, <2>2 DEF CallsTo
  <2>3. CASE r \in [kind : {"option"}, no : 1..sent, value : Playable, done : BOOLEAN]
    BY <1>1, <2>3 DEF CallsTo
  <2> QED
    BY <2>1, <2>2, <2>3 DEF CallsTo
<1>3. QuestionsTo(sent) \subseteq QuestionsTo(sent')
  BY <1>1 DEF QuestionsTo
<1>4. DialogsTo(sent) \subseteq DialogsTo(sent')
  BY <1>1 DEF DialogsTo
<1> QED
  BY <1>1, <1>2, <1>3, <1>4

LEMMA GroupGrow ==
  ASSUME PageTypeOK, GroupTypeOK, NEW p, Moved(p)
  PROVE  GroupTypes(sent')
<1>1. /\ owner \in 0..sent' /\ visit \in 0..sent' /\ build \in 0..sent'
      /\ calls \subseteq CallsTo(sent') /\ loads \subseteq QuestionsTo(sent')
      /\ dialogs \subseteq DialogsTo(sent')
  BY CallsGrow DEF GroupTypeOK
<1> QED
  BY <1>1 DEF GroupTypeOK, GroupTypes, RowSet

LEMMA GroupTyped == GroupTypes(sent)' => GroupTypeOK'
  BY DEF GroupTypeOK, GroupTypes, RowSet

\* What the calls of each kind are, and what they are when they are carried out.
LEMMA CallKinds ==
  ASSUME NEW n, NEW r \in CallsTo(n)
  PROVE  /\ r.kind \in {"order", "add", "delete", "option"} /\ r.done \in BOOLEAN
         /\ r.kind = "order" => r.ids \in Seq(Users)
         /\ r.kind \in {"add", "delete"} => r.user \in Users /\ r.data \in Seq(Users)
         /\ r.kind = "option" => r.value \in Playable
<1>1. CASE r \in [kind : {"order"}, no : 1..n, build : 0..n, ids : Seq(Users), done : BOOLEAN]
  BY <1>1
<1>2. CASE r \in [kind : {"add", "delete"}, no : 1..n, visit : 0..n, user : Users, done : BOOLEAN, data : Seq(Users)]
  BY <1>2
<1>3. CASE r \in [kind : {"option"}, no : 1..n, value : Playable, done : BOOLEAN]
  BY <1>3
<1> QED
  BY <1>1, <1>2, <1>3 DEF CallsTo

LEMMA CallDone ==
  ASSUME NEW n, NEW r \in CallsTo(n)
  PROVE  /\ r.kind \in {"order", "option"} => [r EXCEPT !.done = TRUE] \in CallsTo(n)
         /\ r.kind \in {"add", "delete"} =>
              \A d \in Seq(Users) : [r EXCEPT !.done = TRUE, !.data = d] \in CallsTo(n)
<1>1. CASE r \in [kind : {"order"}, no : 1..n, build : 0..n, ids : Seq(Users), done : BOOLEAN]
  <2>1. [r EXCEPT !.done = TRUE] \in
          [kind : {"order"}, no : 1..n, build : 0..n, ids : Seq(Users), done : BOOLEAN]
    BY <1>1
  <2> QED
    BY <1>1, <2>1 DEF CallsTo
<1>2. CASE r \in [kind : {"add", "delete"}, no : 1..n, visit : 0..n, user : Users, done : BOOLEAN, data : Seq(Users)]
  <2>1. \A d \in Seq(Users) : [r EXCEPT !.done = TRUE, !.data = d] \in
          [kind : {"add", "delete"}, no : 1..n, visit : 0..n, user : Users, done : BOOLEAN, data : Seq(Users)]
    BY <1>2
  <2> QED
    BY <1>2, <2>1 DEF CallsTo
<1>3. CASE r \in [kind : {"option"}, no : 1..n, value : Playable, done : BOOLEAN]
  <2>1. [r EXCEPT !.done = TRUE] \in [kind : {"option"}, no : 1..n, value : Playable, done : BOOLEAN]
    BY <1>3
  <2> QED
    BY <1>3, <2>1 DEF CallsTo
<1> QED
  BY <1>1, <1>2, <1>3 DEF CallsTo

\* The steps of the page.
LEMMA GroupMoves == PageTypeOK /\ GroupNext => Moved("group")
<1> SUFFICES ASSUME PageTypeOK, GroupNext PROVE Moved("group")
  OBVIOUS
<1>1. CASE OpenGroup
  BY <1>1, OpenMoves DEF OpenGroup
<1>2. CASE DirectoryComes
  BY <1>2, StayMoves DEF DirectoryComes, pageVars
<1>3. ASSUME NEW c, Post(c) PROVE Moved("group")
  BY <1>3, SendMoves DEF Post
<1>4. CASE Save
  BY <1>3, <1>4 DEF Save, PostHere
<1>5. ASSUME NEW s \in {"settings", "members"}, Show(s) PROVE Moved("group")
  BY <1>5, SendMoves DEF Show
<1>6. ASSUME NEW i \in DOMAIN rows, Drag(i) PROVE Moved("group")
  BY <1>6, StayMoves DEF Drag, pageVars
<1>7. ASSUME NEW i \in DOMAIN rows, Delete(i) PROVE Moved("group")
  BY <1>3, <1>7 DEF Delete, PostHere
<1>8. ASSUME NEW o \in Options, Press(o) PROVE Moved("group")
  BY <1>3, <1>8, StayMoves DEF Press, PostHere, pageVars
<1>9. CASE OpenDialog
  BY <1>9, SendMoves DEF OpenDialog
<1>10. ASSUME NEW d \in dialogs, UsersCome(d) \/ CloseDialog(d) PROVE Moved("group")
  <2>1. UNCHANGED pageVars
    BY <1>10 DEF UsersCome, CloseDialog
  <2> QED
    BY <2>1, StayMoves DEF pageVars
<1>13. ASSUME NEW d \in dialogs, NEW u \in Users, Add(d, u) PROVE Moved("group")
  BY <1>3, <1>13 DEF Add
<1>11. ASSUME NEW c \in calls, CallCarriedOut(c) \/ CallAnswered(c) \/ CallFails(c)
       PROVE  Moved("group")
  BY <1>11, StayMoves DEF CallCarriedOut, CallAnswered, CallFails, pageVars
<1>12. ASSUME NEW l \in loads, SettingsRead(l) \/ SettingsCome(l) \/ SettingsFail(l)
       PROVE  Moved("group")
  BY <1>12, StayMoves DEF SettingsRead, SettingsCome, SettingsFail, pageVars
<1> QED
  BY <1>1, <1>2, <1>4, <1>5, <1>6, <1>7, <1>8, <1>9, <1>10, <1>11, <1>12,
     <1>13 DEF GroupNext, GroupClicks, GroupRest

\* The list of members is shown where its rows are, each for another place of the
\* model's list, and its extensions are those of the members unless an answer has
\* changed these.
RowInv ==
  page = "group" =>
    /\ sub # "members" => rows = <<>>
    /\ \A i \in DOMAIN rows : rows[i].at \in DOMAIN group.members
    /\ \A i, j \in DOMAIN rows : rows[i].at = rows[j].at => i = j
    /\ sub = "members" /\ ~merged =>
         /\ DOMAIN rows = DOMAIN group.members
         /\ \A i \in DOMAIN rows : rows[i].id = group.members[rows[i].at]

\* Numbers that are taken do not matter to it.
LEMMA GroupElse ==
  ASSUME PageTypeOK, GroupTypeOK, RowInv, UNCHANGED groupVars, NEW p, p # "group", Moved(p)
  PROVE  GroupTypeOK' /\ RowInv'
<1>1. /\ UNCHANGED <<ring, option, group, owner, visit, ready, sub, build, rows, canSort, canSave>>
      /\ UNCHANGED <<tab, merged, dialogs, calls, loads, mixed>>
      /\ page' = "group" => page = "group"
  BY DEF groupVars, backendVars, modelVars, viewVars, Moved
<1>2. GroupTypes(sent)'
  BY <1>1, GroupGrow DEF GroupTypes
<1>3. RowInv'
  BY <1>1 DEF RowInv
<1> QED
  BY <1>2, <1>3, GroupTyped

\* A page that is built has the rows of the model it is built from.
LEMMA BuildRows ==
  ASSUME NEW s \in {"none", "settings", "members"}, NEW g \in Models, Build(s, g), sent' \in Nat
  PROVE  /\ sub' \in {"none", "settings", "members"} /\ build' \in 0..sent'
         /\ rows' \in Seq(RowSet) /\ canSort' \in BOOLEAN /\ canSave' \in BOOLEAN
         /\ tab' \in Options /\ merged' \in BOOLEAN
         /\ group'.members = g.members => RowInv'
<1>1. g.members \in Seq(Users) /\ g.option \in Options
  BY DEF Models
<1>2. rows' \in Seq(RowSet)
  BY <1>1, RenderedSeq, EmptySeq DEF Build
<1>3. /\ sub' = s /\ build' = sent' /\ (s # "members" => rows' = <<>>)
      /\ (s = "members" => rows' = Rendered(g.members))
      /\ canSort' = (rows' # <<>>) /\ canSave' = FALSE /\ tab' = g.option /\ merged' = FALSE
  BY DEF Build
<1>4. DOMAIN <<>> = {}
  OBVIOUS
<1>5. group'.members = g.members => RowInv'
  BY <1>1, <1>3, <1>4, RenderedSeq DEF RowInv
<1>6. sub' \in {"none", "settings", "members"} /\ build' \in 0..sent' /\ tab' \in Options
  BY <1>1, <1>3
<1>7. canSort' \in BOOLEAN /\ canSave' \in BOOLEAN /\ merged' \in BOOLEAN
  BY <1>3
<1> QED
  BY <1>2, <1>5, <1>6, <1>7

\* Dialogs whose lists are changed, or no longer the store's, are dialogs of the same pages.
DialogsLike(n, ds) == ds \subseteq DialogsTo(n) /\ \A d \in ds : \E e \in dialogs : d.visit = e.visit

LEMMA DialogsFrozen ==
  ASSUME NEW n, NEW ds, DialogsLike(n, ds)
  PROVE  DialogsLike(n, Frozen(ds))
<1> SUFFICES ASSUME NEW d \in ds
             PROVE  /\ [d EXCEPT !.live = FALSE] \in DialogsTo(n)
                    /\ \E e \in dialogs : [d EXCEPT !.live = FALSE].visit = e.visit
  BY DEF DialogsLike, Frozen
<1>1. d \in DialogsTo(n) /\ \E e \in dialogs : d.visit = e.visit
  BY DEF DialogsLike
<1> QED
  BY <1>1 DEF DialogsTo

LEMMA DialogsShared ==
  ASSUME NEW n, dialogs \subseteq DialogsTo(n), NEW ms \in Seq(Users)
  PROVE  DialogsLike(n, {IF d.live THEN [d EXCEPT !.list = ms] ELSE d : d \in dialogs})
<1>1. ASSUME NEW d \in dialogs
      PROVE  /\ (IF d.live THEN [d EXCEPT !.list = ms] ELSE d) \in DialogsTo(n)
             /\ (IF d.live THEN [d EXCEPT !.list = ms] ELSE d).visit = d.visit
  <2>1. d \in DialogsTo(n) /\ d.live \in BOOLEAN
    BY DEF DialogsTo
  <2>2. CASE d.live
    BY <2>1, <2>2 DEF DialogsTo
  <2>3. CASE ~d.live
    BY <2>1, <2>3
  <2> QED
    BY <2>1, <2>2, <2>3
<1> QED
  BY <1>1 DEF DialogsLike

\* So is one that the users have come to.
LEMMA DialogsCome ==
  ASSUME NEW n, dialogs \subseteq DialogsTo(n), NEW d \in dialogs, UsersCome(d) \/ CloseDialog(d)
  PROVE  DialogsLike(n, dialogs')
<1> DEFINE others == Users \ ToSet(d.list)
<1>0. others \in SUBSET Users
  OBVIOUS
<1> HIDE DEF others
<1>1. dialogs' \subseteq dialogs \cup {[d EXCEPT !.stage = "open", !.offered = others]}
  BY DEF UsersCome, CloseDialog, others
<1>2. /\ [d EXCEPT !.stage = "open", !.offered = others] \in DialogsTo(n)
      /\ [d EXCEPT !.stage = "open", !.offered = others].visit = d.visit
  BY <1>0 DEF DialogsTo
<1> QED
  BY <1>1, <1>2 DEF DialogsLike

\* The page's own steps.
LEMMA GroupStep == PageTypeOK /\ GroupTypeOK /\ RowInv /\ GroupNext => GroupTypeOK' /\ RowInv'
<1> SUFFICES ASSUME PageTypeOK, GroupTypeOK, RowInv, GroupNext PROVE GroupTypes(sent)' /\ RowInv'
  BY GroupTyped
<1>0. /\ sent \in Nat /\ sent' \in Nat /\ GroupTypes(sent') /\ Moved("group")
      /\ page' \in {page, "group"}
  BY GroupMoves, CallsGrow, GroupGrow DEF Moved
<1>00. /\ ring \in Seq(Users) /\ option \in Playable /\ option \in Options
       /\ group \in Models /\ group.members \in Seq(Users) /\ group.option \in Options
       /\ owner \in 0..sent' /\ visit \in 0..sent' /\ ready \in BOOLEAN
       /\ sub \in {"none", "settings", "members"} /\ build \in 0..sent'
       /\ rows \in Seq(RowSet)
       /\ canSort \in BOOLEAN /\ canSave \in BOOLEAN
       /\ tab \in Options
       /\ dialogs \subseteq DialogsTo(sent')
       /\ calls \subseteq CallsTo(sent')
       /\ loads \subseteq QuestionsTo(sent')
       /\ merged \in BOOLEAN /\ mixed \in BOOLEAN
  BY <1>0, GroupAssumption DEF GroupTypes, Models
<1>01. Send => sent' = sent + 1 /\ sent' \in 1..sent' /\ sent' \in 0..sent'
  BY <1>0 DEF Send
<1>02. ASSUME Send, visit' \in 0..sent'
       PROVE  Question \in QuestionsTo(sent')
  <2>1. [members |-> <<>>, option |-> option] \in Models
    BY <1>00, EmptySeq DEF Models
  <2> QED
    BY <1>01, <1>02, <2>1 DEF Question, QuestionsTo, Send
<1>03. \A l \in loads : l.data \in Models /\ l.visit \in 0..sent' /\ l.no \in 1..sent'
  BY <1>00 DEF QuestionsTo
<1>04. DialogsLike(sent', dialogs)
  BY <1>00 DEF DialogsLike
<1>05. \A r \in DOMAIN rows : rows[r] \in RowSet
  BY <1>00, ElementOfSeq
<1>06. Waiting \in BOOLEAN
  BY DEF Waiting
<1>1. CASE OpenGroup
  <2>1. /\ Send /\ visit' = sent' /\ ready' = FALSE /\ Build("none", group)
        /\ loads' = loads \cup {Question} /\ mixed' = (mixed \/ Waiting)
        /\ UNCHANGED <<ring, option, group, owner, dialogs, calls>>
    BY <1>1 DEF OpenGroup, OpenPage, backendVars
  <2>2. loads' \subseteq QuestionsTo(sent')
    BY <1>00, <1>01, <1>02, <2>1
  <2>3. /\ sub' \in {"none", "settings", "members"} /\ build' \in 0..sent'
        /\ rows' \in Seq(RowSet) /\ canSort' \in BOOLEAN /\ canSave' \in BOOLEAN
        /\ tab' \in Options /\ merged' \in BOOLEAN /\ RowInv'
    BY <1>0, <1>00, <2>1, BuildRows
  <2>4. mixed' \in BOOLEAN
    BY <1>00, <1>06, <2>1
  <2> QED
    BY <1>00, <1>01, <2>1, <2>2, <2>3, <2>4 DEF GroupTypes
<1>2. CASE DirectoryComes
  <2>1. /\ page' = page /\ page # "group" /\ owner' = 0 /\ group' = [members |-> <<>>, option |-> option]
        /\ UNCHANGED <<ring, option, visit, ready, sub, build, rows, canSort, canSave, tab, merged>>
        /\ dialogs' = Frozen(dialogs) /\ UNCHANGED <<calls, loads, mixed>>
    BY <1>2 DEF DirectoryComes, pageVars, backendVars, viewVars
  <2>2. group' \in Models /\ dialogs' \subseteq DialogsTo(sent')
    BY <1>00, <1>04, <2>1, EmptySeq, DialogsFrozen DEF Models, DialogsLike
  <2> QED
    BY <1>0, <1>00, <2>1, <2>2 DEF GroupTypes, RowInv
<1>3. ASSUME NEW s \in {"settings", "members"}, Show(s) PROVE GroupTypes(sent)' /\ RowInv'
  <2>1. /\ Build(s, group) /\ UNCHANGED <<ring, option, group, owner, visit, ready>>
        /\ UNCHANGED <<dialogs, calls, loads, mixed>>
    BY <1>3 DEF Show, backendVars, modelVars
  <2>2. /\ sub' \in {"none", "settings", "members"} /\ build' \in 0..sent'
        /\ rows' \in Seq(RowSet) /\ canSort' \in BOOLEAN /\ canSave' \in BOOLEAN
        /\ tab' \in Options /\ merged' \in BOOLEAN /\ RowInv'
    BY <1>0, <1>00, <2>1, BuildRows
  <2> QED
    BY <1>00, <2>1, <2>2 DEF GroupTypes
<1>4. ASSUME NEW c \in CallsTo(sent'), Post(c)
      PROVE  /\ calls' \subseteq CallsTo(sent')
             /\ UNCHANGED <<page, ring, option, owner, visit, ready>> /\ Send
  BY <1>00, <1>4 DEF Post, backendVars
<1>07. ASSUME NEW c, PostHere(c) PROVE Post(c) /\ page = "group" /\ mixed' \in BOOLEAN
  BY <1>00, <1>06, <1>07 DEF PostHere
<1>5. CASE Save
  <2> DEFINE c == [kind |-> "order", no |-> sent', build |-> build,
                   ids |-> [i \in DOMAIN rows |-> rows[i].id], done |-> FALSE]
  <2>1. Send /\ sent' = sent + 1
    BY <1>01, <1>5 DEF Save, PostHere, Post
  <2>2. c \in CallsTo(sent')
    BY <1>00, <1>01, <2>1, IdsSeq DEF CallsTo
  <2>3. /\ PostHere(c) /\ loads' = loads \cup {Question}
        /\ UNCHANGED <<group, sub, build, rows, canSort, canSave, tab, merged, dialogs>>
    BY <1>5, <2>1 DEF Save, viewVars
  <2> HIDE DEF c
  <2>4. /\ calls' \subseteq CallsTo(sent') /\ mixed' \in BOOLEAN
        /\ UNCHANGED <<page, ring, option, owner, visit, ready>>
    BY <1>4, <1>07, <2>2, <2>3
  <2>5. loads' \subseteq QuestionsTo(sent')
    BY <1>00, <1>02, <2>1, <2>3, <2>4
  <2> QED
    BY <1>00, <2>3, <2>4, <2>5 DEF GroupTypes, RowInv
<1>6. ASSUME NEW i \in DOMAIN rows, Drag(i) PROVE GroupTypes(sent)' /\ RowInv'
  <2>1. /\ rows' = [rows EXCEPT ![i] = rows[i + 1], ![i + 1] = rows[i]] /\ i + 1 \in DOMAIN rows
        /\ canSave' = TRUE
        /\ UNCHANGED <<page, ring, option, group, owner, visit, ready, sub, build, canSort, tab, merged>>
        /\ UNCHANGED <<dialogs, calls, loads, mixed>>
    BY <1>6 DEF Drag, pageVars, backendVars, modelVars
  <2>2. /\ rows' \in Seq(RowSet) /\ DOMAIN rows' = DOMAIN rows
        /\ \A k \in DOMAIN rows :
             rows'[k] = IF k = i THEN rows[i + 1] ELSE IF k = i + 1 THEN rows[i] ELSE rows[k]
    BY <1>00, <2>1, SwappedSeq
  <2>3. rows # <<>> /\ i \in Nat
    BY <1>00
  <2>4. RowInv'
    <3> SUFFICES ASSUME page = "group" PROVE RowInv'
      BY <2>1 DEF RowInv
    <3>1. /\ sub = "members"
          /\ \A k \in DOMAIN rows : rows[k].at \in DOMAIN group.members
          /\ \A j, k \in DOMAIN rows : rows[j].at = rows[k].at => j = k
          /\ ~merged => /\ DOMAIN rows = DOMAIN group.members
                        /\ \A k \in DOMAIN rows : rows[k].id = group.members[rows[k].at]
      BY <2>3 DEF RowInv
    <3>2. \A k \in DOMAIN rows : \E m \in DOMAIN rows :
            /\ rows'[k] = rows[m]
            /\ m = IF k = i THEN i + 1 ELSE IF k = i + 1 THEN i ELSE k
      BY <2>1, <2>2
    <3>3. \A j, k \in DOMAIN rows : rows'[j].at = rows'[k].at => j = k
      BY <2>3, <3>1, <3>2
    <3> QED
      BY <2>1, <2>2, <3>1, <3>2, <3>3 DEF RowInv
  <2> QED
    BY <1>00, <2>1, <2>2, <2>4 DEF GroupTypes
<1>7. ASSUME NEW i \in DOMAIN rows, Delete(i) PROVE GroupTypes(sent)' /\ RowInv'
  <2> DEFINE c == [kind |-> "delete", no |-> sent', visit |-> visit,
                   user |-> group.members[rows[i].at], done |-> FALSE, data |-> <<>>]
  <2>1. Send /\ sent' = sent + 1 /\ page = "group"
    BY <1>01, <1>7 DEF Delete, PostHere, Post
  <2>2. group.members[rows[i].at] \in Users
    BY <1>00, <2>1, ElementOfSeq DEF RowInv
  <2>3. c \in CallsTo(sent')
    BY <1>00, <1>01, <2>1, <2>2, EmptySeq DEF CallsTo
  <2>4. PostHere(c) /\ UNCHANGED <<group, sub, build, rows, canSort, canSave, tab, merged, dialogs, loads>>
    BY <1>7, <2>1 DEF Delete, viewVars
  <2> HIDE DEF c
  <2>5. /\ calls' \subseteq CallsTo(sent') /\ mixed' \in BOOLEAN
        /\ UNCHANGED <<page, ring, option, owner, visit, ready>>
    BY <1>4, <1>07, <2>3, <2>4
  <2> QED
    BY <1>00, <2>4, <2>5 DEF GroupTypes, RowInv
<1>8. ASSUME NEW o \in Options, Press(o) PROVE GroupTypes(sent)' /\ RowInv'
  <2>1. tab' = o /\ UNCHANGED <<sub, build, rows, canSort, canSave, merged, dialogs, loads>>
    BY <1>8 DEF Press
  <2>2. CASE o \notin Playable
    <3>1. UNCHANGED <<page, ring, option, group, owner, visit, ready, calls, mixed>>
      BY <1>8, <2>2 DEF Press, pageVars, backendVars, modelVars
    <3> QED
      BY <1>00, <2>1, <3>1 DEF GroupTypes, RowInv
  <2>3. CASE o \in Playable
    <3> DEFINE c == [kind |-> "option", no |-> sent', value |-> o, done |-> FALSE]
    <3>1. Send /\ sent' = sent + 1 /\ group' = [group EXCEPT !.option = o]
      BY <1>01, <1>8, <2>3 DEF Press, PostHere, Post
    <3>2. c \in CallsTo(sent')
      BY <1>01, <2>3, <3>1 DEF CallsTo
    <3>3. PostHere(c)
      BY <1>8, <2>3, <3>1 DEF Press
    <3> HIDE DEF c
    <3>4. /\ calls' \subseteq CallsTo(sent') /\ mixed' \in BOOLEAN
          /\ UNCHANGED <<page, ring, option, owner, visit, ready>>
      BY <1>4, <1>07, <3>2, <3>3
    <3>5. group' \in Models /\ group'.members = group.members
      BY <1>00, <3>1 DEF Models
    <3> QED
      BY <1>00, <2>1, <3>4, <3>5 DEF GroupTypes, RowInv
  <2> QED
    BY <2>2, <2>3
<1>9. CASE OpenDialog
  <2> DEFINE d == [no |-> sent', visit |-> visit, stage |-> "asked",
                   list |-> group.members, live |-> TRUE, offered |-> {}]
  <2>1. Send /\ sent' = sent + 1
    BY <1>01, <1>9 DEF OpenDialog
  <2>2. d \in DialogsTo(sent')
    BY <1>00, <1>01, <2>1 DEF DialogsTo
  <2>3. /\ dialogs' = dialogs \cup {d}
        /\ UNCHANGED <<page, ring, option, group, owner, visit, ready, sub, build, rows, canSort>>
        /\ UNCHANGED <<canSave, tab, merged, calls, loads, mixed>>
    BY <1>9, <2>1 DEF OpenDialog, backendVars, modelVars, viewVars
  <2> HIDE DEF d
  <2>4. dialogs' \subseteq DialogsTo(sent')
    BY <1>00, <2>2, <2>3
  <2> QED
    BY <1>00, <2>3, <2>4 DEF GroupTypes, RowInv
<1>10. ASSUME NEW d \in dialogs, UsersCome(d) \/ CloseDialog(d) PROVE GroupTypes(sent)' /\ RowInv'
  <2>1. /\ UNCHANGED <<page, ring, option, group, owner, visit, ready, sub, build, rows, canSort>>
        /\ UNCHANGED <<canSave, tab, merged, calls, loads, mixed>>
    BY <1>10 DEF UsersCome, CloseDialog, pageVars, backendVars, modelVars, viewVars
  <2>2. dialogs' \subseteq DialogsTo(sent')
    BY <1>00, <1>10, DialogsCome DEF DialogsLike
  <2> QED
    BY <1>00, <2>1, <2>2 DEF GroupTypes, RowInv
<1>17. ASSUME NEW d \in dialogs, NEW u \in Users, Add(d, u) PROVE GroupTypes(sent)' /\ RowInv'
  <2> DEFINE c == [kind |-> "add", no |-> sent', visit |-> d.visit, user |-> u, done |-> FALSE,
                   data |-> <<>>]
  <2>1. Send /\ sent' = sent + 1 /\ d.visit \in 0..sent'
    BY <1>00, <1>01, <1>17 DEF Add, Post, DialogsTo
  <2>2. c \in CallsTo(sent')
    BY <1>00, <1>01, <2>1, EmptySeq DEF CallsTo
  <2>3. /\ Post(c) /\ dialogs' = dialogs \ {d}
        /\ mixed' = (mixed \/ Waiting \/ d.visit # owner)
        /\ UNCHANGED <<group, sub, build, rows, canSort, canSave, tab, merged, loads>>
    BY <1>17, <2>1 DEF Add, viewVars
  <2> HIDE DEF c
  <2>4. /\ calls' \subseteq CallsTo(sent')
        /\ UNCHANGED <<page, ring, option, owner, visit, ready>>
    BY <1>4, <2>2, <2>3
  <2>5. mixed' \in BOOLEAN
    BY <1>00, <1>06, <2>3
  <2>6. dialogs' \subseteq DialogsTo(sent')
    BY <1>00, <2>3
  <2> QED
    BY <1>00, <2>3, <2>4, <2>5, <2>6 DEF GroupTypes, RowInv
<1>11. ASSUME NEW c \in calls, CallCarriedOut(c) PROVE GroupTypes(sent)' /\ RowInv'
  <2>1. /\ UNCHANGED <<page, group, owner, visit, ready, sub, build, rows, canSort, canSave, tab>>
        /\ UNCHANGED <<merged, dialogs, loads, mixed>>
    BY <1>11 DEF CallCarriedOut, pageVars, modelVars, viewVars
  <2>2. CASE c.kind = "order"
    <3>1. ring' = c.ids /\ UNCHANGED option /\ calls' = (calls \ {c}) \cup {[c EXCEPT !.done = TRUE]}
      BY <1>11, <2>2 DEF CallCarriedOut
    <3>2. ring' \in Seq(Users) /\ calls' \subseteq CallsTo(sent')
      BY <1>00, <2>2, <3>1, CallKinds, CallDone
    <3> QED
      BY <1>00, <2>1, <3>1, <3>2 DEF GroupTypes, RowInv
  <2>3. CASE c.kind \in {"add", "delete"}
    <3>1. /\ UNCHANGED option
          /\ calls' = (calls \ {c}) \cup {[c EXCEPT !.done = TRUE, !.data = ring']}
          /\ \/ ring' = Append(ring, c.user)
             \/ \E i \in DOMAIN ring : ring' = RemoveAt(ring, i)
             \/ UNCHANGED ring
      BY <1>11, <2>3 DEF CallCarriedOut
    <3>2. ring' \in Seq(Users)
      <4>1. CASE ring' = Append(ring, c.user)
        BY <1>00, <2>3, <4>1, CallKinds
      <4>2. ASSUME NEW i \in DOMAIN ring, ring' = RemoveAt(ring, i) PROVE ring' \in Seq(Users)
        BY <1>00, <4>2, RemovedSeq
      <4> QED
        BY <1>00, <3>1, <4>1, <4>2
    <3>3. calls' \subseteq CallsTo(sent')
      BY <1>00, <2>3, <3>1, <3>2, CallDone
    <3> QED
      BY <1>00, <2>1, <3>1, <3>2, <3>3 DEF GroupTypes, RowInv
  <2>4. CASE c.kind = "option"
    <3>1. /\ option' = c.value /\ UNCHANGED ring
          /\ calls' = (calls \ {c}) \cup {[c EXCEPT !.done = TRUE]}
      BY <1>11, <2>4 DEF CallCarriedOut
    <3>2. option' \in Playable /\ calls' \subseteq CallsTo(sent')
      BY <1>00, <2>4, <3>1, CallKinds, CallDone
    <3> QED
      BY <1>00, <2>1, <3>1, <3>2 DEF GroupTypes, RowInv
  <2> QED
    BY <1>11, <2>2, <2>3, <2>4 DEF CallCarriedOut
<1>12. ASSUME NEW c \in calls, CallAnswered(c) PROVE GroupTypes(sent)' /\ RowInv'
  <2>1. UNCHANGED <<page, ring, option, loads, mixed>> /\ calls' = calls \ {c}
    BY <1>12 DEF CallAnswered, pageVars, backendVars
  <2>2. CASE OrderAnswered(c)
    <3>1. /\ canSave' \in BOOLEAN
          /\ UNCHANGED <<group, owner, visit, ready, sub, build, rows, canSort, tab, merged, dialogs>>
      BY <1>00, <2>2 DEF OrderAnswered, modelVars
    <3> QED
      BY <1>00, <2>1, <3>1 DEF GroupTypes, RowInv
  <2>3. CASE MembersAnswered(c) /\ c.visit = owner
    <3>1. /\ group' = [group EXCEPT !.members = c.data]
          /\ rows' = IF sub = "members" THEN Rendered(c.data) ELSE rows
          /\ canSort' = FALSE /\ canSave' = FALSE /\ merged' = FALSE
          /\ dialogs' = Frozen(dialogs)
          /\ UNCHANGED <<owner, visit, ready, sub, build, tab>>
      BY <2>3 DEF MembersAnswered
    <3>2. c.data \in Seq(Users)
      BY <1>00, <2>3, CallKinds DEF MembersAnswered
    <3>3. group' \in Models /\ group'.members = c.data /\ dialogs' \subseteq DialogsTo(sent')
      BY <1>00, <1>04, <3>1, <3>2, DialogsFrozen DEF Models, DialogsLike
    <3>4. rows' \in Seq(RowSet)
      BY <1>00, <3>1, <3>2, RenderedSeq
    <3>5. RowInv'
      BY <2>1, <3>1, <3>2, <3>3, RenderedSeq DEF RowInv
    <3> QED
      BY <1>00, <2>1, <3>1, <3>3, <3>4, <3>5 DEF GroupTypes
  <2>4. CASE \/ MembersAnswered(c) /\ c.visit # owner
             \/ c.kind = "option" /\ UNCHANGED <<modelVars, viewVars, dialogs>>
    <3>1. /\ UNCHANGED <<group, owner, visit, ready, sub, build, rows, canSort, canSave, tab, merged>>
          /\ UNCHANGED dialogs
      BY <2>4 DEF MembersAnswered, modelVars, viewVars
    <3> QED
      BY <1>00, <2>1, <3>1 DEF GroupTypes, RowInv
  <2> QED
    BY <1>12, <2>2, <2>3, <2>4 DEF CallAnswered
<1>13. ASSUME NEW c \in calls, CallFails(c) PROVE GroupTypes(sent)' /\ RowInv'
  <2>1. /\ UNCHANGED <<page, ring, option, group, owner, visit, ready, sub, build, rows, canSort>>
        /\ UNCHANGED <<tab, merged, dialogs, loads>> /\ calls' = calls \ {c}
    BY <1>13 DEF CallFails, OrderAnswered, pageVars, backendVars, modelVars, viewVars
  <2>2. canSave' \in BOOLEAN /\ mixed' \in BOOLEAN
    BY <1>00, <1>13 DEF CallFails, OrderAnswered, viewVars
  <2> QED
    BY <1>00, <2>1, <2>2 DEF GroupTypes, RowInv
<1>14. ASSUME NEW l \in loads, SettingsRead(l) PROVE GroupTypes(sent)' /\ RowInv'
  <2> DEFINE d == [members |-> ring, option |-> option]
  <2>1. d \in Models /\ l \in QuestionsTo(sent')
    BY <1>00 DEF Models
  <2>2. /\ loads' = (loads \ {l}) \cup {[l EXCEPT !.read = TRUE, !.data = d]}
        /\ mixed' = (mixed \/ \E c \in calls : ~c.done)
        /\ UNCHANGED <<page, ring, option, group, owner, visit, ready, sub, build, rows, canSort>>
        /\ UNCHANGED <<canSave, tab, merged, dialogs, calls>>
    BY <1>14 DEF SettingsRead, pageVars, backendVars, modelVars, viewVars
  <2> HIDE DEF d
  <2>3. [l EXCEPT !.read = TRUE, !.data = d] \in QuestionsTo(sent')
    BY <2>1 DEF QuestionsTo
  <2>4. loads' \subseteq QuestionsTo(sent') /\ mixed' \in BOOLEAN
    BY <1>00, <2>2, <2>3
  <2> QED
    BY <1>00, <2>2, <2>4 DEF GroupTypes, RowInv
<1>15. ASSUME NEW l \in loads, SettingsCome(l) PROVE GroupTypes(sent)' /\ RowInv'
  <2> DEFINE ms == Merged(group.members, l.data.members)
             first == l.visit = visit /\ ~ready
             anew == sub = "members" /\ rows # <<>> /\ Len(ms) > Len(group.members)
             shared == {IF d.live THEN [d EXCEPT !.list = ms] ELSE d : d \in dialogs}
  <2>1. l.data.members \in Seq(Users) /\ l.data.option \in Options
    BY <1>03 DEF Models
  <2>2. ms \in Seq(Users) /\ DOMAIN group.members \subseteq DOMAIN ms
    BY <1>00, <2>1, MergedSeq
  <2>6. DialogsLike(sent', shared) /\ shared \subseteq DialogsTo(sent')
    BY <1>00, <2>2, DialogsShared DEF DialogsLike
  <2>7. Frozen(shared) \subseteq DialogsTo(sent')
    BY <2>6, DialogsFrozen DEF DialogsLike
  <2>3. /\ loads' = loads \ {l} /\ group' = [members |-> ms, option |-> l.data.option]
        /\ UNCHANGED <<page, ring, option, visit, calls, mixed>>
    BY <1>15 DEF SettingsCome, pageVars, backendVars
  <2>4. CASE first
    <3>1. /\ owner' = visit /\ ready' = TRUE /\ dialogs' = Frozen(shared)
          /\ \/ page = "group" /\ \E s \in {"settings", "members"} : Build(s, group')
             \/ page # "group" /\ UNCHANGED viewVars
      BY <1>15, <2>4 DEF SettingsCome
    <3>6. dialogs' \subseteq DialogsTo(sent')
      BY <2>7, <3>1
    <3> HIDE DEF ms, shared
    <3>2. group' \in Models /\ group'.members = ms
      BY <2>1, <2>2, <2>3 DEF Models
    <3>3. ASSUME NEW s \in {"settings", "members"}, Build(s, group')
          PROVE  /\ sub' \in {"none", "settings", "members"} /\ build' \in 0..sent'
                 /\ rows' \in Seq(RowSet) /\ canSort' \in BOOLEAN /\ canSave' \in BOOLEAN
                 /\ tab' \in Options /\ merged' \in BOOLEAN /\ RowInv'
      BY <1>0, <3>2, <3>3, BuildRows
    <3>4. CASE page # "group"
      <4>1. UNCHANGED <<sub, build, rows, canSort, canSave, tab, merged>>
        BY <3>1, <3>4 DEF viewVars
      <4> QED
        BY <1>00, <2>3, <3>1, <3>2, <3>4, <3>6, <4>1 DEF GroupTypes, RowInv
    <3>5. CASE page = "group"
      BY <1>00, <2>3, <3>1, <3>2, <3>3, <3>5, <3>6 DEF GroupTypes
    <3> QED
      BY <3>4, <3>5
  <2>5. CASE ~first
    <3>1. /\ rows' = IF anew THEN Rendered(ms) ELSE rows
          /\ merged' = (~anew /\ (merged \/ ms # group.members))
          /\ dialogs' = shared
          /\ UNCHANGED <<owner, ready, sub, build, canSort, canSave, tab>>
      BY <1>15, <2>5 DEF SettingsCome
    <3>2. CASE anew
      <4>1. rows' = Rendered(ms) /\ merged' = FALSE /\ sub = "members"
        BY <3>1, <3>2
      <4> HIDE DEF ms, anew, shared
      <4>2. group' \in Models /\ group'.members = ms /\ dialogs' \subseteq DialogsTo(sent')
        BY <1>00, <2>1, <2>2, <2>3, <2>6, <3>1 DEF Models
      <4>3. rows' \in Seq(RowSet) /\ RowInv'
        BY <2>2, <2>3, <3>1, <4>1, <4>2, RenderedSeq DEF RowInv
      <4> QED
        BY <1>00, <2>3, <3>1, <4>1, <4>2, <4>3 DEF GroupTypes
    <3>3. CASE ~anew
      <4>1. rows' = rows /\ merged' = (merged \/ ms # group.members)
        BY <3>1, <3>3
      <4> HIDE DEF ms, anew, shared
      <4>2. group' \in Models /\ group'.members = ms /\ dialogs' \subseteq DialogsTo(sent')
        BY <1>00, <2>1, <2>2, <2>3, <2>6, <3>1 DEF Models
      <4>3. RowInv'
        BY <2>2, <2>3, <3>1, <4>1, <4>2 DEF RowInv
      <4>4. merged' \in BOOLEAN
        BY <1>00, <4>1
      <4> QED
        BY <1>00, <2>3, <3>1, <4>1, <4>2, <4>3, <4>4 DEF GroupTypes
    <3> QED
      BY <3>2, <3>3
  <2> QED
    BY <2>4, <2>5
<1>16. ASSUME NEW l \in loads, SettingsFail(l) PROVE GroupTypes(sent)' /\ RowInv'
  <2>1. /\ loads' = loads \ {l} /\ mixed' = (mixed \/ ready)
        /\ UNCHANGED <<page, ring, option, group, owner, visit, ready, sub, build, rows, canSort>>
        /\ UNCHANGED <<canSave, tab, merged, dialogs, calls>>
    BY <1>16 DEF SettingsFail, pageVars, backendVars, modelVars, viewVars
  <2> QED
    BY <1>00, <2>1 DEF GroupTypes, RowInv
<1> QED
  BY <1>1, <1>2, <1>3, <1>5, <1>6, <1>7, <1>8, <1>9, <1>10, <1>11, <1>12, <1>13, <1>14, <1>15, <1>16,
     <1>17 DEF GroupNext, GroupClicks, GroupRest


-----------------------------------------------------------------------------
(* The group at the page and at the backend.                               *)

\* Where the page is shown, and where its dialogs have been; no member is twice in the
\* ring.
PlaceInv ==
  /\ IsInjective(ring)
  /\ visit = 0 => loads = {} /\ ~ready
  /\ ready => owner \in {0, visit}
  /\ page = "group" /\ ready => owner = visit
  /\ page = "group" /\ sub # "none" => ready
  /\ \A d \in dialogs : d.visit # 0

\* One request at a time, but for the question that goes with an order and is not read
\* before the order is changed.  Before a page is ready, only a dialog of an earlier one
\* has posted anything.
OneByOneInv ==
  /\ \A c, d \in calls : c = d
  /\ \A l, k \in loads : l = k
  /\ ~ready => (\A l \in loads : l.visit = visit) /\ \A c \in calls : c.kind = "add"
  /\ \A c \in calls : IF c.kind = "order" THEN c.done \/ loads # {} ELSE loads = {}
  /\ \A c \in calls : c.kind \in {"add", "delete"} => c.visit # 0 /\ owner \in {0, c.visit}
  /\ \A l \in loads : l.read => /\ l.data = [members |-> ring, option |-> option]
                                /\ \A c \in calls : c.done

\* The model's members: those at the backend, but for a list that is to be merged with
\* theirs or replaced by it, and that of another page's model.
MembersInv ==
  /\ loads # {} \/ ~ready => Len(group.members) <= Len(ring)
  /\ loads = {} /\ ready /\ (\A c \in calls : c.kind \in {"add", "delete"} => ~c.done) =>
       group.members = ring \/ (group.members = <<>> /\ owner = 0)
  /\ \A c \in calls : c.kind \in {"add", "delete"} =>
       /\ owner = 0 => group.members = <<>>
       /\ c.done => c.data = ring

\* The model's option: the one that is posted, or the backend's.
OptionInv ==
  page = "group" /\ ready /\ loads = {} =>
    /\ (\A c \in calls : c.kind = "option" => c.done) => group.option = option
    /\ \A c \in calls : c.kind = "option" /\ ~c.done => c.value = group.option

TogetherInv == OneByOneInv /\ MembersInv /\ OptionInv

SameInv == PlaceInv /\ (~mixed => TogetherInv)

\* The steps of other pages.
LEMMA SameElse ==
  ASSUME SameInv, UNCHANGED groupVars, NEW p, p # "group", Moved(p)
  PROVE  SameInv'
<1>1. /\ UNCHANGED <<ring, option, group, owner, visit, ready, sub, dialogs, calls, loads, mixed>>
      /\ page' = "group" => page = "group"
  BY DEF groupVars, backendVars, modelVars, viewVars, Moved
<1>2. PlaceInv'
  BY <1>1 DEF SameInv, PlaceInv
<1>3. OneByOneInv => OneByOneInv'
  BY <1>1 DEF OneByOneInv
<1>4. MembersInv => MembersInv'
  BY <1>1 DEF MembersInv
<1>5. OptionInv => OptionInv'
  BY <1>1 DEF OptionInv
<1> QED
  BY <1>1, <1>2, <1>3, <1>4, <1>5 DEF SameInv, TogetherInv

\* What is known of a call or a question when it is carried out or read.
LEMMA CallKept ==
  ASSUME NEW n, NEW r \in CallsTo(n), NEW x \in Seq(Users)
  PROVE  /\ [r EXCEPT !.done = TRUE].kind = r.kind /\ [r EXCEPT !.done = TRUE].done
         /\ r.kind \in {"add", "delete"} =>
              /\ [r EXCEPT !.done = TRUE, !.data = x].kind = r.kind
              /\ [r EXCEPT !.done = TRUE, !.data = x].done
              /\ [r EXCEPT !.done = TRUE, !.data = x].visit = r.visit
              /\ [r EXCEPT !.done = TRUE, !.data = x].data = x
<1>1. CASE r \in [kind : {"order"}, no : 1..n, build : 0..n, ids : Seq(Users), done : BOOLEAN]
  BY <1>1
<1>2. CASE r \in [kind : {"add", "delete"}, no : 1..n, visit : 0..n, user : Users, done : BOOLEAN,
                  data : Seq(Users)]
  BY <1>2
<1>3. CASE r \in [kind : {"option"}, no : 1..n, value : Playable, done : BOOLEAN]
  BY <1>3
<1> QED
  BY <1>1, <1>2, <1>3 DEF CallsTo

LEMMA QuestionKept ==
  ASSUME NEW n, NEW l \in QuestionsTo(n), NEW x
  PROVE  /\ [l EXCEPT !.read = TRUE, !.data = x].read
         /\ [l EXCEPT !.read = TRUE, !.data = x].visit = l.visit
         /\ [l EXCEPT !.read = TRUE, !.data = x].data = x
  BY DEF QuestionsTo

\* The ring that the backend makes of its own for a call.
LEMMA RingStays ==
  ASSUME GroupTypeOK, IsInjective(ring), NEW c \in calls, CallCarriedOut(c)
  PROVE  /\ ring' \in Seq(Users) /\ IsInjective(ring')
         /\ c.kind # "delete" => Len(ring) <= Len(ring')
<1>1. ring \in Seq(Users) /\ Len(ring) \in Nat /\ c \in CallsTo(sent)
  BY DEF GroupTypeOK
<1>2. CASE c.kind = "order"
  <2>1. c.ids \in Seq(Users) /\ ring' = c.ids /\ IsInjective(c.ids) /\ ToSet(c.ids) = ToSet(ring)
    BY <1>1, <1>2, CallKinds DEF CallCarriedOut
  <2>2. Len(ring') = Len(ring)
    BY <1>1, <2>1, InjectiveLen
  <2> QED
    BY <1>1, <2>1, <2>2
<1>3. CASE c.kind \in {"add", "delete"}
  <2>1. c.user \in Users
    BY <1>1, <1>3, CallKinds
  <2>2. \/ c.kind = "add" /\ c.user \notin ToSet(ring) /\ ring' = Append(ring, c.user)
        \/ c.kind = "delete" /\ \E i \in DOMAIN ring : ring' = RemoveAt(ring, i)
        \/ ring' = ring
    BY <1>3 DEF CallCarriedOut
  <2>3. CASE c.kind = "add" /\ c.user \notin ToSet(ring) /\ ring' = Append(ring, c.user)
    <3>1. ring' \in Seq(Users) /\ Len(ring') = Len(ring) + 1
      BY <1>1, <2>1, <2>3, AppendProperties
    <3>2. IsInjective(ring')
      BY <1>1, <2>1, <2>3, AppendedInjective
    <3> QED
      BY <1>1, <3>1, <3>2
  <2>4. CASE c.kind = "delete" /\ \E i \in DOMAIN ring : ring' = RemoveAt(ring, i)
    BY <1>1, <2>4, RemovedInjective, RemovedSeq
  <2>5. CASE ring' = ring
    BY <1>1, <1>3, <2>5
  <2> QED
    BY <2>2, <2>3, <2>4, <2>5
<1>4. CASE c.kind = "option"
  BY <1>1, <1>4 DEF CallCarriedOut
<1> QED
  BY <1>1, <1>2, <1>3, <1>4, CallKinds

\* The page's own steps: where it is shown.
LEMMA PlaceStep == PageTypeOK /\ GroupTypeOK /\ PlaceInv /\ GroupNext => PlaceInv'
<1> SUFFICES ASSUME PageTypeOK, GroupTypeOK, PlaceInv, GroupNext PROVE PlaceInv'
  OBVIOUS
<1>0. ready \in BOOLEAN /\ dialogs \subseteq DialogsTo(sent) /\ DialogsLike(sent, dialogs)
  BY DEF GroupTypeOK, DialogsLike
<1>00. ASSUME NEW n, DialogsLike(n, dialogs') PROVE \A d \in dialogs' : d.visit # 0
  BY <1>00 DEF DialogsLike, PlaceInv
<1>1. CASE OpenGroup
  <2>1. sent' # 0
    BY <1>1, SentAssumption DEF OpenGroup, OpenPage, Send, PageTypeOK
  <2>2. /\ visit' # 0 /\ ready' = FALSE /\ sub' = "none" /\ UNCHANGED <<ring, dialogs>>
    BY <1>1, <2>1 DEF OpenGroup, OpenPage, Build, backendVars
  <2> QED
    BY <2>2 DEF PlaceInv
<1>2. CASE DirectoryComes
  <2>1. /\ page # "group" /\ owner' = 0 /\ dialogs' = Frozen(dialogs)
        /\ UNCHANGED <<page, ring, visit, ready, sub, loads>>
    BY <1>2 DEF DirectoryComes, pageVars, backendVars, viewVars
  <2>2. \A d \in dialogs' : d.visit # 0
    BY <1>0, <1>00, <2>1, DialogsFrozen
  <2> QED
    BY <2>1, <2>2 DEF PlaceInv
<1>3. ASSUME NEW s \in {"settings", "members"}, Show(s) PROVE PlaceInv'
  BY <1>3 DEF Show, PlaceInv, backendVars, modelVars
<1>4. ASSUME NEW i \in DOMAIN rows, Drag(i) PROVE PlaceInv'
  BY <1>4 DEF Drag, PlaceInv, pageVars, backendVars, modelVars
<1>5. CASE Save
  BY <1>5 DEF Save, PostHere, Post, PlaceInv, backendVars, viewVars
<1>6. ASSUME NEW i \in DOMAIN rows, Delete(i) PROVE PlaceInv'
  BY <1>6 DEF Delete, PostHere, Post, PlaceInv, backendVars, viewVars
<1>7. ASSUME NEW o \in Options, Press(o) PROVE PlaceInv'
  <2>1. UNCHANGED <<page, ring, owner, visit, ready, sub, dialogs, loads>>
    BY <1>7 DEF Press, PostHere, Post, pageVars, backendVars, modelVars
  <2> QED
    BY <2>1 DEF PlaceInv
<1>8. CASE OpenDialog
  <2> DEFINE d == [no |-> sent + 1, visit |-> visit, stage |-> "asked", list |-> group.members,
                   live |-> TRUE, offered |-> {}]
  <2>1. /\ page = "group" /\ sub = "members" /\ dialogs' = dialogs \cup {d} /\ d.visit = visit
        /\ UNCHANGED <<page, ring, owner, visit, ready, sub, loads>>
    BY <1>8 DEF OpenDialog, backendVars, modelVars, viewVars
  <2> HIDE DEF d
  <2>2. visit # 0
    BY <2>1 DEF PlaceInv
  <2> QED
    BY <2>1, <2>2 DEF PlaceInv
<1>9. ASSUME NEW d \in dialogs, UsersCome(d) \/ CloseDialog(d) PROVE PlaceInv'
  <2>1. UNCHANGED <<page, ring, owner, visit, ready, sub, loads>>
    BY <1>9 DEF UsersCome, CloseDialog, pageVars, backendVars, modelVars, viewVars
  <2>2. \A e \in dialogs' : e.visit # 0
    BY <1>0, <1>00, <1>9, DialogsCome
  <2> QED
    BY <2>1, <2>2 DEF PlaceInv
<1>10. ASSUME NEW d \in dialogs, NEW u \in Users, Add(d, u) PROVE PlaceInv'
  BY <1>10 DEF Add, Post, PlaceInv, backendVars, viewVars
<1>11. ASSUME NEW c \in calls, CallCarriedOut(c) PROVE PlaceInv'
  <2>1. IsInjective(ring')
    BY <1>11, RingStays DEF PlaceInv
  <2>2. UNCHANGED <<page, owner, visit, ready, sub, dialogs, loads>>
    BY <1>11 DEF CallCarriedOut, pageVars, modelVars, viewVars
  <2> QED
    BY <2>1, <2>2 DEF PlaceInv
<1>12. ASSUME NEW c \in calls, CallAnswered(c) \/ CallFails(c) PROVE PlaceInv'
  <2>1. /\ UNCHANGED <<page, ring, owner, visit, ready, sub, loads>>
        /\ dialogs' \in {dialogs, Frozen(dialogs)}
    BY <1>12 DEF CallAnswered, OrderAnswered, MembersAnswered, CallFails,
                 pageVars, backendVars, modelVars, viewVars
  <2>2. \A d \in dialogs' : d.visit # 0
    BY <1>0, <1>00, <2>1, DialogsFrozen
  <2> QED
    BY <2>1, <2>2 DEF PlaceInv
<1>13. ASSUME NEW l \in loads, SettingsRead(l) \/ SettingsFail(l) PROVE PlaceInv'
  <2>1. UNCHANGED <<page, ring, owner, visit, ready, sub, dialogs>> /\ loads # {}
    BY <1>13 DEF SettingsRead, SettingsFail, pageVars, backendVars, modelVars, viewVars
  <2> QED
    BY <2>1 DEF PlaceInv
<1>14. ASSUME NEW l \in loads, SettingsCome(l) PROVE PlaceInv'
  <2> DEFINE ms == Merged(group.members, l.data.members)
             shared == {IF d.live THEN [d EXCEPT !.list = ms] ELSE d : d \in dialogs}
  <2>1. UNCHANGED <<page, ring, visit>> /\ loads # {} /\ dialogs' \in {shared, Frozen(shared)}
    BY <1>14 DEF SettingsCome, pageVars, backendVars
  <2>2. \/ owner' = visit /\ ready' = TRUE
        \/ UNCHANGED <<owner, ready, sub>>
    BY <1>14 DEF SettingsCome
  <2>3. ms \in Seq(Users)
    BY MergedSeq DEF GroupTypeOK, Models, QuestionsTo
  <2>4. DialogsLike(sent, shared)
    BY <1>0, <2>3, DialogsShared
  <2> HIDE DEF ms, shared
  <2>5. \A d \in dialogs' : d.visit # 0
    BY <1>00, <2>1, <2>4, DialogsFrozen
  <2> QED
    BY <2>1, <2>2, <2>5 DEF PlaceInv
<1> QED
  BY <1>1, <1>2, <1>3, <1>4, <1>5, <1>6, <1>7, <1>8, <1>9, <1>10, <1>11, <1>12, <1>13, <1>14
     DEF GroupNext, GroupClicks, GroupRest

\* What the page posts when nothing is under way is posted of the backend's group.
LEMMA PostSame ==
  ASSUME GroupTypeOK, SameInv, NEW c, PostHere(c), ~mixed'
  PROVE  /\ ~mixed /\ calls = {} /\ loads = {} /\ page = "group" /\ ready
         /\ owner = visit /\ owner # 0 /\ group.members = ring /\ group.option = option
         /\ calls' = {c} /\ UNCHANGED <<page, ring, option, owner, visit, ready>>
<1>1. /\ page = "group" /\ ready /\ calls' = calls \cup {c} /\ ~mixed /\ calls = {} /\ loads = {}
      /\ UNCHANGED <<page, ring, option, owner, visit, ready>>
  BY DEF PostHere, Post, Waiting, backendVars
<1>2. owner = visit /\ owner # 0
  BY <1>1 DEF SameInv, PlaceInv
<1>3. group.members = ring
  BY <1>1, <1>2 DEF SameInv, TogetherInv, MembersInv
<1>4. group.option = option
  BY <1>1 DEF SameInv, TogetherInv, OptionInv
<1> QED
  BY <1>1, <1>2, <1>3, <1>4

\* The page's own steps: the group.
LEMMA TogetherStep ==
  PageTypeOK /\ GroupTypeOK /\ SameInv /\ GroupNext /\ ~mixed' => TogetherInv'
<1> SUFFICES ASSUME PageTypeOK, GroupTypeOK, SameInv, GroupNext, ~mixed' PROVE TogetherInv'
  OBVIOUS
<1>0. /\ ring \in Seq(Users) /\ group.members \in Seq(Users) /\ ready \in BOOLEAN
      /\ calls \subseteq CallsTo(sent) /\ loads \subseteq QuestionsTo(sent)
      /\ Len(ring) \in Nat /\ Len(group.members) \in Nat
  BY DEF GroupTypeOK, Models
<1>00. Len(<<>>) = 0
  OBVIOUS
<1>1. CASE OpenGroup
  <2> DEFINE q == [no |-> sent + 1, visit |-> visit', read |-> FALSE,
                   data |-> [members |-> <<>>, option |-> option]]
  <2>1. /\ ~mixed /\ calls = {} /\ loads = {} /\ loads' = {q} /\ ready' = FALSE
        /\ page # "group" /\ UNCHANGED <<ring, option, group, owner, calls>>
    BY <1>1 DEF OpenGroup, OpenPage, Waiting, Question, backendVars
  <2>2. q.visit = visit' /\ ~q.read
    OBVIOUS
  <2> HIDE DEF q
  <2>3. TogetherInv
    BY <2>1 DEF SameInv
  <2>4. Len(group.members) <= Len(ring)
    BY <1>0, <1>00, <2>1, <2>3 DEF TogetherInv, MembersInv
  <2>5. OneByOneInv'
    BY <2>1, <2>2 DEF OneByOneInv
  <2>6. MembersInv' /\ OptionInv'
    BY <2>1, <2>3, <2>4 DEF MembersInv, OptionInv
  <2> QED
    BY <2>5, <2>6 DEF TogetherInv
<1>2. CASE DirectoryComes
  <2>1. /\ page # "group" /\ owner' = 0 /\ group'.members = <<>>
        /\ UNCHANGED <<page, ring, option, visit, ready, calls, loads, mixed>>
    BY <1>2 DEF DirectoryComes, pageVars, backendVars
  <2>2. TogetherInv
    BY <2>1 DEF SameInv
  <2>3. MembersInv'
    BY <1>0, <1>00, <2>1, <2>2 DEF TogetherInv, MembersInv
  <2>4. OneByOneInv' /\ OptionInv'
    BY <2>1, <2>2 DEF TogetherInv, OneByOneInv, OptionInv
  <2> QED
    BY <2>3, <2>4 DEF TogetherInv
<1>3. CASE UNCHANGED <<page, ring, option, group, owner, visit, ready, calls, loads, mixed>>
  BY <1>3 DEF SameInv, TogetherInv, OneByOneInv, MembersInv, OptionInv
<1>4. ASSUME NEW s \in {"settings", "members"}, Show(s) PROVE TogetherInv'
  BY <1>3, <1>4 DEF Show, backendVars, modelVars
<1>5. ASSUME NEW i \in DOMAIN rows, Drag(i) PROVE TogetherInv'
  BY <1>3, <1>5 DEF Drag, pageVars, backendVars, modelVars
<1>6. CASE Save
  <2> DEFINE q == [no |-> sent + 1, visit |-> visit, read |-> FALSE,
                   data |-> [members |-> <<>>, option |-> option]]
             c == [kind |-> "order", no |-> sent + 1, build |-> build,
                   ids |-> [i \in DOMAIN rows |-> rows[i].id], done |-> FALSE]
  <2>1. PostHere(c) /\ c.kind = "order" /\ UNCHANGED group
    BY <1>6 DEF Save
  <2>2. ~q.read
    OBVIOUS
  <2>3. loads' = loads \cup {[no |-> sent + 1, visit |-> visit', read |-> FALSE,
                              data |-> [members |-> <<>>, option |-> option]]}
    BY <1>6 DEF Save, Question
  <2> HIDE DEF c
  <2>4. /\ ~mixed /\ calls = {} /\ loads = {} /\ page = "group" /\ ready
        /\ group.members = ring /\ calls' = {c}
        /\ UNCHANGED <<page, ring, option, owner, visit, ready>>
    BY <2>1, PostSame
  <2>5. loads' = {q}
    BY <2>3, <2>4
  <2> HIDE DEF q
  <2>6. OneByOneInv'
    BY <2>1, <2>2, <2>4, <2>5 DEF OneByOneInv
  <2>7. MembersInv' /\ OptionInv'
    BY <1>0, <2>1, <2>4, <2>5 DEF MembersInv, OptionInv
  <2> QED
    BY <2>6, <2>7 DEF TogetherInv
<1>7. ASSUME NEW i \in DOMAIN rows, Delete(i) PROVE TogetherInv'
  <2> DEFINE c == [kind |-> "delete", no |-> sent + 1, visit |-> visit,
                   user |-> group.members[rows[i].at], done |-> FALSE, data |-> <<>>]
  <2>1. PostHere(c) /\ c.kind = "delete" /\ c.visit = visit /\ ~c.done /\ UNCHANGED <<group, loads>>
    BY <1>7 DEF Delete
  <2> HIDE DEF c
  <2>2. /\ ~mixed /\ calls = {} /\ loads = {} /\ page = "group" /\ ready /\ owner = visit /\ owner # 0
        /\ group.members = ring /\ group.option = option /\ calls' = {c}
        /\ UNCHANGED <<page, ring, option, owner, visit, ready>>
    BY <2>1, PostSame
  <2>3. OneByOneInv' /\ MembersInv' /\ OptionInv'
    BY <2>1, <2>2 DEF OneByOneInv, MembersInv, OptionInv
  <2> QED
    BY <2>3 DEF TogetherInv
<1>8. ASSUME NEW o \in Options, Press(o) PROVE TogetherInv'
  <2> DEFINE c == [kind |-> "option", no |-> sent + 1, value |-> o, done |-> FALSE]
  <2>1. CASE o \notin Playable
    BY <1>3, <1>8, <2>1 DEF Press, pageVars, backendVars, modelVars
  <2>2. CASE o \in Playable
    <3>1. /\ PostHere(c) /\ c.kind = "option" /\ c.value = o /\ ~c.done
          /\ group' = [group EXCEPT !.option = o] /\ UNCHANGED loads
      BY <1>8, <2>2 DEF Press
    <3> HIDE DEF c
    <3>2. /\ ~mixed /\ calls = {} /\ loads = {} /\ page = "group" /\ ready /\ owner # 0
          /\ group.members = ring /\ calls' = {c}
          /\ UNCHANGED <<page, ring, option, owner, visit, ready>>
      BY <3>1, PostSame
    <3>3. group'.members = group.members /\ group'.option = o
      BY <3>1 DEF GroupTypeOK, Models
    <3>4. OneByOneInv' /\ MembersInv' /\ OptionInv'
      BY <3>1, <3>2, <3>3 DEF OneByOneInv, MembersInv, OptionInv
    <3> QED
      BY <3>4 DEF TogetherInv
  <2> QED
    BY <2>1, <2>2
<1>9. CASE OpenDialog
  BY <1>3, <1>9 DEF OpenDialog, backendVars, modelVars
<1>10. ASSUME NEW d \in dialogs, UsersCome(d) \/ CloseDialog(d) PROVE TogetherInv'
  <2>1. UNCHANGED <<page, ring, option, group, owner, visit, ready, calls, loads, mixed>>
    BY <1>10 DEF UsersCome, CloseDialog, pageVars, backendVars, modelVars
  <2> QED
    BY <1>3, <2>1
<1>11. ASSUME NEW d \in dialogs, NEW u \in Users, Add(d, u) PROVE TogetherInv'
  <2> DEFINE c == [kind |-> "add", no |-> sent + 1, visit |-> d.visit, user |-> u, done |-> FALSE,
                   data |-> <<>>]
  <2>1. /\ Post(c) /\ c.kind = "add" /\ c.visit = d.visit /\ ~c.done
        /\ mixed' = (mixed \/ Waiting \/ d.visit # owner) /\ UNCHANGED <<group, loads>>
    BY <1>11 DEF Add
  <2> HIDE DEF c
  <2>2. /\ ~mixed /\ calls = {} /\ loads = {} /\ d.visit = owner /\ owner # 0 /\ calls' = {c}
        /\ UNCHANGED <<page, ring, option, owner, visit, ready>>
    BY <2>1 DEF Post, Waiting, backendVars, SameInv, PlaceInv
  <2>3. TogetherInv
    BY <2>2 DEF SameInv
  <2>4. OneByOneInv'
    BY <2>1, <2>2, <2>3 DEF TogetherInv, OneByOneInv
  <2>5. MembersInv' /\ OptionInv'
    BY <2>1, <2>2, <2>3 DEF TogetherInv, MembersInv, OptionInv
  <2> QED
    BY <2>4, <2>5 DEF TogetherInv
<1>12. ASSUME NEW c \in calls, CallCarriedOut(c) PROVE TogetherInv'
  <2>1. /\ ~c.done /\ UNCHANGED <<page, group, owner, visit, ready, loads, mixed>>
        /\ TogetherInv /\ c \in CallsTo(sent) /\ c.kind \in {"order", "add", "delete", "option"}
    BY <1>0, <1>12, CallKinds DEF CallCarriedOut, SameInv, pageVars, modelVars, viewVars
  <2>2. /\ calls = {c} /\ (\A l \in loads : ~l.read)
        /\ c.kind # "add" => ready
    BY <2>1 DEF TogetherInv, OneByOneInv
  <2>3. /\ ring' \in Seq(Users) /\ Len(ring') \in Nat
        /\ c.kind # "delete" => Len(ring) <= Len(ring')
    <3>1. /\ ring' \in Seq(Users)
          /\ c.kind # "delete" => Len(ring) <= Len(ring')
      BY <1>12, RingStays DEF SameInv, PlaceInv
    <3> QED
      BY <3>1
  <2>4. CASE c.kind = "order"
    <3> DEFINE d == [c EXCEPT !.done = TRUE]
    <3>1. d.kind = "order" /\ d.done
      BY <1>0, <2>1, <2>4, CallKept
    <3>2. calls' = {d} /\ UNCHANGED option /\ loads # {}
      BY <1>12, <2>1, <2>2, <2>4 DEF CallCarriedOut, TogetherInv, OneByOneInv
    <3> HIDE DEF d
    <3>3. OneByOneInv'
      BY <2>1, <2>2, <2>4, <3>1, <3>2 DEF TogetherInv, OneByOneInv
    <3>4. MembersInv'
      BY <1>0, <2>1, <2>2, <2>3, <2>4, <3>1, <3>2 DEF TogetherInv, MembersInv
    <3>5. OptionInv'
      BY <2>1, <2>2, <2>4, <3>1, <3>2 DEF TogetherInv, OptionInv
    <3> QED
      BY <3>3, <3>4, <3>5 DEF TogetherInv
  <2>5. CASE c.kind \in {"add", "delete"}
    <3> DEFINE d == [c EXCEPT !.done = TRUE, !.data = ring']
    <3>2. d.kind = c.kind /\ d.done /\ d.visit = c.visit /\ d.data = ring'
      BY <2>1, <2>3, <2>5, CallKept
    <3>3. calls' = {d} /\ UNCHANGED option
      BY <1>12, <2>2, <2>5 DEF CallCarriedOut
    <3> HIDE DEF d
    <3>4. /\ loads = {} /\ c.visit # 0 /\ owner \in {0, c.visit}
          /\ (owner = 0 => group.members = <<>>)
      BY <2>1, <2>2, <2>5 DEF TogetherInv, OneByOneInv, MembersInv
    <3>5. OneByOneInv'
      BY <2>1, <2>2, <2>5, <3>2, <3>3, <3>4 DEF TogetherInv, OneByOneInv
    <3>6. ~ready => Len(group.members) <= Len(ring')
      BY <1>0, <2>1, <2>2, <2>3, <2>5 DEF TogetherInv, MembersInv
    <3>7. MembersInv'
      BY <2>1, <2>5, <3>2, <3>3, <3>4, <3>6 DEF MembersInv
    <3>8. OptionInv'
      BY <2>1, <2>2, <2>5, <3>2, <3>3 DEF TogetherInv, OptionInv
    <3> QED
      BY <3>5, <3>7, <3>8 DEF TogetherInv
  <2>6. CASE c.kind = "option"
    <3> DEFINE d == [c EXCEPT !.done = TRUE]
    <3>1. d.kind = "option" /\ d.done
      BY <1>0, <2>1, <2>6, CallKept
    <3>2. calls' = {d} /\ option' = c.value /\ UNCHANGED ring
      BY <1>12, <2>2, <2>6 DEF CallCarriedOut
    <3> HIDE DEF d
    <3>3. OneByOneInv'
      BY <2>1, <2>2, <2>6, <3>1, <3>2 DEF TogetherInv, OneByOneInv
    <3>4. MembersInv'
      BY <2>1, <2>2, <2>6, <3>1, <3>2 DEF TogetherInv, MembersInv
    <3>5. OptionInv'
      BY <2>1, <2>2, <2>6, <3>1, <3>2 DEF TogetherInv, OptionInv
    <3> QED
      BY <3>3, <3>4, <3>5 DEF TogetherInv
  <2> QED
    BY <2>1, <2>4, <2>5, <2>6
<1>13. ASSUME NEW c \in calls, CallAnswered(c) PROVE TogetherInv'
  <2>1. /\ c.done /\ calls' = calls \ {c} /\ UNCHANGED <<page, ring, option, owner, visit, ready, loads, mixed>>
        /\ TogetherInv /\ c \in CallsTo(sent) /\ c.kind \in {"order", "add", "delete", "option"}
    BY <1>0, <1>13, CallKinds DEF CallAnswered, OrderAnswered, MembersAnswered, SameInv,
                                  pageVars, backendVars, modelVars
  <2>2. calls = {c} /\ calls' = {} /\ (c.kind # "add" => ready)
    BY <2>1 DEF TogetherInv, OneByOneInv
  <2>3. OneByOneInv'
    BY <2>1, <2>2 DEF TogetherInv, OneByOneInv
  <2>4. CASE c.kind \in {"order", "option"}
    <3>1. UNCHANGED group
      BY <1>13, <2>4 DEF CallAnswered, OrderAnswered, MembersAnswered, modelVars
    <3>2. MembersInv' /\ OptionInv'
      BY <2>1, <2>2, <2>4, <3>1 DEF TogetherInv, MembersInv, OptionInv
    <3> QED
      BY <2>3, <3>2 DEF TogetherInv
  <2>5. CASE c.kind \in {"add", "delete"}
    <3>1. /\ loads = {} /\ c.visit # 0 /\ owner \in {0, c.visit} /\ c.data = ring
          /\ (owner = 0 => group.members = <<>>)
      BY <2>1, <2>2, <2>5 DEF TogetherInv, OneByOneInv, MembersInv
    <3>2. IF c.visit = owner THEN group' = [group EXCEPT !.members = ring] ELSE group' = group
      BY <1>13, <2>5, <3>1 DEF CallAnswered, OrderAnswered, MembersAnswered
    <3>3. /\ group'.option = group.option
          /\ group'.members = ring \/ (group'.members = <<>> /\ owner = 0)
      BY <3>1, <3>2 DEF GroupTypeOK, Models
    <3>4. MembersInv'
      BY <1>0, <1>00, <2>1, <2>2, <3>1, <3>3 DEF MembersInv
    <3>5. OptionInv'
      BY <2>1, <2>2, <2>5, <3>1, <3>3 DEF TogetherInv, OptionInv
    <3> QED
      BY <2>3, <3>4, <3>5 DEF TogetherInv
  <2> QED
    BY <2>1, <2>4, <2>5
<1>14. ASSUME NEW c \in calls, CallFails(c) PROVE TogetherInv'
  <2>1. /\ calls' = calls \ {c} /\ ~mixed
        /\ UNCHANGED <<page, ring, option, group, owner, visit, ready, loads>>
        /\ c.kind \in {"order", "add", "delete", "option"} /\ c.done \in BOOLEAN
    <3>1. calls' = calls \ {c} /\ ~mixed
      <4>1. CASE UNCHANGED mixed
        BY <1>14, <4>1 DEF CallFails
      <4>2. CASE mixed' = (mixed \/ (c.kind = "option") = ~c.done)
        BY <1>14, <4>2 DEF CallFails
      <4> QED
        BY <1>14, <4>1, <4>2 DEF CallFails
    <3>2. UNCHANGED <<page, ring, option, group, owner, visit, ready, loads>>
      BY <1>14 DEF CallFails, OrderAnswered, pageVars, backendVars, modelVars
    <3> QED
      BY <1>0, <3>1, <3>2, CallKinds
  <2>2. calls = {c} /\ calls' = {} /\ TogetherInv
    BY <2>1 DEF TogetherInv, OneByOneInv, SameInv
  <2>3. /\ c.kind \in {"add", "delete"} => ~c.done
        /\ c.kind = "option" => c.done
    <3>1. c.kind # "order" => ~((c.kind = "option") = ~c.done)
      BY <1>14 DEF CallFails, OrderAnswered
    <3> QED
      BY <2>1, <3>1
  <2>4. OneByOneInv'
    BY <2>1, <2>2 DEF TogetherInv, OneByOneInv
  <2>5. MembersInv' /\ OptionInv'
    BY <2>1, <2>2, <2>3 DEF TogetherInv, MembersInv, OptionInv
  <2> QED
    BY <2>4, <2>5 DEF TogetherInv
<1>15. ASSUME NEW l \in loads, SettingsRead(l) PROVE TogetherInv'
  <2> DEFINE d == [l EXCEPT !.read = TRUE, !.data = [members |-> ring, option |-> option]]
  <2>1. /\ ~mixed /\ loads' = (loads \ {l}) \cup {d} /\ \A c \in calls : c.done
        /\ UNCHANGED <<page, ring, option, group, owner, visit, ready, calls>>
    BY <1>15 DEF SettingsRead, pageVars, backendVars, modelVars
  <2>2. d.visit = l.visit /\ d.data = [members |-> ring, option |-> option]
    BY <1>0, QuestionKept
  <2> HIDE DEF d
  <2>3. TogetherInv /\ loads = {l} /\ loads' = {d}
    BY <2>1 DEF SameInv, TogetherInv, OneByOneInv
  <2>4. OneByOneInv'
    BY <2>1, <2>2, <2>3 DEF TogetherInv, OneByOneInv
  <2>5. MembersInv' /\ OptionInv'
    BY <2>1, <2>3 DEF TogetherInv, MembersInv, OptionInv
  <2> QED
    BY <2>4, <2>5 DEF TogetherInv
<1>16. ASSUME NEW l \in loads, SettingsCome(l) PROVE TogetherInv'
  <2>1. /\ l.read /\ loads' = loads \ {l} /\ ~mixed
        /\ UNCHANGED <<page, ring, option, visit, calls>>
        /\ group' = [members |-> Merged(group.members, l.data.members), option |-> l.data.option]
    BY <1>16 DEF SettingsCome, pageVars, backendVars
  <2>2. /\ TogetherInv /\ loads' = {} /\ l.data = [members |-> ring, option |-> option]
        /\ \A c \in calls : c.done /\ c.kind = "order"
    BY <2>1 DEF SameInv, TogetherInv, OneByOneInv
  <2>3. Len(group.members) <= Len(ring)
    BY <2>2 DEF TogetherInv, MembersInv
  <2>4. group'.members = ring /\ group'.option = option
    BY <1>0, <2>1, <2>2, <2>3, MergedSame
  <2>5. ready' /\ (ready => UNCHANGED <<owner, ready>>)
    <3>1. ~ready => l.visit = visit
      BY <2>2 DEF TogetherInv, OneByOneInv
    <3> QED
      BY <1>16, <3>1 DEF SettingsCome
  <2>6. OneByOneInv'
    BY <2>1, <2>2, <2>5 DEF TogetherInv, OneByOneInv
  <2>7. MembersInv' /\ OptionInv'
    BY <2>1, <2>2, <2>4, <2>5 DEF MembersInv, OptionInv
  <2> QED
    BY <2>6, <2>7 DEF TogetherInv
<1>17. ASSUME NEW l \in loads, SettingsFail(l) PROVE TogetherInv'
  <2>1. /\ ~mixed /\ ~ready /\ loads' = loads \ {l}
        /\ UNCHANGED <<page, ring, option, group, owner, visit, ready, calls>>
    BY <1>17 DEF SettingsFail, pageVars, backendVars, modelVars
  <2>2. TogetherInv
    BY <2>1 DEF SameInv
  <2>3. calls = {}
    BY <2>1, <2>2 DEF TogetherInv, OneByOneInv
  <2>4. OneByOneInv'
    BY <2>1, <2>2, <2>3 DEF TogetherInv, OneByOneInv
  <2>5. MembersInv' /\ OptionInv'
    BY <2>1, <2>2, <2>3 DEF TogetherInv, MembersInv, OptionInv
  <2> QED
    BY <2>4, <2>5 DEF TogetherInv
<1> QED
  BY <1>1, <1>2, <1>4, <1>5, <1>6, <1>7, <1>8, <1>9, <1>10, <1>11, <1>12, <1>13, <1>14, <1>15,
     <1>16, <1>17 DEF GroupNext, GroupClicks, GroupRest

-----------------------------------------------------------------------------
(* All pages.                                                              *)

Inv ==
  /\ PageTypeOK
  /\ GroupTypeOK /\ RowInv /\ SameInv
  /\ PlanInv
  /\ WizardTypeOK /\ ReviewInv /\ HeldInv
  /\ AccountTypeOK /\ VerdictInv /\ UpdateInv

\* It holds at first.
LEMMA InitInv == Init => Inv
<1> SUFFICES ASSUME Init PROVE Inv
  OBVIOUS
<1>0. PageTypeOK /\ page = "other" /\ sent = 0 /\ 0 \in 0..sent
  BY SentAssumption DEF Init, PageInit, PageTypeOK, PageNames
<1>1. GroupTypeOK /\ RowInv /\ SameInv
  <2>1. /\ Members \in Seq(Users) /\ FirstOption \in Playable /\ FirstOption \in Options
        /\ <<>> \in Seq(Users) /\ <<>> \in Seq([id : Users, at : Nat \ {0}])
    BY GroupAssumption, EmptySeq
  <2>2. [members |-> <<>>, option |-> FirstOption] \in Models
    BY <2>1 DEF Models
  <2>3. GroupTypeOK /\ RowInv
    BY <1>0, <2>1, <2>2 DEF Init, GroupInit, GroupTypeOK, RowInv
  <2>4. /\ ring = Members /\ group.members = <<>> /\ visit = 0 /\ ready = FALSE
        /\ dialogs = {} /\ calls = {} /\ loads = {}
    BY DEF Init, GroupInit
  <2>5. IsInjective(ring) /\ Len(group.members) <= Len(ring)
    BY <2>1, <2>4, GroupAssumption
  <2>6. PlaceInv
    BY <1>0, <2>4, <2>5 DEF PlaceInv
  <2>7. TogetherInv
    BY <2>4, <2>5 DEF TogetherInv, OneByOneInv, MembersInv, OptionInv
  <2> QED
    BY <2>3, <2>6, <2>7 DEF SameInv
<1>3. PlanInv
  <2>1. FirstPlan \in Plans /\ [FirstPlan EXCEPT !.product = NoProduct] \in Plans
    BY PlanAssumption DEF Plans
  <2>2. /\ listed = FALSE /\ plan = [FirstPlan EXCEPT !.product = NoProduct]
        /\ total = {} /\ prices = {} /\ asked = 0 /\ answered = 0
    BY DEF Init, PlanInit
  <2>3. PlanTypeOK
    BY <1>0, <2>1, <2>2 DEF PlanTypeOK
  <2>4. ~(asked > 0)
    BY <2>2
  <2> QED
    BY <2>2, <2>3, <2>4 DEF PlanInv, TotalIsThePlans
<1>4. WizardTypeOK /\ ReviewInv /\ HeldInv
  <2>1. FirstNumber \in [Lines -> Numbers] /\ FirstPhone \in Phones
    BY WizardAssumption DEF Injection
  <2>2. \A l \in Lines : [did |-> FirstNumber[l], old |-> NoNumber, phone |-> FirstPhone] \in LineChoice
    BY <2>1 DEF LineChoice
  <2>3. lines \in [Lines -> LineChoice]
    BY <2>2 DEF Init, WizardInit
  <2>4. /\ assigned = FirstNumber /\ held = {} /\ step = 0 /\ built = 0 /\ oldDid = FirstNumber
        /\ url = 0 /\ loading = {} /\ known = {} /\ picking = {}
        /\ summary = {} /\ agreed = FALSE /\ requests = {} /\ orders = {} /\ kept = TRUE /\ late = FALSE
    BY DEF Init, WizardInit
  <2>5. WizardTypeOK
    <3>1. step \in 0..3 /\ url \in 0..3 /\ built \in 0..sent
      BY <1>0, <2>4
    <3> QED
      BY <2>1, <2>3, <2>4, <3>1 DEF WizardTypeOK
  <2>6. /\ Reserving = {} /\ Releasing = {} /\ Ordering = {}
        /\ \A l \in Lines : /\ lines[l].did = FirstNumber[l] /\ lines[l].old = NoNumber
                           /\ FirstNumber[l] \in Range(FirstNumber)
    BY <2>1, <2>4 DEF Init, WizardInit, Reserving, Releasing, Ordering, Range
  <2>7. \A l, m \in Lines : FirstNumber[l] = FirstNumber[m] => l = m
    BY <2>1, WizardAssumption DEF Injection, IsInjective
  <2>8. OwnedInv /\ ChosenInv /\ HolderInv
    BY <2>4, <2>6, <2>7 DEF OwnedInv, ChosenInv, HolderInv
  <2> QED
    BY <2>4, <2>5, <2>8 DEF ReviewInv, LoadInv, SummaryIsCurrent, HeldInv
<1>5. AccountTypeOK /\ VerdictInv /\ UpdateInv
  <2>1. /\ contact = FirstAddress /\ account = FirstAddress /\ tenant = FirstAddress
        /\ stage = "none" /\ opened = 0 /\ infos = 0 /\ form = 0 /\ verified = 0
        /\ valid = FALSE /\ timer = FALSE /\ verdict = FALSE /\ wrong = FALSE
        /\ checks = {} /\ told = "nothing" /\ updates = {} /\ unsaved = FALSE
    BY DEF Init, AccountInit
  <2>2. FirstAddress \in Addresses /\ infos \in 0..MaxInfos
    BY <2>1, AccountAssumption
  <2>3. AccountTypeOK
    BY <1>0, <2>1, <2>2 DEF AccountTypeOK
  <2>4. VerdictInv /\ UpdateInv
    BY <1>0, <2>1 DEF VerdictInv, VerdictIsTheAddress, UpdateInv
  <2> QED
    BY <2>3, <2>4
<1> QED
  BY <1>0, <1>1, <1>3, <1>4, <1>5 DEF Inv

\* Every step keeps it: the page's own by its lemma, the others' by that about them.
LEMMA NextInv == Inv /\ [Next]_vars => Inv'
<1> SUFFICES ASSUME Inv, [Next]_vars PROVE Inv'
  OBVIOUS
<1>0. PageTypeOK
  BY DEF Inv
<1>1. ASSUME NEW p \in PageNames, Moved(p) PROVE PageTypeOK'
  BY <1>0, <1>1 DEF PageTypeOK, Moved
<1>2. ASSUME NEW p, p # "group", Moved(p), UNCHANGED groupVars
      PROVE  GroupTypeOK' /\ RowInv' /\ SameInv'
  BY <1>2, GroupElse, SameElse DEF Inv
<1>4. ASSUME NEW p, Moved(p), UNCHANGED planVars PROVE PlanInv'
  BY <1>4, PlanElse DEF Inv
<1>5. ASSUME NEW p, Moved(p), UNCHANGED wizardVars PROVE WizardTypeOK' /\ ReviewInv' /\ HeldInv'
  BY <1>5, WizardElse, HeldElse DEF Inv
<1>6. ASSUME NEW p, p # "account", Moved(p), UNCHANGED accountVars
      PROVE  AccountTypeOK' /\ VerdictInv' /\ UpdateInv'
  BY <1>6, AccountElse DEF Inv
<1>7. CASE GroupNext /\ UNCHANGED <<planVars, wizardVars, accountVars>>
  <2>1. Moved("group") /\ GroupTypeOK' /\ RowInv'
    BY <1>7, GroupMoves, GroupStep DEF Inv
  <2>2. SameInv'
    BY <1>7, PlaceStep, TogetherStep DEF Inv, SameInv
  <2> QED
    BY <1>1, <1>4, <1>5, <1>6, <1>7, <2>1, <2>2 DEF Inv, PageNames
<1>9. CASE PlanNext /\ UNCHANGED <<groupVars, wizardVars, accountVars>>
  <2>1. Moved("plans") /\ PlanInv'
    BY <1>9, PlanMoves, PlanStep DEF Inv
  <2> QED
    BY <1>1, <1>2, <1>5, <1>6, <1>9, <2>1 DEF Inv, PageNames
<1>10. CASE WizardNext /\ UNCHANGED <<groupVars, planVars, accountVars>>
  <2>1. Moved("wizard") /\ WizardTypeOK' /\ ReviewInv' /\ HeldInv'
    BY <1>10, WizardMoves, WizardTypeStep, ReviewStep, HeldStep DEF Inv, ReviewInv
  <2> QED
    BY <1>1, <1>2, <1>4, <1>6, <1>10, <2>1 DEF Inv, PageNames
<1>11. CASE AccountNext /\ UNCHANGED <<groupVars, planVars, wizardVars>>
  <2>1. Moved("account") /\ AccountTypeOK' /\ VerdictInv' /\ UpdateInv'
    BY <1>11, AccountMoves, AccountTypeStep, VerdictStep, UpdateStep DEF Inv
  <2> QED
    BY <1>1, <1>2, <1>4, <1>5, <1>11, <2>1 DEF Inv, PageNames
<1>12. CASE Elsewhere
  <2>1. Moved("other") /\ UNCHANGED <<groupVars, planVars, wizardVars, accountVars>>
    BY <1>0, <1>12, StayMoves DEF Elsewhere
  <2> QED
    BY <1>1, <1>2, <1>4, <1>5, <1>6, <2>1 DEF Inv, PageNames
<1>13. CASE UNCHANGED vars
  <2>1. Moved("other") /\ page' = page
    BY <1>0, <1>13, StayMoves DEF vars, pageVars
  <2>2. UNCHANGED <<groupVars, planVars, wizardVars, accountVars>>
    BY <1>13 DEF vars
  <2>3. PageTypeOK'
    BY <1>0, <1>13 DEF PageTypeOK, vars, pageVars
  <2> QED
    BY <1>2, <1>4, <1>5, <1>6, <2>1, <2>2, <2>3 DEF Inv
<1> QED
  BY <1>7, <1>9, <1>10, <1>11, <1>12, <1>13
     DEF Next, GroupNext, PlanNext, WizardNext, AccountNext

LEMMA SpecInv == Spec => []Inv
  BY InitInv, NextInv, PTL DEF Spec

-----------------------------------------------------------------------------
\* Every variable of every page has its type (group.coffee, plan.coffee,
\* wizard_index.coffee, tenant.coffee): lists of members stay sequences of users through
\* merging, dragging and removing, and a row that is deleted is a member's.
THEOREM PagesTypes == Spec => []TypeOK
<1>1. Inv => TypeOK
  BY DEF Inv, TypeOK, PlanInv
<1> QED
  BY <1>1, SpecInv, PTL

\* An order is saved as it is seen, however rows are dragged, added and deleted
\* (members_page.coffee:56-60).
THEOREM OrderIsAsSeen == Spec => []RowsAreMembers
<1>1. Inv => RowsAreMembers
  BY DEF Inv, RowInv, RowsAreMembers
<1> QED
  BY <1>1, SpecInv, PTL

\* When all is answered, the page has the members and the option that the backend has,
\* however it is left and opened, its members dragged, added and deleted, unless requests
\* overlapped or failed (members_page.coffee:61-71, call_settings_page.coffee:53-68).
THEOREM PageIsBackends == Spec => []SettledIsBackends
<1>1. ASSUME Inv PROVE SettledIsBackends
  <2> SUFFICES ASSUME page = "group", ready, ~mixed, calls = {}, loads = {}
               PROVE  group = [members |-> ring, option |-> option]
    BY DEF SettledIsBackends, Waiting
  <2>1. group = [members |-> group.members, option |-> group.option]
    BY <1>1 DEF Inv, GroupTypeOK, Models
  <2>2. owner # 0
    BY <1>1 DEF Inv, SameInv, PlaceInv
  <2>3. group.members = ring
    BY <1>1, <2>2 DEF Inv, SameInv, TogetherInv, MembersInv
  <2>4. group.option = option
    BY <1>1 DEF Inv, SameInv, TogetherInv, OptionInv
  <2> QED
    BY <2>1, <2>3, <2>4
<1> QED
  BY <1>1, SpecInv, PTL

\* The total is the price of the plan selected (plan_selector_big.coffee:46-70).
THEOREM TotalsArePlans == Spec => []TotalIsThePlans
<1>1. Inv => TotalIsThePlans
  BY DEF Inv, PlanInv
<1> QED
  BY <1>1, SpecInv, PTL

\* The charges that the second step shows are those of the phones chosen, however the
\* steps are loaded, left and built again and their summaries answered, unless a dialog
\* changed them under it (wizard_index.coffee:50-63, wizard_step_2.coffee:24-36).
THEOREM SummariesAreCurrent == Spec => []SummaryIsCurrent
<1>1. Inv => SummaryIsCurrent
  BY DEF Inv, ReviewInv
<1> QED
  BY <1>1, SpecInv, PTL

\* The numbers reserved are those of the lines that are not theirs yet, in whatever order
\* they are chosen, answered, given back and ordered (wizard_edit_form.coffee:136-157).
THEOREM HeldAreChosen == Spec => []HeldIsChosen
<1>1. ASSUME Inv PROVE HeldIsChosen
  <2> SUFFICES ASSUME kept, requests = {} PROVE held = Range(Dids(lines)) \ Range(assigned)
    BY DEF HeldIsChosen
  <2>1. Reserving = {} /\ Releasing = {}
    BY DEF Reserving, Releasing
  <2>2. Range(Dids(lines)) = {lines[l].did : l \in Lines}
    BY DEF Dids, Range
  <2> QED
    BY <1>1, <2>1, <2>2 DEF Inv, HeldInv, OwnedInv, HolderInv
<1> QED
  BY <1>1, SpecInv, PTL

\* The form says of an address what the backend says of it
\* (company_info_form.coffee:72-81).
THEOREM VerdictsAreOfTheAddress == Spec => []VerdictIsTheAddress
<1>1. Inv => VerdictIsTheAddress
  BY DEF Inv, VerdictInv
<1> QED
  BY <1>1, SpecInv, PTL

\* The address that the account's page shows is the backend's when it is not being edited,
\* however it is left and opened, unless what was typed was not saved
\* (account_index.coffee:70-88, tenant_info.coffee:27-60).
THEOREM SavedAddressIsShown == Spec => []AddressIsSaved
<1>1. Inv => AddressIsSaved
  BY DEF Inv, UpdateInv, AddressIsSaved
<1> QED
  BY <1>1, SpecInv, PTL
=============================================================================
