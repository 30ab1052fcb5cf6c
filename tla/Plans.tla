--------------------------------- MODULE Plans ---------------------------------
(***************************************************************************)
(* The plan selector: a number of lines, a billing period, and the total   *)
(* price of the two, for which the backend is asked at every change.  The  *)
(* total is what was answered last.  The list of plans is loaded once; the *)
(* product of a period is looked up in it, so there is none before.        *)
(***************************************************************************)
EXTENDS OnePage

CONSTANTS LineCounts,  \* numbers of lines of the slider
          Products,    \* the products, one for each billing period
          FirstPlan,   \* the lines and the product the selector starts with
          NoProduct    \* while the list of plans has not come

Plans == [lines : LineCounts, product : Products \cup {NoProduct}]

ASSUME PlanAssumption ==
  /\ NoProduct \notin Products
  /\ FirstPlan \in [lines : LineCounts, product : Products]

VARIABLES
  listed,     \* the list of plans has come
  plan,       \* what is selected
  total,      \* what the total shown is the price of; {} while there is none
  prices,     \* questions for a price that are not answered
  asked,      \* number of the last question
  answered    \* history: the question the total is the answer to

planVars == <<listed, plan, total, prices, asked, answered>>

PlanInit ==
  /\ listed = FALSE
  /\ plan = [FirstPlan EXCEPT !.product = NoProduct] /\ total = {}
  /\ prices = {} /\ asked = 0 /\ answered = 0

\* The price of p is asked for.
Ask(p) ==
  /\ Send
  /\ prices' = prices \cup {[no |-> sent + 1, plan |-> p]}
  /\ asked' = sent + 1

\* The page is built with a selector of its own; what was asked for an earlier
\* one is answered to that.  With the list there the first price is asked for.
OpenPlans ==
  /\ OpenPage("plans")
  /\ plan' = IF listed THEN FirstPlan ELSE [FirstPlan EXCEPT !.product = NoProduct]
  /\ prices' = IF listed THEN {[no |-> sent + 1, plan |-> FirstPlan]} ELSE {}
  /\ asked' = sent + 1 /\ total' = {} /\ answered' = 0
  /\ UNCHANGED listed

\* The list of plans comes, to a selector whose page may have been left: it has
\* its product, and asks for the price.
ListComes ==
  /\ asked > 0 /\ ~listed /\ listed' = TRUE
  /\ plan' = [plan EXCEPT !.product = FirstPlan.product]
  /\ Ask(plan')
  /\ UNCHANGED <<page, total, answered>>

\* The slider is moved.
ChangeLines(n) ==
  /\ page = "plans" /\ n # plan.lines
  /\ plan' = [plan EXCEPT !.lines = n]
  /\ Ask(plan')
  /\ UNCHANGED <<page, listed, total, answered>>

\* Mutant of ChangePeriod: the price of the new product is not asked for.
ChangePeriodOnly(x) ==
  /\ page = "plans" /\ listed /\ x # plan.product
  /\ plan' = [plan EXCEPT !.product = x]
  /\ UNCHANGED <<pageVars, listed, total, prices, asked, answered>>

\* Another period is selected, and with it its product.
ChangePeriod(x) ==
  /\ page = "plans" /\ listed /\ x # plan.product
  /\ plan' = [plan EXCEPT !.product = x]
  /\ Ask(plan')
  /\ UNCHANGED <<page, listed, total, answered>>

\* The answer becomes the total, whatever was asked meanwhile.
PriceComes(q) ==
  /\ total' = {q.plan} /\ answered' = q.no
  /\ prices' = prices \ {q}
  /\ UNCHANGED <<pageVars, listed, plan, asked>>

\* Nobody looks at a failure: the total stays.
PriceFails(q) ==
  /\ prices' = prices \ {q}
  /\ UNCHANGED <<pageVars, listed, plan, total, asked, answered>>

\* What an open dialog covers.
PlanClicks ==
  \/ \E n \in LineCounts : ChangeLines(n)
  \/ \E x \in Products : ChangePeriod(x)

PlanRest ==
  \/ OpenPlans \/ ListComes
  \/ \E q \in prices : PriceComes(q) \/ PriceFails(q)

PlanNext == PlanClicks \/ PlanRest

PlanTypeOK ==
  /\ listed \in BOOLEAN
  /\ plan \in Plans /\ total \subseteq Plans
  /\ prices \subseteq [no : 1..sent, plan : Plans]
  /\ asked \in 0..sent /\ answered \in 0..sent

\* The total shown is the price of what is selected, however fast the slider is
\* moved and in whatever order the prices come, unless the answer to the last
\* question is not there yet, failed, or came before that to an earlier one
\* (plan_selector_big.coffee:56-64).
TotalIsThePlans == asked > 0 /\ answered = asked => total = {plan}
===============================================================================
