------------------------------ MODULE Onboarding ------------------------------
(***************************************************************************)
(* The five sign-up pages: 1 account information, 2 telephone number,      *)
(* 3 billing, 4 review, 5 complete.                                        *)
(*                                                                         *)
(* The URL hash names a page.  A change of the hash starts the load of the *)
(* page's module (switch_sub); when the load ends the page is shown, and   *)
(* built the first time.  Loads end in any order, and so do the requests   *)
(* the pages make.  A handler of a Next link that throws, or returns true, *)
(* leaves the link its default action, which is to change the hash.        *)
(*                                                                         *)
(* Whether the forms of pages 1 and 3 are valid is left open: their links  *)
(* may be pressed enabled (the actions below) or disabled (no effect).     *)
(* The alias index of page 1 is not told apart, and the URL is not edited  *)
(* by hand.                                                                *)
(***************************************************************************)
EXTENDS Memo

CONSTANTS MaxPosts,  \* bound: requests posted of each kind
          MaxLoads   \* bound: loads of one page in flight

ASSUME BoundsAssumption == MaxPosts \in Nat \ {0} /\ MaxLoads \in Nat \ {0}

Steps == 1..5

VARIABLES
  hash,          \* the page the URL names
  visited,       \* the pages in the browser's history
  loading,       \* loading[s]: loads of page s in flight
  curr,          \* curr_step
  page,          \* options.page, 0 before the first
  built,         \* the pages in controller_cache
  number,        \* is models.tenant.main_number set?
  changed,       \* does the tenant's uid differ from page 2's curr_tenant_uid?
  dirty,         \* a tenant change waits for the debounce of page 2
  valid2,        \* page 2's validity
  tenantAccount, \* models.tenant.account_id, 0 for ''
  account,       \* ShoppingCart.create_account
  form,          \* CreditCard.promise_form
  review,        \* ShoppingCart.review_order
  signup,        \* ShoppingCart.signup_tenant
  waitAccount,   \* the page a create_account handler goes to, 0 for none
  waitCard,      \* the page a submit_form handler goes to, 0 for none
  cardPosted,    \* the card form is being posted
  cardDone,      \* page 3's cc_submit_promise is resolved
  agreement      \* page 4's agreement: absent, refused or accepted

nav     == <<hash, visited, loading>>
view    == <<curr, page, built>>
tenant  == <<number, changed, dirty, valid2, tenantAccount>>
memos   == <<account, form, review, signup>>
waiting == <<waitAccount, waitCard, cardPosted, cardDone>>

vars == <<nav, view, tenant, memos, waiting, agreement>>

-----------------------------------------------------------------------------
Init ==
  /\ hash = 1
  /\ visited = {1}
  /\ loading = [s \in Steps |-> IF s = 1 THEN 1 ELSE 0]
  /\ curr = 1 /\ page = 0 /\ built = {}
  /\ number = FALSE /\ changed = TRUE /\ dirty = FALSE /\ valid2 = FALSE
  /\ tenantAccount = 0
  /\ account = Fresh /\ form = Fresh /\ review = Fresh /\ signup = Fresh
  /\ waitAccount = 0 /\ waitCard = 0 /\ cardPosted = FALSE /\ cardDone = FALSE
  /\ agreement = "absent"

-----------------------------------------------------------------------------
(* Navigation.                                                             *)

\* The hash is set to page s: when that changes it, the page is loaded.
Goto(s) ==
  IF s = hash THEN UNCHANGED nav
  ELSE /\ loading[s] < MaxLoads
       /\ hash' = s
       /\ visited' = visited \cup {s}
       /\ loading' = [loading EXCEPT ![s] = @ + 1]

\* The browser's back and forward buttons.
History(s) ==
  /\ s \in visited \ {hash}
  /\ Goto(s)
  /\ UNCHANGED <<view, tenant, memos, waiting, agreement>>

\* The Previous link: its class is not the one page handlers listen to.
Previous ==
  /\ curr \in 2..4
  /\ Goto(curr - 1)
  /\ UNCHANGED <<view, tenant, memos, waiting, agreement>>

-----------------------------------------------------------------------------
(* A load ends: switch_sub's callback.                                     *)

\* Mutants of Shown: the page is not put into the cache; the step is read from
\* the URL when the load ends, not when it starts.
ShownUncached(s) ==
  /\ loading[s] > 0
  /\ loading' = [loading EXCEPT ![s] = @ - 1]
  /\ curr' = s
  /\ page' = s
  /\ UNCHANGED <<hash, visited, built>>
ShownAtHash(s) ==
  /\ loading[s] > 0
  /\ loading' = [loading EXCEPT ![s] = @ - 1]
  /\ curr' = hash
  /\ page' = s
  /\ built' = built \cup {s}
  /\ UNCHANGED <<hash, visited>>

\* Page s is (built and) shown.
Shown(s) ==
  /\ loading[s] > 0
  /\ loading' = [loading EXCEPT ![s] = @ - 1]
  /\ curr' = s
  /\ page' = s
  /\ built' = built \cup {s}
  /\ UNCHANGED <<hash, visited>>

\* A page of the cache, and pages 1 and 2, which start no request here (page
\* 2's number selector is the module NumberReservation).
ShowPage(s) ==
  /\ s \in built \cup {1, 2}
  /\ Shown(s)
  /\ UNCHANGED <<tenant, memos, waiting, agreement>>

\* Page 3 is built: the card form is asked for, for the tenant's account.
BuildBilling ==
  /\ 3 \notin built
  /\ MayCall(form, MaxPosts)
  /\ Shown(3)
  /\ form' = Call(form, tenantAccount)
  /\ UNCHANGED <<tenant, account, review, signup, waiting, agreement>>

\* Page 4 is built: the summary is asked for; with it comes the agreement.
BuildReview ==
  /\ 4 \notin built
  /\ MayCall(review, MaxPosts)
  /\ Shown(4)
  /\ review' = Call(review, tenantAccount)
  /\ agreement' = IF Settled(review) THEN "refused" ELSE agreement
  /\ UNCHANGED <<tenant, account, form, signup, waiting>>

\* Mutant of BuildComplete: the last page is built whenever it is reached.
BuildCompleteAgain ==
  /\ number
  /\ MayCall(signup, MaxPosts)
  /\ Shown(5)
  /\ signup' = Call(signup, [account |-> tenantAccount, agreed |-> agreement = "accepted"])
  /\ UNCHANGED <<tenant, account, form, review, waiting, agreement>>

\* Page 5 is built: the tenant is signed up.  Building the request copies the
\* admin's email to the tenant, which is a change if it was another one.
BuildComplete ==
  /\ 5 \notin built
  /\ number
  /\ MayCall(signup, MaxPosts)
  /\ Shown(5)
  /\ signup' = Call(signup, [account |-> tenantAccount, agreed |-> agreement = "accepted"])
  /\ dirty' \in {dirty, TRUE}
  /\ UNCHANGED <<number, changed, valid2, tenantAccount, account, form, review,
                 waiting, agreement>>

\* Without a number get_create_account_request throws: no page is built, and
\* the last one is hidden.
BuildCompleteThrows ==
  /\ 5 \notin built
  /\ ~number
  /\ loading[5] > 0
  /\ loading' = [loading EXCEPT ![5] = @ - 1]
  /\ curr' = 5
  /\ UNCHANGED <<hash, visited, page, built, tenant, memos, waiting, agreement>>

Load(s) ==
  \/ ShowPage(s)
  \/ s = 3 /\ BuildBilling
  \/ s = 4 /\ BuildReview
  \/ s = 5 /\ (BuildComplete \/ BuildCompleteThrows)

-----------------------------------------------------------------------------
(* The Next link.                                                          *)

\* Pressed on page 1 when its forms are valid.
NextFromInfo ==
  /\ curr < 5 /\ page = 1
  /\ Goto(curr + 1)
  /\ UNCHANGED <<view, tenant, memos, waiting, agreement>>

\* Pressed, disabled, before there is a page: the handler throws and the link
\* is followed.
NextFromNowhere ==
  /\ curr < 5 /\ page = 0
  /\ Goto(curr + 1)
  /\ UNCHANGED <<view, tenant, memos, waiting, agreement>>

\* Pressed, disabled, on page 2: validate makes the page valid as it is.
NextValidates ==
  /\ curr < 5 /\ page = 2 /\ ~valid2
  /\ valid2' = TRUE
  /\ UNCHANGED <<nav, view, number, changed, dirty, tenantAccount, memos, waiting, agreement>>

\* Page 2, nothing new to send: on.
NextUnchanged ==
  /\ curr < 5 /\ page = 2 /\ valid2
  /\ ~changed
  /\ Goto(curr + 1)
  /\ UNCHANGED <<view, tenant, memos, waiting, agreement>>

\* Page 2, a change to send but no number: the request's builder throws, after
\* the change was marked as sent, and the link is followed.
NextThrows ==
  /\ curr < 5 /\ page = 2 /\ valid2
  /\ changed /\ ~number
  /\ changed' = FALSE
  /\ Goto(curr + 1)
  /\ UNCHANGED <<view, number, dirty, valid2, tenantAccount, memos, waiting, agreement>>

\* Page 2, a change to send: create_account is called, and its answer, if it
\* is there already, used at once.
NextCreates ==
  /\ curr < 5 /\ page = 2 /\ valid2
  /\ changed /\ number
  /\ MayCall(account, MaxPosts)
  /\ changed' = FALSE
  /\ account' = Call(account, tenantAccount)
  /\ dirty' \in {dirty, TRUE}
  /\ IF Settled(account)
     THEN /\ tenantAccount' = account.settled
          /\ Goto(curr + 1)
          /\ UNCHANGED waitAccount
     ELSE /\ waitAccount' = curr + 1
          /\ UNCHANGED <<tenantAccount, nav>>
  /\ UNCHANGED <<view, number, valid2, form, review, signup, waitCard, cardPosted,
                 cardDone, agreement>>

\* Page 3 before the card form has come: on_next throws, the link is followed.
NextWithoutForm ==
  /\ curr < 5 /\ page = 3
  /\ ~Settled(form)
  /\ Goto(curr + 1)
  /\ UNCHANGED <<view, tenant, memos, waiting, agreement>>

\* Mutant of NextPostsCard: the page to go to is taken from the URL.
NextPostsCardFromHash ==
  /\ curr < 5 /\ page = 3
  /\ Settled(form)
  /\ IF cardDone
     THEN Goto(curr + 1) /\ UNCHANGED <<cardPosted, waitCard>>
     ELSE cardPosted' = TRUE /\ waitCard' = hash + 1 /\ UNCHANGED nav
  /\ UNCHANGED <<view, tenant, memos, waitAccount, cardDone, agreement>>

\* Page 3: the card form is posted.  An accepted card is not posted again: the
\* answer has taken the form's place in the frame.
NextPostsCard ==
  /\ curr < 5 /\ page = 3
  /\ Settled(form)
  /\ IF cardDone
     THEN Goto(curr + 1) /\ UNCHANGED <<cardPosted, waitCard>>
     ELSE cardPosted' = TRUE /\ waitCard' = curr + 1 /\ UNCHANGED nav
  /\ UNCHANGED <<view, tenant, memos, waitAccount, cardDone, agreement>>

\* Page 4: enabled when the agreement is accepted; pressed disabled before the
\* agreement is there, validate throws and the link is followed.
NextFromReview ==
  /\ curr < 5 /\ page = 4
  /\ agreement \in {"accepted", "absent"}
  /\ Goto(curr + 1)
  /\ UNCHANGED <<view, tenant, memos, waiting, agreement>>

-----------------------------------------------------------------------------
(* Answers.                                                                *)

\* Mutant of AccountAnswered: every request's own answer is used, not the
\* Deferred they share.
AccountAnsweredEach(i) ==
  /\ i \in account.open
  /\ account' = Answered(account, i)
  /\ tenantAccount' = i
  /\ dirty' = TRUE
  /\ waitAccount' = 0
  /\ IF waitAccount = 0 THEN UNCHANGED nav ELSE Goto(waitAccount)
  /\ UNCHANGED <<view, number, changed, valid2, form, review, signup, waitCard,
                 cardPosted, cardDone, agreement>>

\* createaccount is answered.  The first answer gives the tenant its account,
\* and a handler that waits goes on.
AccountAnswered(i) ==
  /\ i \in account.open
  /\ account' = Answered(account, i)
  /\ IF Settled(account) THEN UNCHANGED <<tenantAccount, dirty, nav, waitAccount>>
     ELSE /\ tenantAccount' = i
          /\ dirty' = TRUE
          /\ IF waitAccount = 0 THEN UNCHANGED nav ELSE Goto(waitAccount)
          /\ waitAccount' = 0
  /\ UNCHANGED <<view, number, changed, valid2, form, review, signup, waitCard,
                 cardPosted, cardDone, agreement>>

FormAnswered(i) ==
  /\ i \in form.open
  /\ form' = Answered(form, i)
  /\ UNCHANGED <<nav, view, tenant, account, review, signup, waiting, agreement>>

\* The summary is there: page 4 shows it and the agreement, not accepted.
ReviewAnswered(i) ==
  /\ i \in review.open
  /\ review' = Answered(review, i)
  /\ agreement' = IF ~Settled(review) /\ 4 \in built THEN "refused" ELSE agreement
  /\ UNCHANGED <<nav, view, tenant, account, form, signup, waiting>>

\* The sign-up is done: page 5 asks for the summary of the account it was built
\* with.
SignupAnswered(i) ==
  /\ i \in signup.open
  /\ MayCall(review, MaxPosts)
  /\ signup' = Answered(signup, i)
  /\ review' = Call(review, signup.posts[i].account)
  /\ UNCHANGED <<nav, view, tenant, account, form, waiting, agreement>>

\* The posted card form is answered: onAddCreditCard.
CardAccepted ==
  /\ cardPosted
  /\ cardPosted' = FALSE
  /\ cardDone' = TRUE
  /\ waitCard' = 0
  /\ IF waitCard = 0 THEN UNCHANGED nav ELSE Goto(waitCard)
  /\ UNCHANGED <<view, tenant, memos, waitAccount, agreement>>

\* handle_failure: a new cc_submit_promise; who waits for the old one waits
\* for ever.
CardRefused ==
  /\ cardPosted
  /\ cardPosted' = FALSE
  /\ cardDone' = FALSE
  /\ waitCard' = 0
  /\ UNCHANGED <<nav, view, tenant, memos, waitAccount, agreement>>

-----------------------------------------------------------------------------
(* The customer, and the debounce.                                         *)

\* The tenant is edited on page 1 or 2, while page 2 listens.
EditTenant ==
  /\ page \in {1, 2} /\ 2 \in built
  /\ dirty' = TRUE
  /\ UNCHANGED <<nav, view, number, changed, valid2, tenantAccount, memos, waiting, agreement>>

\* Page 2's selector sets the tenant's number (again).
NumberArrives ==
  /\ 2 \in built
  /\ number' = TRUE
  /\ dirty' = TRUE
  /\ valid2' = TRUE
  /\ UNCHANGED <<nav, view, changed, tenantAccount, memos, waiting, agreement>>

\* 300 ms after the last change: the tenant gets a new uid.
Debounced ==
  /\ dirty
  /\ dirty' = FALSE
  /\ changed' = TRUE
  /\ UNCHANGED <<nav, view, number, valid2, tenantAccount, memos, waiting, agreement>>

\* The boxes of page 4's agreement are ticked or cleared.
Agree ==
  /\ page = 4
  /\ agreement # "absent"
  /\ agreement' = IF agreement = "refused" THEN "accepted" ELSE "refused"
  /\ UNCHANGED <<nav, view, tenant, memos, waiting>>

-----------------------------------------------------------------------------
NextLink ==
  \/ NextFromInfo \/ NextFromNowhere \/ NextValidates \/ NextUnchanged \/ NextThrows
  \/ NextCreates \/ NextWithoutForm \/ NextPostsCard \/ NextFromReview

Answer ==
  \/ \E i \in 1..MaxPosts :
       \/ AccountAnswered(i) \/ FormAnswered(i) \/ ReviewAnswered(i)
       \/ SignupAnswered(i)
  \/ CardAccepted \/ CardRefused

Customer == EditTenant \/ NumberArrives \/ Debounced \/ Agree

Next ==
  \/ \E s \in Steps : History(s) \/ Load(s)
  \/ Previous
  \/ NextLink
  \/ Answer
  \/ Customer

Spec == Init /\ [][Next]_vars

-----------------------------------------------------------------------------
Accounts == 0..MaxPosts
Signups  == [account : Accounts, agreed : BOOLEAN]

\* Every variable has its type, and every memo is coherent.
TypeOK ==
  /\ hash \in Steps
  /\ visited \subseteq Steps
  /\ loading \in [Steps -> 0..MaxLoads]
  /\ curr \in Steps
  /\ page \in Steps \cup {0}
  /\ built \subseteq Steps
  /\ number \in BOOLEAN /\ changed \in BOOLEAN /\ dirty \in BOOLEAN /\ valid2 \in BOOLEAN
  /\ tenantAccount \in Accounts
  /\ account \in MemoType(Accounts, MaxPosts)
  /\ form \in MemoType(Accounts, MaxPosts)
  /\ review \in MemoType(Accounts, MaxPosts)
  /\ signup \in MemoType(Signups, MaxPosts)
  /\ waitAccount \in 0..5 /\ waitCard \in 0..5
  /\ cardPosted \in BOOLEAN /\ cardDone \in BOOLEAN
  /\ agreement \in {"absent", "refused", "accepted"}
  /\ Coherent(account) /\ Coherent(form) /\ Coherent(review) /\ Coherent(signup)

\* A page is reached only through the page before it: pages 3, 4 and 5 are in
\* the history only after the page before them was built, whatever loads,
\* late answers, throwing handlers and history jumps do.  (Page 2 is reached
\* before page 1 when Next is pressed while page 1 still loads.)
NoStepSkipped == \A s \in visited \ {1, 2} : s - 1 \in built

\* The links the visitor sees are those of the page shown: the handler that
\* runs belongs to the page the link leads on from.  The exception is a last
\* page that could not be built.
LinksMatchPage == page \in {0, curr} \/ (curr = 5 /\ 5 \notin built)

\* However often the last page is reached, signuptenant is posted once.
OneSignup == Len(signup.posts) <= 1 /\ (signup.posts # <<>> => 5 \in built)

\* createaccount may be posted again before it is answered, and then makes two
\* accounts; but the tenant, the card form, the summary and the sign-up never
\* name two different ones, and no account is created for a tenant that has one.
AccountsAgree ==
  /\ tenantAccount = account.settled
  /\ \A i \in DOMAIN account.posts : account.posts[i] = 0
  /\ \A i \in DOMAIN form.posts : form.posts[i] \in {0, tenantAccount}
  /\ \A i \in DOMAIN review.posts : review.posts[i] \in {0, tenantAccount}
  /\ \A i \in DOMAIN signup.posts : signup.posts[i].account \in {0, tenantAccount}

\* A handler that waits on a Deferred in use is still going to be called: it
\* waits for an account only while none has come, and for a card only while one
\* is being posted.  And it goes to the page it was pressed for, even when the
\* customer has moved on meanwhile.
WaitersServed ==
  /\ waitAccount # 0 => waitAccount = 3 /\ ~Settled(account)
  /\ waitCard # 0 => waitCard = 4 /\ cardPosted /\ ~cardDone

\* What the pages rest on: every page that is shown, built, loading or named by
\* the URL is in the history, and a handler waits only on a page that was built.
Reached ==
  /\ {1, hash, curr} \cup built \subseteq visited
  /\ \A s \in Steps : loading[s] > 0 => s \in visited
  /\ IF page = 0 THEN curr = 1 /\ built = {} ELSE page \in built
  /\ waitAccount # 0 => 2 \in built
  /\ waitCard # 0 => 3 \in built

\* The tenant's account is written once.
AccountOnce == INSTANCE WriteOnce
                 WITH value <- tenantAccount, Unset <- 0, Values <- 1..MaxPosts
AccountWrittenOnce == AccountOnce!Spec

-----------------------------------------------------------------------------
(* What the code's texts say, and the code does not do.                    *)

\* "You are required to [agree to] our Terms of Service": the sign-up is
\* posted only when they are accepted.
SignupNeedsAgreement == \A i \in DOMAIN signup.posts : signup.posts[i].agreed

\* "change in tenant information, trigger createaccount": a change of a tenant
\* with a number is marked as sent only by sending it.
ChangeTriggersCreate ==
  [][number /\ changed /\ ~changed' => Len(account'.posts) > Len(account.posts)]_vars
===============================================================================
