---------------------------- MODULE OnboardingProofs ----------------------------
(***************************************************************************)
(* The sign-up pages, for any bounds on requests and loads.                *)
(*                                                                         *)
(* NoStepSkipped is not inductive.  That a link leads to the page after a  *)
(* built one needs the link to belong to the page shown (LinksMatchPage),  *)
(* the page shown to be built and in the history (Reached), and a late     *)
(* answer to go where it was told by a page that was built (WaitersServed, *)
(* Reached).  AccountsAgree needs the memos to be coherent (TypeOK): a     *)
(* request is posted only while the Deferred is pending, when the tenant   *)
(* has no account.                                                         *)
(***************************************************************************)
EXTENDS Onboarding, MemoProofs

Navigated == NoStepSkipped /\ LinksMatchPage /\ Reached /\ WaitersServed

IInv == TypeOK /\ Navigated /\ OneSignup /\ AccountsAgree

\* The parts of the type invariant.
NavType == hash \in Steps /\ visited \subseteq Steps /\ loading \in [Steps -> 0..MaxLoads]

MemosType ==
  /\ account \in MemoType(Accounts, MaxPosts) /\ Coherent(account)
  /\ form \in MemoType(Accounts, MaxPosts) /\ Coherent(form)
  /\ review \in MemoType(Accounts, MaxPosts) /\ Coherent(review)
  /\ signup \in MemoType(Signups, MaxPosts) /\ Coherent(signup)

FlagsType ==
  /\ number \in BOOLEAN /\ changed \in BOOLEAN /\ dirty \in BOOLEAN /\ valid2 \in BOOLEAN
  /\ cardPosted \in BOOLEAN /\ cardDone \in BOOLEAN

OtherType ==
  /\ curr \in Steps /\ page \in Steps \cup {0} /\ built \subseteq Steps
  /\ tenantAccount \in Accounts
  /\ waitAccount \in 0..5 /\ waitCard \in 0..5
  /\ agreement \in {"absent", "refused", "accepted"}

\* Together they are the type invariant.
LEMMA TypeParts == TypeOK <=> NavType /\ MemosType /\ FlagsType /\ OtherType
  BY DEF TypeOK, NavType, MemosType, FlagsType, OtherType

\* In the initial state nothing has happened.
LEMMA InitIInv == Init => IInv
<1> SUFFICES ASSUME Init PROVE IInv
  OBVIOUS
<1>1. MaxPosts \in Nat /\ 0 \in Accounts
  BY BoundsAssumption DEF Accounts
<1>2. /\ Fresh \in MemoType(Accounts, MaxPosts) /\ Fresh \in MemoType(Signups, MaxPosts)
      /\ Coherent(Fresh)
  BY <1>1, FreshMemo
<1>3. NavType
  BY BoundsAssumption DEF Init, NavType, Steps
<1>7. OtherType
  BY <1>1 DEF Init, OtherType, Steps
<1>8. FlagsType
  BY Zenon DEF Init, FlagsType
<1>4. MemosType
  BY <1>2 DEF Init, MemosType
<1>5. Navigated
  BY DEF Init, Navigated, NoStepSkipped, LinksMatchPage, Reached, WaitersServed, Steps
<1>6. OneSignup /\ AccountsAgree
  BY DEF Init, OneSignup, AccountsAgree, Fresh
<1> QED
  BY <1>3, <1>4, <1>5, <1>6, <1>7, <1>8, TypeParts DEF IInv

-----------------------------------------------------------------------------
(* Types.                                                                  *)

\* The steps that touch a memo.
LEMMA MemoSteps ==
  [Next]_vars =>
    \/ UNCHANGED memos \/ BuildBilling \/ BuildReview \/ BuildComplete \/ NextCreates
    \/ \E i \in 1..MaxPosts : AccountAnswered(i) \/ FormAnswered(i) \/ ReviewAnswered(i)
                              \/ SignupAnswered(i)
  BY DEF Next, vars, memos, Load, NextLink, Answer, Customer, History, Previous, ShowPage,
         BuildCompleteThrows, NextFromInfo, NextFromNowhere, NextValidates, NextUnchanged,
         NextThrows, NextWithoutForm, NextPostsCard, NextFromReview, CardAccepted,
         CardRefused, EditTenant, NumberArrives, Debounced, Agree

\* A sign-up that is not answered was posted.
LEMMA SignedUp ==
  TypeOK => \A i \in signup.open : i \in DOMAIN signup.posts /\ signup.posts[i] \in Signups
<1> SUFFICES ASSUME TypeOK, NEW i \in signup.open
             PROVE  i \in DOMAIN signup.posts /\ signup.posts[i] \in Signups
  OBVIOUS
<1>1. signup.posts \in Seq(Signups) /\ signup.open \subseteq 1..Len(signup.posts)
  BY DEF TypeOK, MemoType, Coherent
<1> QED
  BY <1>1

\* Every step keeps the memos' types.
LEMMA MemosStep == TypeOK /\ [Next]_vars => MemosType'
<1> SUFFICES ASSUME TypeOK, [Next]_vars PROVE MemosType'
  OBVIOUS
<1>0. /\ MemosType /\ MaxPosts \in Nat /\ tenantAccount \in Accounts
      /\ [account |-> tenantAccount, agreed |-> agreement = "accepted"] \in Signups
  BY TypeParts, BoundsAssumption DEF OtherType, Signups
<1>1. CASE UNCHANGED memos
  BY <1>0, <1>1 DEF memos, MemosType
<1>2. CASE BuildBilling
  <2>1. form' = Call(form, tenantAccount) /\ MayCall(form, MaxPosts)
        /\ UNCHANGED <<account, review, signup>>
    BY <1>2 DEF BuildBilling
  <2> QED
    BY <1>0, <2>1, CallMemo DEF MemosType
<1>3. CASE BuildReview
  <2>1. review' = Call(review, tenantAccount) /\ MayCall(review, MaxPosts)
        /\ UNCHANGED <<account, form, signup>>
    BY <1>3 DEF BuildReview
  <2> QED
    BY <1>0, <2>1, CallMemo DEF MemosType
<1>4. CASE BuildComplete
  <2>1. /\ signup' = Call(signup, [account |-> tenantAccount, agreed |-> agreement = "accepted"])
        /\ MayCall(signup, MaxPosts)
        /\ UNCHANGED <<account, form, review>>
    BY <1>4 DEF BuildComplete
  <2> QED
    BY <1>0, <2>1, CallMemo DEF MemosType
<1>5. CASE NextCreates
  <2>1. account' = Call(account, tenantAccount) /\ MayCall(account, MaxPosts)
        /\ UNCHANGED <<form, review, signup>>
    BY <1>5 DEF NextCreates
  <2> QED
    BY <1>0, <2>1, CallMemo DEF MemosType
<1>6. ASSUME NEW i \in 1..MaxPosts, AccountAnswered(i) PROVE MemosType'
  <2>1. i \in account.open /\ account' = Answered(account, i) /\ UNCHANGED <<form, review, signup>>
    BY <1>6 DEF AccountAnswered
  <2> QED
    BY <1>0, <2>1, AnsweredMemo DEF MemosType
<1>7. ASSUME NEW i \in 1..MaxPosts, FormAnswered(i) PROVE MemosType'
  <2>1. i \in form.open /\ form' = Answered(form, i) /\ UNCHANGED <<account, review, signup>>
    BY <1>7 DEF FormAnswered
  <2> QED
    BY <1>0, <2>1, AnsweredMemo DEF MemosType
<1>8. ASSUME NEW i \in 1..MaxPosts, ReviewAnswered(i) PROVE MemosType'
  <2>1. i \in review.open /\ review' = Answered(review, i) /\ UNCHANGED <<account, form, signup>>
    BY <1>8 DEF ReviewAnswered
  <2> QED
    BY <1>0, <2>1, AnsweredMemo DEF MemosType
<1>9. ASSUME NEW i \in 1..MaxPosts, SignupAnswered(i) PROVE MemosType'
  <2>1. /\ i \in signup.open /\ signup' = Answered(signup, i)
        /\ review' = Call(review, signup.posts[i].account) /\ MayCall(review, MaxPosts)
        /\ UNCHANGED <<account, form>>
    BY <1>9 DEF SignupAnswered
  <2>2. signup.posts[i].account \in Accounts
    BY <1>0, <2>1, SignedUp DEF Signups
  <2> QED
    BY <1>0, <2>1, <2>2, AnsweredMemo, CallMemo DEF MemosType
<1>10. UNCHANGED memos \/ BuildBilling \/ BuildReview \/ BuildComplete \/ NextCreates
       \/ \E i \in 1..MaxPosts : AccountAnswered(i) \/ FormAnswered(i) \/ ReviewAnswered(i)
                                 \/ SignupAnswered(i)
  BY MemoSteps
<1> QED
  BY <1>1, <1>2, <1>3, <1>4, <1>5, <1>6, <1>7, <1>8, <1>9, <1>10

\* Every step keeps the types of the flags.
LEMMA FlagsStep == TypeOK /\ [Next]_vars => FlagsType'
<1> SUFFICES ASSUME TypeOK, [Next]_vars PROVE FlagsType'
  OBVIOUS
<1>0. FlagsType
  BY TypeParts
<1> DEFINE rest == <<number, changed, dirty, valid2, cardPosted, cardDone>>
<1>1. CASE UNCHANGED rest
  BY <1>0, <1>1 DEF FlagsType
<1>2. CASE BuildComplete \/ NextValidates \/ NextThrows \/ NextCreates
  <2>1. UNCHANGED <<number, cardPosted, cardDone>>
    BY <1>2 DEF BuildComplete, NextValidates, NextThrows, NextCreates, waiting
  <2>2. changed' \in {changed, FALSE} /\ dirty' \in {dirty, TRUE} /\ valid2' \in {valid2, TRUE}
    BY <1>2 DEF BuildComplete, NextValidates, NextThrows, NextCreates
  <2> QED
    BY <1>0, <2>1, <2>2 DEF FlagsType
<1>3. CASE EditTenant \/ NumberArrives \/ Debounced
  <2>1. UNCHANGED <<cardPosted, cardDone>>
    BY <1>3 DEF EditTenant, NumberArrives, Debounced, waiting
  <2>2. /\ number' \in {number, TRUE} /\ changed' \in {changed, TRUE}
        /\ dirty' \in {FALSE, TRUE} /\ valid2' \in {valid2, TRUE}
    BY <1>3, Zenon DEF EditTenant, NumberArrives, Debounced
  <2> QED
    BY <1>0, <2>1, <2>2 DEF FlagsType
<1>4. CASE NextPostsCard \/ CardAccepted \/ CardRefused
  <2>1. UNCHANGED <<number, changed, dirty, valid2>>
    BY <1>4 DEF NextPostsCard, CardAccepted, CardRefused, tenant
  <2>2. cardPosted' \in {cardPosted, TRUE, FALSE} /\ cardDone' \in {cardDone, TRUE, FALSE}
    BY <1>4, Zenon DEF NextPostsCard, CardAccepted, CardRefused
  <2> QED
    BY <1>0, <2>1, <2>2 DEF FlagsType
<1>5. ASSUME NEW i \in 1..MaxPosts, AccountAnswered(i) PROVE FlagsType'
  <2>1. UNCHANGED <<number, changed, valid2, cardPosted, cardDone>>
    BY <1>5 DEF AccountAnswered
  <2>2. dirty' \in {dirty, TRUE}
    BY <1>5 DEF AccountAnswered
  <2> QED
    BY <1>0, <2>1, <2>2 DEF FlagsType
<1>6. \/ UNCHANGED rest
      \/ BuildComplete \/ NextValidates \/ NextThrows \/ NextCreates
      \/ EditTenant \/ NumberArrives \/ Debounced
      \/ NextPostsCard \/ CardAccepted \/ CardRefused
      \/ \E i \in 1..MaxPosts : AccountAnswered(i)
  BY DEF Next, vars, tenant, waiting, Load, NextLink, Answer, Customer, History, Previous,
         ShowPage, BuildBilling, BuildReview, BuildCompleteThrows, NextFromInfo,
         NextFromNowhere, NextUnchanged, NextWithoutForm, NextFromReview, FormAnswered,
         ReviewAnswered, SignupAnswered, Agree
<1> QED
  BY <1>1, <1>2, <1>3, <1>4, <1>5, <1>6

-----------------------------------------------------------------------------
(* Moves.                                                                  *)

\* Page s may be gone to: it was there, or the page before it was.
Allowed(s) == s \in visited \cup {2} \/ s - 1 \in built

\* The page of a link or of a waiting handler is one that may be gone to.
LEMMA LinkAllowed == TypeOK /\ Navigated => (curr < 5 => curr + 1 \in Steps /\ Allowed(curr + 1))
  BY DEF TypeOK, Steps, Navigated, LinksMatchPage, Reached, Allowed

\* So is the page of the Previous link.
LEMMA PreviousAllowed ==
  TypeOK /\ Navigated => (curr \in 2..4 => curr - 1 \in Steps /\ Allowed(curr - 1))
<1> SUFFICES ASSUME TypeOK, Navigated, curr \in 2..4
             PROVE  curr - 1 \in Steps /\ Allowed(curr - 1)
  OBVIOUS
<1>1. 1 \in visited /\ curr \in visited /\ built \subseteq visited
  BY DEF Navigated, Reached
<1>2. CASE curr \in {2, 3}
  BY <1>1, <1>2 DEF Steps, Allowed
<1>3. CASE curr = 4
  BY <1>1, <1>3 DEF Steps, Allowed, Navigated, NoStepSkipped
<1> QED
  BY <1>2, <1>3

\* How a step moves: nothing, or to a page that may be gone to, or the end of
\* a load.
LEMMA Moves ==
  TypeOK /\ Navigated /\ [Next]_vars =>
    \/ UNCHANGED <<nav, view>>
    \/ \E s \in Steps : Goto(s) /\ Allowed(s) /\ UNCHANGED view
    \/ \E s \in Steps : Shown(s)
    \/ BuildCompleteThrows
<1> DEFINE Still == UNCHANGED <<nav, view>>
           Went  == \E s \in Steps : Goto(s) /\ Allowed(s) /\ UNCHANGED view
           Ended == (\E s \in Steps : Shown(s)) \/ BuildCompleteThrows
<1> SUFFICES ASSUME TypeOK, Navigated, [Next]_vars PROVE Still \/ Went \/ Ended
  OBVIOUS
<1> HIDE DEF Still, Went, Ended
<1>1. CASE UNCHANGED vars
  BY <1>1 DEF vars, Still
<1>2. ASSUME NEW s \in Steps, History(s) PROVE Went
  BY <1>2 DEF History, Allowed, Went
<1>3. ASSUME NEW s \in Steps, Load(s) PROVE Ended
  BY <1>3 DEF Load, ShowPage, BuildBilling, BuildReview, BuildComplete, Ended
<1>4. CASE Previous
  BY <1>4, PreviousAllowed DEF Previous, Went
<1>5. CASE NextLink
  <2>1. CASE NextValidates
    BY <2>1 DEF NextValidates, Still
  <2>2. ASSUME Goto(curr + 1), curr < 5, UNCHANGED view PROVE Went
    BY <2>2, LinkAllowed DEF Went
  <2>3. CASE NextFromInfo \/ NextFromNowhere \/ NextUnchanged \/ NextThrows \/ NextWithoutForm
    BY <2>2, <2>3 DEF NextFromInfo, NextFromNowhere, NextUnchanged, NextThrows, NextWithoutForm
  <2>4. CASE NextFromReview
    BY <2>2, <2>4 DEF NextFromReview
  <2>5. CASE NextCreates
    BY <2>2, <2>5 DEF NextCreates, Still
  <2>6. CASE NextPostsCard
    BY <2>2, <2>6 DEF NextPostsCard, Still
  <2> QED
    BY <1>5, <2>1, <2>3, <2>4, <2>5, <2>6 DEF NextLink
<1>6. CASE Answer
  <2>1. ASSUME NEW i \in 1..MaxPosts, AccountAnswered(i) PROVE Still \/ Went
    <3>1. CASE UNCHANGED nav
      BY <2>1, <3>1 DEF AccountAnswered, Still
    <3>2. CASE waitAccount # 0 /\ Goto(waitAccount) /\ UNCHANGED view
      BY <3>2 DEF Navigated, WaitersServed, Reached, Allowed, Went, Steps
    <3> QED
      BY <2>1, <3>1, <3>2 DEF AccountAnswered
  <2>2. CASE CardAccepted
    <3>1. CASE UNCHANGED nav
      BY <2>2, <3>1 DEF CardAccepted, Still
    <3>2. CASE waitCard # 0 /\ Goto(waitCard) /\ UNCHANGED view
      BY <3>2 DEF Navigated, WaitersServed, Reached, Allowed, Went, Steps
    <3> QED
      BY <2>2, <3>1, <3>2 DEF CardAccepted
  <2>3. CASE CardRefused
    BY <2>3 DEF CardRefused, Still
  <2>4. ASSUME NEW i \in 1..MaxPosts, FormAnswered(i) \/ ReviewAnswered(i) \/ SignupAnswered(i)
        PROVE Still
    BY <2>4 DEF FormAnswered, ReviewAnswered, SignupAnswered, Still
  <2> QED
    BY <1>6, <2>1, <2>2, <2>3, <2>4 DEF Answer
<1>7. CASE Customer
  BY <1>7 DEF Customer, EditTenant, NumberArrives, Debounced, Agree, Still
<1> QED
  BY <1>1, <1>2, <1>3, <1>4, <1>5, <1>6, <1>7 DEF Next

\* What the moves keep: the part of Reached that is about pages.
Pages ==
  /\ {1, hash, curr} \cup built \subseteq visited
  /\ \A s \in Steps : loading[s] > 0 => s \in visited
  /\ IF page = 0 THEN curr = 1 /\ built = {} ELSE page \in built

ViewType == curr \in Steps /\ page \in Steps \cup {0} /\ built \subseteq Steps

\* Every move keeps the pages shown, built and visited in step with each other.
LEMMA MovesKeep ==
  TypeOK /\ Navigated /\ [Next]_vars =>
    (NavType /\ ViewType /\ NoStepSkipped /\ LinksMatchPage /\ Pages)' /\ built \subseteq built'
<1> DEFINE Kept == (NavType /\ ViewType /\ NoStepSkipped /\ LinksMatchPage /\ Pages)'
                   /\ built \subseteq built'
<1> SUFFICES ASSUME TypeOK, Navigated, [Next]_vars PROVE Kept
  OBVIOUS
<1>0. NavType /\ ViewType /\ NoStepSkipped /\ LinksMatchPage /\ Pages
  BY TypeParts DEF OtherType, ViewType, Navigated, Reached, Pages
<1> USE BoundsAssumption DEF NavType, ViewType, NoStepSkipped, LinksMatchPage, Pages
<1>1. CASE UNCHANGED <<nav, view>>
  BY <1>0, <1>1 DEF nav, view
<1>2. ASSUME NEW s \in Steps, Goto(s), Allowed(s), UNCHANGED view PROVE Kept
  <2>1. UNCHANGED <<curr, page, built>>
    BY <1>2 DEF view
  <2>2. CASE s = hash
    <3>1. UNCHANGED <<hash, visited, loading>>
      BY <1>2, <2>2 DEF Goto, nav
    <3> QED
      BY <1>0, <2>1, <3>1
  <2>3. CASE s # hash
    <3>1. /\ loading[s] < MaxLoads /\ hash' = s /\ visited' = visited \cup {s}
          /\ loading' = [loading EXCEPT ![s] = @ + 1]
      BY <1>2, <2>3 DEF Goto
    <3>2. NavType' /\ ViewType' /\ Pages'
      BY <1>0, <2>1, <3>1
    <3>3. NoStepSkipped'
      BY <1>0, <1>2, <2>1, <3>1 DEF Allowed
    <3> QED
      BY <1>0, <2>1, <3>2, <3>3
  <2> QED
    BY <2>2, <2>3
<1>3. ASSUME NEW s \in Steps, Shown(s) PROVE Kept
  <2>1. s \in visited /\ s # 0
    BY <1>0, <1>3 DEF Shown, Steps
  <2>2. NavType' /\ ViewType' /\ built \subseteq built'
    BY <1>0, <1>3 DEF Shown
  <2>3. NoStepSkipped' /\ LinksMatchPage'
    BY <1>0, <1>3 DEF Shown
  <2>4. Pages'
    BY <1>0, <1>3, <2>1 DEF Shown
  <2> QED
    BY <2>2, <2>3, <2>4
<1>4. CASE BuildCompleteThrows
  <2>1. 5 \in visited /\ 4 \in built
    BY <1>0, <1>4 DEF BuildCompleteThrows, Steps
  <2> QED
    BY <1>0, <1>4, <2>1 DEF BuildCompleteThrows, Steps
<1> QED
  BY <1>1, <1>2, <1>3, <1>4, Moves

-----------------------------------------------------------------------------
(* Waiting handlers.                                                       *)

WaitersStand == WaitersServed /\ (waitAccount # 0 => 2 \in built) /\ (waitCard # 0 => 3 \in built)

\* Every step leaves the handlers that wait something to wait for.
LEMMA WaitersStep == TypeOK /\ Navigated /\ [Next]_vars => WaitersStand'
<1> SUFFICES ASSUME TypeOK, Navigated, [Next]_vars PROVE WaitersStand'
  OBVIOUS
<1>0. WaitersStand /\ built \subseteq built'
  BY MovesKeep DEF Navigated, Reached, WaitersStand
<1>1. CASE UNCHANGED <<waiting, account>>
  BY <1>0, <1>1 DEF waiting, WaitersStand, WaitersServed, Settled
<1>2. CASE NextCreates
  <2>1. UNCHANGED <<waitCard, cardPosted, cardDone>>
    BY <1>2 DEF NextCreates
  <2>2. account'.settled = account.settled
    BY <1>2, CallMemo, TypeParts, BoundsAssumption DEF NextCreates, MemosType, OtherType
  <2>3. CASE Settled(account)
    BY <1>0, <1>2, <2>1, <2>2, <2>3 DEF NextCreates, WaitersStand, WaitersServed, Settled
  <2>4. CASE ~Settled(account)
    <3>1. waitAccount' = 3 /\ 2 \in built
      BY <1>2, <2>4 DEF NextCreates, Navigated, LinksMatchPage, Reached
    <3> QED
      BY <1>0, <2>1, <2>2, <2>4, <3>1 DEF WaitersStand, WaitersServed, Settled
  <2> QED
    BY <2>3, <2>4
<1>3. CASE NextPostsCard
  <2>1. UNCHANGED <<waitAccount, cardDone, account>>
    BY <1>3 DEF NextPostsCard, memos
  <2>2. CASE cardDone
    BY <1>0, <1>3, <2>1, <2>2 DEF NextPostsCard, WaitersStand, WaitersServed, Settled
  <2>3. CASE ~cardDone
    <3>1. cardPosted' /\ waitCard' = 4 /\ 3 \in built
      BY <1>3, <2>3 DEF NextPostsCard, Navigated, LinksMatchPage, Reached
    <3> QED
      BY <1>0, <2>1, <2>3, <3>1 DEF WaitersStand, WaitersServed, Settled
  <2> QED
    BY <2>2, <2>3
<1>4. ASSUME NEW i \in 1..MaxPosts, AccountAnswered(i) PROVE WaitersStand'
  <2>1. UNCHANGED <<waitCard, cardPosted, cardDone>>
    BY <1>4 DEF AccountAnswered
  <2>2. waitAccount' = 0
    BY <1>0, <1>4 DEF AccountAnswered, WaitersStand, WaitersServed
  <2> QED
    BY <1>0, <2>1, <2>2 DEF WaitersStand, WaitersServed
<1>5. CASE CardAccepted \/ CardRefused
  <2>1. waitCard' = 0 /\ UNCHANGED <<waitAccount, account>>
    BY <1>5 DEF CardAccepted, CardRefused, memos
  <2> QED
    BY <1>0, <2>1 DEF WaitersStand, WaitersServed, Settled
<1>6. \/ UNCHANGED <<waiting, account>>
      \/ NextCreates \/ NextPostsCard \/ CardAccepted \/ CardRefused
      \/ \E i \in 1..MaxPosts : AccountAnswered(i)
  BY DEF Next, vars, memos, Load, NextLink, Answer, Customer, History, Previous, ShowPage,
         BuildBilling, BuildReview, BuildComplete, BuildCompleteThrows, NextFromInfo,
         NextFromNowhere, NextValidates, NextUnchanged, NextThrows, NextWithoutForm,
         NextFromReview, FormAnswered, ReviewAnswered, SignupAnswered, EditTenant,
         NumberArrives, Debounced, Agree
<1> QED
  BY <1>1, <1>2, <1>3, <1>4, <1>5, <1>6

\* Every step keeps the part of the invariant that is about navigation.
LEMMA NavigatedStep == TypeOK /\ Navigated /\ [Next]_vars => Navigated'
  BY MovesKeep, WaitersStep DEF Navigated, Reached, Pages, WaitersStand

-----------------------------------------------------------------------------
(* Requests.                                                               *)

\* How a step changes the tenant's account: not, or from none to the first
\* answer, in step with the Deferred.
LEMMA AccountChange ==
  TypeOK /\ AccountsAgree /\ [Next]_vars =>
    /\ tenantAccount' = account'.settled
    /\ tenantAccount' # tenantAccount => tenantAccount = 0 /\ tenantAccount' \in 1..MaxPosts
<1> DEFINE Goal == /\ tenantAccount' = account'.settled
                   /\ tenantAccount' # tenantAccount =>
                        tenantAccount = 0 /\ tenantAccount' \in 1..MaxPosts
<1> SUFFICES ASSUME TypeOK, AccountsAgree, [Next]_vars PROVE Goal
  OBVIOUS
<1>0. tenantAccount = account.settled
  BY DEF AccountsAgree
<1>1. CASE UNCHANGED <<tenantAccount, account>>
  BY <1>0, <1>1
<1>2. CASE NextCreates
  <2>1. account'.settled = account.settled
    BY <1>2, CallMemo, TypeParts, BoundsAssumption DEF NextCreates, MemosType, OtherType
  <2> QED
    BY <1>0, <1>2, <2>1 DEF NextCreates
<1>3. ASSUME NEW i \in 1..MaxPosts, AccountAnswered(i) PROVE Goal
  <2>1. account'.settled = IF account.settled = 0 THEN i ELSE account.settled
    BY <1>3 DEF AccountAnswered, Answered
  <2> QED
    BY <1>0, <1>3, <2>1 DEF AccountAnswered, Settled
<1>4. UNCHANGED <<tenantAccount, account>> \/ NextCreates \/ \E i \in 1..MaxPosts : AccountAnswered(i)
  BY DEF Next, vars, memos, tenant, Load, NextLink, Answer, Customer, History, Previous,
         ShowPage, BuildBilling, BuildReview, BuildComplete, BuildCompleteThrows,
         NextFromInfo, NextFromNowhere, NextValidates, NextUnchanged, NextThrows,
         NextWithoutForm, NextPostsCard, NextFromReview, FormAnswered, ReviewAnswered,
         SignupAnswered, CardAccepted, CardRefused, EditTenant, NumberArrives, Debounced,
         Agree
<1> QED
  BY <1>1, <1>2, <1>3, <1>4

\* The agreement keeps its type.
LEMMA AgreementStep ==
  TypeOK /\ [Next]_vars => agreement' \in {"absent", "refused", "accepted"}
<1> SUFFICES ASSUME TypeOK, [Next]_vars PROVE agreement' \in {"absent", "refused", "accepted"}
  OBVIOUS
<1>1. agreement' \in {agreement, "refused", "accepted"}
  BY DEF Next, vars, Load, NextLink, Answer, Customer, History, Previous,
         ShowPage, BuildBilling, BuildReview, BuildComplete, BuildCompleteThrows,
         NextFromInfo, NextFromNowhere, NextValidates, NextUnchanged, NextThrows, NextCreates,
         NextWithoutForm, NextPostsCard, NextFromReview, AccountAnswered, FormAnswered,
         ReviewAnswered, SignupAnswered, CardAccepted, CardRefused, EditTenant,
         NumberArrives, Debounced, Agree
<1> QED
  BY <1>1 DEF TypeOK

\* Every step keeps the types.
LEMMA TypeStep == TypeOK /\ Navigated /\ AccountsAgree /\ [Next]_vars => TypeOK'
<1> SUFFICES ASSUME TypeOK, Navigated, AccountsAgree, [Next]_vars PROVE TypeOK'
  OBVIOUS
<1>1. tenantAccount' \in Accounts
  BY AccountChange, BoundsAssumption DEF TypeOK, Accounts
<1>2. waitAccount' \in 0..5 /\ waitCard' \in 0..5
  BY WaitersStep DEF WaitersStand, WaitersServed
<1>3. OtherType'
  BY <1>1, <1>2, AgreementStep, MovesKeep DEF OtherType, ViewType
<1> QED
  BY <1>3, MovesKeep, MemosStep, FlagsStep
  DEF TypeOK, NavType, MemosType, FlagsType, OtherType

\* The steps that post a request.
LEMMA Posts ==
  [Next]_vars =>
    /\ account' = account \/ NextCreates \/ \E i \in 1..MaxPosts : AccountAnswered(i)
    /\ form'.posts = form.posts \/ BuildBilling
    /\ \/ review'.posts = review.posts
       \/ \E a \in {tenantAccount} \cup {signup.posts[i].account : i \in signup.open} :
            review' = Call(review, a) /\ MayCall(review, MaxPosts)
    /\ signup'.posts = signup.posts \/ BuildComplete
<1> DEFINE Goal ==
      /\ account' = account \/ NextCreates \/ \E i \in 1..MaxPosts : AccountAnswered(i)
      /\ form'.posts = form.posts \/ BuildBilling
      /\ \/ review'.posts = review.posts
         \/ \E a \in {tenantAccount} \cup {signup.posts[i].account : i \in signup.open} :
              review' = Call(review, a) /\ MayCall(review, MaxPosts)
      /\ signup'.posts = signup.posts \/ BuildComplete
<1> SUFFICES ASSUME [Next]_vars PROVE Goal
  OBVIOUS
<1>1. CASE UNCHANGED memos
  BY <1>1 DEF memos
<1>2. CASE BuildBilling
  BY <1>2 DEF BuildBilling
<1>3. CASE BuildReview
  BY <1>3 DEF BuildReview
<1>4. CASE BuildComplete
  BY <1>4 DEF BuildComplete
<1>5. CASE NextCreates
  BY <1>5 DEF NextCreates
<1>6. ASSUME NEW i \in 1..MaxPosts, AccountAnswered(i) PROVE Goal
  BY <1>6 DEF AccountAnswered
<1>7. ASSUME NEW i \in 1..MaxPosts, FormAnswered(i) PROVE Goal
  BY <1>7 DEF FormAnswered, Answered
<1>8. ASSUME NEW i \in 1..MaxPosts, ReviewAnswered(i) PROVE Goal
  BY <1>8 DEF ReviewAnswered, Answered
<1>9. ASSUME NEW i \in 1..MaxPosts, SignupAnswered(i) PROVE Goal
  BY <1>9 DEF SignupAnswered, Answered
<1>10. UNCHANGED memos \/ BuildBilling \/ BuildReview \/ BuildComplete \/ NextCreates
       \/ \E i \in 1..MaxPosts : AccountAnswered(i) \/ FormAnswered(i) \/ ReviewAnswered(i)
                                 \/ SignupAnswered(i)
  BY MemoSteps
<1> QED
  BY <1>1, <1>2, <1>3, <1>4, <1>5, <1>6, <1>7, <1>8, <1>9, <1>10

\* What a step adds to the requests.
LEMMA RequestsStep == TypeOK /\ AccountsAgree /\ [Next]_vars => AccountsAgree'
<1> SUFFICES ASSUME TypeOK, AccountsAgree, [Next]_vars PROVE AccountsAgree'
  OBVIOUS
<1> DEFINE Agreed(m) == \A i \in DOMAIN m.posts : m.posts[i] \in {0, tenantAccount}
           request == [account |-> tenantAccount, agreed |-> agreement = "accepted"]
<1>0. /\ tenantAccount = account.settled
      /\ \A i \in DOMAIN account.posts : account.posts[i] = 0
      /\ Agreed(form) /\ Agreed(review)
      /\ \A i \in DOMAIN signup.posts : signup.posts[i].account \in {0, tenantAccount}
      /\ MemosType /\ MaxPosts \in Nat /\ tenantAccount \in Accounts /\ request \in Signups
  BY TypeParts, BoundsAssumption DEF AccountsAgree, OtherType, Signups
<1>1. tenantAccount' = account'.settled /\ tenantAccount \in {0, tenantAccount'}
  BY AccountChange
<1>2. \A i \in DOMAIN account'.posts : account'.posts[i] = 0
  <2>1. CASE account' = account
    BY <1>0, <2>1
  <2>2. CASE NextCreates
    <3>1. account' = Call(account, tenantAccount) /\ MayCall(account, MaxPosts)
      BY <2>2 DEF NextCreates
    <3>2. CASE account.memo # 0
      BY <1>0, <3>1, <3>2 DEF Call
    <3>3. CASE account.memo = 0
      <4>1. tenantAccount = 0
        BY <1>0, <3>3 DEF MemosType, Coherent
      <4> QED
        BY <1>0, <3>1, <4>1, CallMemo DEF MemosType
    <3> QED
      BY <3>2, <3>3
  <2>3. ASSUME NEW i \in 1..MaxPosts, AccountAnswered(i) PROVE account'.posts = account.posts
    BY <2>3 DEF AccountAnswered, Answered
  <2>4. account' = account \/ NextCreates \/ \E i \in 1..MaxPosts : AccountAnswered(i)
    BY Posts
  <2> QED
    BY <1>0, <2>1, <2>2, <2>3, <2>4
<1>3. Agreed(form)'
  <2>1. CASE form'.posts = form.posts
    BY <1>0, <1>1, <2>1
  <2>2. CASE BuildBilling
    <3>1. form' = Call(form, tenantAccount) /\ MayCall(form, MaxPosts)
      BY <2>2 DEF BuildBilling
    <3> QED
      BY <1>0, <1>1, <3>1, CallMemo DEF MemosType
  <2>3. form'.posts = form.posts \/ BuildBilling
    BY Posts
  <2> QED
    BY <2>1, <2>2, <2>3
<1>4. Agreed(review)'
  <2>1. CASE review'.posts = review.posts
    BY <1>0, <1>1, <2>1
  <2> DEFINE named == {tenantAccount} \cup {signup.posts[i].account : i \in signup.open}
  <2>2. ASSUME NEW a \in named, review' = Call(review, a), MayCall(review, MaxPosts)
        PROVE  Agreed(review)'
    <3>1. a \in {0, tenantAccount} /\ a \in Accounts
      BY <1>0, SignedUp DEF Accounts
    <3> QED
      BY <1>0, <1>1, <2>2, <3>1, CallMemo DEF MemosType
  <2>3. \/ review'.posts = review.posts
        \/ \E a \in named : review' = Call(review, a) /\ MayCall(review, MaxPosts)
    BY Posts
  <2> QED
    BY <2>1, <2>2, <2>3
<1>5. \A i \in DOMAIN signup'.posts : signup'.posts[i].account \in {0, tenantAccount'}
  <2>1. CASE signup'.posts = signup.posts
    BY <1>0, <1>1, <2>1
  <2>2. CASE BuildComplete
    <3>1. signup' = Call(signup, request) /\ MayCall(signup, MaxPosts)
      BY <2>2 DEF BuildComplete
    <3>2. \A i \in DOMAIN signup'.posts :
            signup'.posts[i] = request
            \/ (i \in DOMAIN signup.posts /\ signup'.posts[i] = signup.posts[i])
      BY <1>0, <3>1, CallMemo DEF MemosType
    <3> QED
      BY <1>0, <1>1, <3>2
  <2>3. signup'.posts = signup.posts \/ BuildComplete
    BY Posts
  <2> QED
    BY <2>1, <2>2, <2>3
<1> QED
  BY <1>1, <1>2, <1>3, <1>4, <1>5 DEF AccountsAgree

\* Every step keeps the sign-up single: it is posted while page 5 is built, which
\* happens once.
LEMMA SignupStep == TypeOK /\ Navigated /\ OneSignup /\ [Next]_vars => OneSignup'
<1> SUFFICES ASSUME TypeOK, Navigated, OneSignup, [Next]_vars PROVE OneSignup'
  OBVIOUS
<1>1. built \subseteq built'
  BY MovesKeep
<1>2. CASE signup'.posts = signup.posts
  BY <1>1, <1>2 DEF OneSignup
<1>3. CASE BuildComplete
  <2>1. signup.posts = <<>> /\ 5 \in built'
    BY <1>3 DEF BuildComplete, OneSignup, Shown
  <2>2. Len(signup'.posts) <= 1
    BY <1>3, <2>1 DEF BuildComplete, Call
  <2> QED
    BY <2>1, <2>2 DEF OneSignup
<1> QED
  BY <1>2, <1>3, Posts

-----------------------------------------------------------------------------
(* Theorems.                                                               *)

\* The inductive invariant holds in every reachable state.
THEOREM Inductive == Spec => []IInv
<1>1. IInv /\ [Next]_vars => IInv'
  BY TypeStep, NavigatedStep, SignupStep, RequestsStep DEF IInv
<1> QED
  BY InitIInv, <1>1, PTL DEF Spec

\* Every variable of the sign-up keeps its type and every memo is coherent.
THEOREM TypeCorrect == Spec => []TypeOK
<1>1. IInv => TypeOK
  BY DEF IInv
<1> QED
  BY <1>1, Inductive, PTL

\* No page of the sign-up is reached without the page before it.
THEOREM StepsInOrder == Spec => []NoStepSkipped
<1>1. IInv => NoStepSkipped
  BY DEF IInv, Navigated
<1> QED
  BY <1>1, Inductive, PTL

\* The Next and Previous links always belong to the page that is shown.
THEOREM LinksBelongToPage == Spec => []LinksMatchPage
<1>1. IInv => LinksMatchPage
  BY DEF IInv, Navigated
<1> QED
  BY <1>1, Inductive, PTL

\* A handler waits only for an answer that can still come.
THEOREM NobodyForgotten == Spec => []WaitersServed
<1>1. IInv => WaitersServed
  BY DEF IInv, Navigated
<1> QED
  BY <1>1, Inductive, PTL

\* signuptenant is posted at most once.
THEOREM SignsUpOnce == Spec => []OneSignup
<1>1. IInv => OneSignup
  BY DEF IInv
<1> QED
  BY <1>1, Inductive, PTL

\* Whatever requests and answers cross, one account is used throughout.
THEOREM OneAccount == Spec => []AccountsAgree
<1>1. IInv => AccountsAgree
  BY DEF IInv
<1> QED
  BY <1>1, Inductive, PTL

\* The sign-up implements a value that is written once: the tenant's account.
THEOREM AccountRefines == Spec => AccountWrittenOnce
<1>1. Init => AccountOnce!Init
  BY DEF Init, AccountOnce!Init
<1>2. IInv /\ [Next]_vars => [AccountOnce!Next]_tenantAccount
  BY AccountChange DEF IInv, AccountOnce!Next, AccountOnce!Write
<1> QED
  BY <1>1, <1>2, Inductive, PTL DEF Spec, AccountWrittenOnce, AccountOnce!Spec
===============================================================================
