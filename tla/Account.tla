-------------------------------- MODULE Account --------------------------------
(***************************************************************************)
(* The address of the company, on the account's page: it is shown, and     *)
(* changed in a form that has the backend verify what is typed.            *)
(*                                                                         *)
(* The form and the page share a model of the tenant, whose address is     *)
(* that of the account until something is typed: what is typed is what the *)
(* page shows, whether it is posted or not.  Each time the tab with the    *)
(* plan is shown, one more control is made on the same part of the page:   *)
(* all of them act on the links in it, so that an update is posted once    *)
(* by each, and the last one's form is seen.  A part of the address        *)
(* that is checked on the spot is valid at once; one that is checked when  *)
(* nothing was typed for 300 ms makes the tenant invalid until then.  The  *)
(* backend is asked whenever the tenant becomes valid.                     *)
(***************************************************************************)
EXTENDS OnePage

CONSTANTS Streets,      \* parts that are checked late: the street, the city, the zip code
          States,       \* parts that are checked on the spot: the state
          Deliverable,  \* the addresses that the backend knows
          FirstAddress, \* the account's address at first
          MaxInfos      \* bound: controls made on the part of the page with the address

Addresses == [street : Streets, state : States]

ASSUME AccountAssumption ==
  /\ Deliverable \subseteq Addresses /\ FirstAddress \in Addresses
  /\ MaxInfos \in Nat \ {0}

VARIABLES
  contact,  \* the account's address, at the backend
  account,  \* the address in the model of the account, which the tenant is made of;
            \* it is not shown
  stage,    \* how far the page has come: "none", "asked", "read" or "shown"
  opened,   \* number of the request sent when the page was opened
  infos,    \* number of controls made since
  tenant,   \* the address in the model of the tenant, which is the one shown
  valid,    \* the tenant is valid
  timer,    \* nothing was typed for less than 300 ms
  form,     \* number of the form in which it is typed; 0 while there is none
  verdict,  \* the form is valid
  wrong,    \* it says that the address is not one
  checks,   \* questions whether an address is one that are not answered
  verified, \* number of this form's last question
  told,     \* history: the answers since then: "nothing", "newest" (that alone) or
            \* "mixed" (an earlier one, or a part was changed that is not asked for)
  updates,  \* changes of the address that are not answered
  unsaved   \* history: since an update was last posted with none open, or the page
            \* was opened with none open, something was typed or an update refused

formVars == <<form, verdict, wrong, checks, verified, told>>
accountVars == <<contact, account, stage, opened, infos, tenant, valid, timer, formVars, updates,
                 unsaved>>

AccountInit ==
  /\ contact = FirstAddress /\ account = FirstAddress /\ stage = "none" /\ opened = 0
  /\ infos = 0
  /\ tenant = FirstAddress /\ valid = FALSE /\ timer = FALSE
  /\ form = 0 /\ verdict = FALSE /\ wrong = FALSE
  /\ checks = {} /\ verified = 0 /\ told = "nothing"
  /\ updates = {} /\ unsaved = FALSE

-----------------------------------------------------------------------------
(* The page.                                                               *)

\* It is opened: the account is asked for.
OpenAccount ==
  /\ OpenPage("account")
  /\ stage' = "asked" /\ opened' = sent'
  /\ form' = 0 /\ verdict' = FALSE /\ wrong' = FALSE /\ verified' = 0 /\ told' = "nothing"
  /\ unsaved' = (updates # {})
  /\ UNCHANGED <<contact, account, infos, tenant, valid, timer, checks, updates>>

AccountRead ==
  /\ page = "account" /\ stage = "asked"
  /\ stage' = "read" /\ account' = contact
  /\ UNCHANGED <<pageVars, contact, opened, infos, tenant, valid, timer, formVars, updates, unsaved>>

\* Mutant of AccountComes: the tenant of an earlier visit stays.
AccountComesOnly ==
  /\ page = "account" /\ stage = "read"
  /\ stage' = "shown" /\ infos' \in 1..MaxInfos
  /\ valid' = FALSE /\ timer' = FALSE
  /\ UNCHANGED <<pageVars, contact, account, opened, tenant, formVars, updates, unsaved>>

\* The account comes, and a tenant is made of it.  The tab with the plan is loaded
\* both when the page is opened and then: there may be several controls at once.
AccountComes ==
  /\ page = "account" /\ stage = "read"
  /\ stage' = "shown" /\ infos' \in 1..MaxInfos
  /\ tenant' = account /\ valid' = FALSE /\ timer' = FALSE
  /\ UNCHANGED <<pageVars, contact, account, opened, formVars, updates, unsaved>>

\* The user goes to another tab, such as that of the payment method, and back.  The
\* address is shown anew as the tenant has it, without the form.
ShowAgain ==
  /\ page = "account" /\ stage = "shown" /\ infos < MaxInfos
  /\ infos' = infos + 1 /\ form' = 0
  /\ UNCHANGED <<pageVars, contact, account, stage, opened, tenant, valid, timer, verdict, wrong,
                 checks, verified, told, updates, unsaved>>

\* The link to change it is pressed, and the form is built, by each control in turn
\* in place of the one before.  The model has the questions of the last one, which
\* is the one that says what it is told.
ChangeAddress ==
  /\ page = "account" /\ stage = "shown" /\ form = 0
  /\ Send
  /\ form' = sent' /\ verdict' = FALSE /\ wrong' = FALSE /\ verified' = 0 /\ told' = "nothing"
  /\ UNCHANGED <<page, contact, account, stage, opened, infos, tenant, valid, timer, checks, updates,
                 unsaved>>

-----------------------------------------------------------------------------
(* The form.                                                               *)

\* The tenant becomes valid with the address a: the form asks whether it is one.
Verify(a) ==
  /\ Send
  /\ valid' = TRUE
  /\ checks' = checks \cup {[no |-> sent', form |-> form, address |-> a]}
  /\ verified' = sent' /\ told' = "nothing" /\ wrong' = FALSE
  /\ UNCHANGED <<form, verdict>>

Typing == page = "account" /\ form # 0

\* Mutant of TypeStreet: the form stays as valid as it was.
TypeStreetValid(x) ==
  /\ Typing /\ x # tenant.street
  /\ tenant' = [tenant EXCEPT !.street = x]
  /\ timer' = TRUE
  /\ unsaved' = TRUE
  /\ UNCHANGED <<pageVars, contact, account, stage, opened, infos, valid, formVars, updates>>

\* A part that is checked late is typed.
TypeStreet(x) ==
  /\ Typing /\ x # tenant.street
  /\ tenant' = [tenant EXCEPT !.street = x]
  /\ valid' = FALSE /\ timer' = TRUE
  /\ verdict' = (verdict /\ ~valid)
  /\ unsaved' = TRUE
  /\ UNCHANGED <<pageVars, contact, account, stage, opened, infos, form, wrong, checks, verified, told,
                 updates>>

\* A part that is checked on the spot is chosen.  If the tenant was valid before,
\* the backend is not asked.
TypeState(x) ==
  /\ Typing /\ x # tenant.state
  /\ tenant' = [tenant EXCEPT !.state = x]
  /\ unsaved' = TRUE
  /\ \/ /\ timer /\ UNCHANGED <<pageVars, valid, formVars>>
     \/ /\ ~timer /\ ~valid /\ Verify(tenant') /\ UNCHANGED page
     \/ /\ ~timer /\ valid
        /\ told' = "mixed"
        /\ UNCHANGED <<pageVars, valid, form, verdict, wrong, checks, verified>>
  /\ UNCHANGED <<contact, account, stage, opened, infos, timer, updates>>

\* Nothing was typed for 300 ms: the tenant is valid, which the form asks about if
\* it was not so before.
Pause ==
  /\ timer /\ timer' = FALSE
  /\ \/ Typing /\ ~valid /\ Verify(tenant) /\ UNCHANGED page
     \/ (~Typing \/ valid) /\ valid' = TRUE /\ UNCHANGED <<pageVars, formVars>>
  /\ UNCHANGED <<contact, account, stage, opened, infos, tenant, updates, unsaved>>

\* The answer is what the form says, whatever was typed meanwhile.
CheckAnswered(q) ==
  /\ checks' = checks \ {q}
  /\ IF q.form = form
     THEN /\ verdict' = (q.address \in Deliverable)
          /\ wrong' = (wrong \/ q.address \notin Deliverable)
          /\ told' = IF q.no = verified /\ told = "nothing" THEN "newest" ELSE "mixed"
     ELSE UNCHANGED <<verdict, wrong, told>>
  /\ UNCHANGED <<pageVars, contact, account, stage, opened, infos, tenant, valid, timer, form, verified,
                 updates, unsaved>>

\* Nothing is done about a failure.
CheckFails(q) ==
  /\ checks' = checks \ {q}
  /\ UNCHANGED <<pageVars, contact, account, stage, opened, infos, tenant, valid, timer, form, verdict,
                 wrong, verified, told, updates, unsaved>>

-----------------------------------------------------------------------------
(* Updates.                                                                *)

\* The address is posted by each control, whatever the form says of it.
Update ==
  /\ Typing
  /\ Send
  /\ updates' = updates \cup {[no |-> sent', by |-> i, opened |-> opened, address |-> tenant,
                              done |-> FALSE] : i \in 1..infos}
  /\ unsaved' = (updates # {})
  /\ UNCHANGED <<page, contact, account, stage, opened, infos, tenant, valid, timer, formVars>>

\* The backend carries u out.
UpdateCarriedOut(u) ==
  /\ ~u.done
  /\ contact' = u.address
  /\ updates' = (updates \ {u}) \cup {[u EXCEPT !.done = TRUE]}
  /\ UNCHANGED <<pageVars, account, stage, opened, infos, tenant, valid, timer, formVars, unsaved>>

\* The page shows the tenant's address of this moment, in place of the form.
UpdateAnswered(u) ==
  /\ u.done
  /\ updates' = updates \ {u}
  /\ IF u.opened = opened THEN account' = tenant /\ form' = 0 ELSE UNCHANGED <<account, form>>
  /\ UNCHANGED <<pageVars, contact, stage, opened, infos, tenant, valid, timer, verdict, wrong, checks,
                 verified, told, unsaved>>

\* u is refused, or its answer is lost.
UpdateFails(u) ==
  /\ updates' = updates \ {u}
  /\ unsaved' = (unsaved \/ ~u.done)
  /\ UNCHANGED <<pageVars, contact, account, stage, opened, infos, tenant, valid, timer, formVars>>

\* What an open dialog covers.
AccountClicks ==
  \/ ChangeAddress \/ Update
  \/ \E x \in Streets : TypeStreet(x)
  \/ \E x \in States : TypeState(x)

AccountRest ==
  \/ OpenAccount \/ AccountRead \/ AccountComes \/ ShowAgain \/ Pause
  \/ \E q \in checks : CheckAnswered(q) \/ CheckFails(q)
  \/ \E u \in updates : UpdateCarriedOut(u) \/ UpdateAnswered(u) \/ UpdateFails(u)

AccountNext == AccountClicks \/ AccountRest

UpdatesTo(n) == [no : 1..n, by : 1..MaxInfos, opened : 0..n, address : Addresses, done : BOOLEAN]

AccountTypeOK ==
  /\ {contact, account, tenant} \subseteq Addresses
  /\ stage \in {"none", "asked", "read", "shown"} /\ opened \in 0..sent
  /\ infos \in 0..MaxInfos
  /\ valid \in BOOLEAN /\ timer \in BOOLEAN
  /\ form \in 0..sent /\ verdict \in BOOLEAN /\ wrong \in BOOLEAN
  /\ checks \subseteq [no : 1..sent, form : 0..sent, address : Addresses]
  /\ verified \in 0..sent /\ told \in {"nothing", "newest", "mixed"}
  /\ updates \subseteq UpdatesTo(sent)
  /\ unsaved \in BOOLEAN

\* What the form says of an address is what the backend says of the one it has now,
\* not of one that was typed before: when the last question is answered, and nothing
\* is waiting to be asked, the two agree, unless an earlier question was answered
\* since or a part was changed that is not asked for (company_info_form.coffee:72-81).
VerdictIsTheAddress ==
  page = "account" /\ form # 0 /\ told = "newest" /\ ~timer =>
    verdict = (tenant \in Deliverable) /\ wrong = ~verdict

\* The address shown is the backend's, unless it is not saved: however often the page
\* and its tab are left and shown again, and in whatever order the updates that each
\* control posts are carried out, answered or lost, what was posted last is what both
\* have.  What is typed and not posted, posted while another update is open, or
\* refused, is shown all the same (account_index.coffee:70-85, tenant_info.coffee:27-60).
AddressIsSaved ==
  page = "account" /\ stage = "shown" /\ updates = {} /\ ~unsaved => tenant = contact
===============================================================================
