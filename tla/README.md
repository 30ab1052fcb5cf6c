# T-Mobile @Work: a TLA+ verification project

The repository is the browser side of *T-Mobile @Work* ("HBS"), a hosted
telephone system for small companies: a single-page application in CoffeeScript
on CanJS 2.0.3, jQuery and RequireJS. Customers buy a plan and sign up with it;
administrators then configure numbers, users, groups and settings. The backend,
everything below `/bss/`, is not in the repository; `models/*/fixture` holds
mock answers for it.

This directory holds TLA+ models of the parts where the order of events decides
what happens, TLC configurations that check them, and proofs of their main
properties for TLAPS.

## The system

One thread of JavaScript runs handlers to completion. What makes it concurrent
is everything a handler starts and does not wait for: requests to the backend,
loads of page modules, 300 ms debounces, the frame of the credit card form. Their
answers run later, in any order, after the visitor has done something else. A
request may also never be answered usefully: it fails, or its answer is the code
1009 (access key expired), which the wrapper of `$.ajax` swallows.

| Component | State | Operations | Hard part | Correct when |
|---|---|---|---|---|
| **Onboarding** `pages/onboard`, `models/shopping_cart`, `models/credit_card` | the URL hash, `curr_step`, `options.page`, `controller_cache`, the tenant, four static requests that are sent once | `switch_sub`, the Next and Previous links, answers, debounce | loads and answers in any order; handlers that throw; Deferreds shared by everything that waits | no page is skipped, one account, one sign-up, the links belong to the page shown, nobody waits for ever |
| **Number reservation** `modules/company_main_selector`, `number_selector_search_form`, `models/phone_number` | `main_number`, the search form, reservations at the backend | automatic reservation, search, select, reserve, unreserve | two reservations under way at once, answers lost, failed releases | the number ordered is reserved, a number that is replaced is handed back |
| **Configuration page** `pages/config`, `modules/config_edit_item*`, `add_call_group`, `models/directory` | the directory, the items listed, open warnings, the dialog | load, tab, delete, unassign, assign, new user, new group | indices used after the list has changed; loads that overtake one another; two handlers on one click | a confirmation acts on what it was shown on; the page ends with what the backend has |
| **Developers' test runner** `cross-runner` | `running`, `in_debt` | watch, test, close | changes while the tests run | every change is tested, the result published is that of the latest sources |
| **Routing** `pages/routes`, `bases/page` | `page.main`, `page.curr` | hash changes, module loads | a navigation overtakes another; `page.main` is recorded before anything is loaded | the page shown is that of the URL |
| **Session** `models/auth`, `bases/model` (`$.ajax`) | access info in memory and in `localStorage`, `logged_in`, the place to return to | check, login, logout, keepalive, expiry | checks and requests that end late, several tabs | without a session no protected page is the URL; a login leads back |
| **Account page** `pages/account`, `modules/tenant_info`, `company_info_form` | the account, a tenant made of it that is shown, the controls on one part of the page, `valid`, the form's validity | open, show a tab again, change, type, verify, update | the backend's verdict is late, and is not asked for after every change; each control posts every update | the verdict is on the address in the form; the address shown is the backend's, unless it is not saved |
| **Wizard** `pages/wizard`, `modules/wizard_edit_form` | the lines with their phones and numbers, `old_didid` of each form, open dialogs | steps, phones, reserve and give back, review, order | each step is loaded late and built anew at each visit and posts again; dialogs outlive their step | no number stays reserved that nobody has; the charges shown are for the phones shown |
| **Call groups of a line** `modules/add_to_call_group`, `config_edit_item/line`, `models/group` | the groups the line was in, the boxes, additions and deletions | open, tick, save | boxes come late; several requests of one save, one of which fails; the page is rendered anew under the dialog | what the boxes show is saved, the page ends with what the backend has |
| **Groups** `pages/group_settings`, `modules/group_member_selector_form`, `models/group` | one model of the group for each visit, and the one in the store; the rows of the members; dialogs; the option | open, drag, save, add, delete, press a tab | answers are merged into the store's model, under rows that are not rendered anew and dialogs that have the list of another moment | the order saved is the one seen; what the page has is what the backend has |
| Settings `pages/settings`, `modules/settings`, `modules/dnd_form`, `models/settings` | forms and switches | submit, turn | the page that would build them is an empty file | |
| **Validation** `bases/model`, `models/tenant` | `__valid`, `valid`, the debounce | validate, server validation | a late answer about an earlier value | as on the account page |
| **Plans** `pages/plans`, `modules/plan_selector`, `models/plan` | the plan selected, its total | select | last answer wins | the total is the price of the selection |
| Passwords `pages/auth`, `pages/setup_password`, `pages/security_questions` | forms | submit | 1009 in a branch that is never reached | |
| Widgets `modules/item_list`, `tab`, `toggle`, `slider`, `dt_dialog`, ... | DOM | | little state of their own | |

Third-party code (`libs`, `include`, `node_modules`, `bin`, `lib`, `share`; the
top-level `README.md` and `ChangeLog` are Node's) is not part of the system.

`PROJECT.json` lists the components with their status and, under `hazards`, what
in this code a test would hardly reach, line by line.

## Modules

| Module | Models | Extends |
|---|---|---|
| `Memo` | a request that is sent once and remembered | |
| `Onboarding` | the five sign-up pages | `Memo`; instantiates `WriteOnce` |
| `WriteOnce` | abstract: a value set at most once | |
| `MCOnboarding` | `Onboarding` for TLC | `Onboarding` |
| `NumberReservation` | the main number of an order | instantiates `NumberLife` |
| `NumberLife` | abstract: what becomes of a number | |
| `MCNumberReservation` | the same with interchangeable numbers | `NumberReservation` |
| `ConfigPage` | the administrator's configuration page | |
| `MCConfigPage` | the same with two users, two bundles and a group | `ConfigPage` |
| `Shell` | routing and the session of one tab | |
| `MCShell` | the same with six places | `Shell` |
| `CallGroups` | the dialog that ticks a line's call groups | |
| `MCCallGroups` | the same with interchangeable groups | `CallGroups` |
| `OnePage` | which page is shown, and the requests they share | |
| `GroupSettings`, `Plans`, `Wizard`, `Account` | one page each | `OnePage` |
| `Pages` | these pages together in one tab | the four |
| `MCPages` | the same for TLC | `Pages` |
| `MCWizard` | the wizard as the only page that sends anything, for TLC | `Wizard` |
| `TestRunner` | the developers' test runner | |
| `MemoProofs`, `OnboardingProofs`, `NumberReservationProofs`, `ConfigPageProofs`, `ShellProofs`, `CallGroupsProofs`, `PagesProofs`, `TestRunnerProofs` | the theorems | the module and `TLAPS` |

Definitions whose comment begins with "Mutant of" are changed copies of an
action. Nothing uses them; `PROJECT.json` says which property each one breaks
when it is put in the place of the original.

### Memo

`ShoppingCart.create_account`, `review_order`, `signup_tenant` and
`CreditCard.promise_form` are written alike: unless an answer is cached, post;
when an answer comes, cache it and resolve one static Deferred. So calls made
before the first answer each post a request, but everybody sees the first answer.
A memo is a record of the requests posted, those not answered, the cached one and
the one the Deferred was resolved with. None of the four has a fail handler: a
request that fails is one that stays open.

### Onboarding

The state is the URL (`hash`, `visited`, `loading`), what is shown (`curr`,
`page`, `built`), the tenant, the memos, and who waits for what. An action is one
run of a handler to its end:

- `Goto` is a change of `location.hash`, which starts `require` of the page's
  module; `ShowPage` and the `Build...` actions are `require`'s callback in
  `switch_sub`, for a page of the cache and for a new one with all its `init`
  does. The loads of `require` end in any order.
- the `Next...` actions are a press of the Next link, one for each path through
  the two click handlers, the page's `on_next` and `validate`. A handler that
  throws does not return `false`, so the link is followed: with no page yet
  (`NextFromNowhere`), no number (`NextThrows`), no card form
  (`NextWithoutForm`), no agreement (`NextFromReview`).
- the `...Answered` actions and `CardAccepted`, `CardRefused` are the answers. A
  handler that waited sets the hash to the link's `href` as it was when pressed.
- `EditTenant`, `NumberArrives`, `Debounced`, `Agree` are the customer and page
  2's listeners. `number` only says whether there is a main number: where it comes
  from is `NumberReservation`.

Left open: whether the forms of pages 1 and 3 are valid (both outcomes are
possible at any time). `dirty' \in {dirty, TRUE}` stands for the builder of a
request copying the administrator's email into the tenant, which is a change only
if it was another one. The URL is not edited by hand, and the alias `index` of
`step_1` is not told apart from it. Nobody presses a link that is not rendered:
Previous is on pages 2 to 4, Next on pages 1 to 4.

### NumberReservation

`owner` is the backend's view of each number. A reservation has two steps, the
backend's decision and the browser's callback, so that another reservation, a
release or another customer comes between. The automatic reservation of `init`
is `auto`; the dialog's are `asks` and `grants`. The two dialogs (local and
toll-free) share everything that matters here and are one form. `leaked` is a
history variable: numbers the order holds at the backend that no code will ever
release, because an answer was lost, a release failed, or `unreserve_number`
threw on an undefined `main_number`.

`NumberLife` is what this comes to for a single number: free or another customer's,
granted, in use, returning, or stranded for good. The refinement mapping `LifeOf`
reads a number's life off its role. That the roles are right in every state
(`HeldAccounted`, `RolesDisjoint`) does not say how a number goes from one to
the next; `NumbersLive` does: only a granted number takes the place of the one in
use, which is returned from that step on, and a number that is held becomes free from
there only.
`ReplacedIsReleased` is that much of it; no run checks it beside `NumbersLive`, and it
is proved.

### ConfigPage

`backend` is the company directory at the backend: who has which bundle (line) and
which groups exist. `directory`, `lines`, `items` and `sub` are the page's copy
(`options.directory`, the bundles of its users), what it lists, and the tab. A
load is asked for (`LoadAll`), reads the backend (`Read`) and is answered
(`LoadDone`: the directory is replaced, which triggers `{directory} length`, which
filters it into `items`). A write is posted by a handler, carried out
(`Accept`) and answered (`Done`, `Fail`), where the handlers differ: assignments
load again after success and failure, deletions and new groups only after
success.

- Replacing or splicing `items` renders the list again (`Render`), and with it
  the warnings are gone. That is why an index stays right, and `ConfirmedIsShown`
  checks it. The overlay that should block the other items while a warning is open
  has no size on this page (its style is only given under `.item_list_editable`), so
  several warnings can be open.
- A click on the Yes of a warning over a user runs two handlers (`ConfirmDelete`),
  the item's first. For a group the item's handler throws, for it has no bundles,
  and the list's runs all the same. A click on the Yes of a line runs only the
  item's: it renders the lines anew, so the link is out of the document when the
  event reaches the list (`ConfirmUnassign`).
- The dialog that assigns a bundle is modal, hence `dialog = None` in the other
  actions, but an answer may still render the page under it; its `choices` are
  those of when it was rendered.
- A user is listed only through a provisioned bundle (`Present`), and the last
  one cannot be unassigned (its icon is not shown). A bundle cannot be deleted:
  the link is in a container that is never displayed.

`hidden` and `unseen` are history variables: the items deleted from the list
since it was rendered, and whether a write succeeded whose answer was lost without
a load after it. A write that failed is taken not to be carried out later; the
backend is changed by this page only.

### Shell

`hash` is the URL, a main and a sub part; `main` is `page.main`, `curr` the page
shown. `Visit` is one change of the URL: the page shown is told of another sub part
(`SwitchSub`), and another main part starts a navigation. A navigation goes through
the stages of `Auth.check` and of the load (`KeyValid`, `UserKnown`, `Built`), may
end without a page (`Fails`), or closes the session (`CheckCloses`). The latter
ends the check: the callback returns the rejected Deferred, and jQuery's `then`
waits for what a callback returns. Nothing cancels a navigation, so several are
under way and `Built` is fired in any order.

- A protected page asks for data when it is built; `DataComes` is the answer, which
  makes it show the sub part of the URL (`account_index`, `config_index`). Some pages
  load a module for each sub part (`Loading`), and the modules come in any order.
- `LoggedOut` is `logged_out`: the key goes, the place is recorded, and unless the
  visitor is at the login page the tab is loaded anew there (`Reload`).
- `requests` holds the keys of requests pages wait for; any may be answered with
  1009 (`Expired`).
- The access info in memory and in `localStorage` is one `key`: in a single tab
  they differ only in an expiry date that nothing reads. The `home` page is not
  told apart from `plans`, whose page it shows.

`lost` and `overtaken` are history variables: whether the newest navigation ended
without a page, and whether an older one ended after it. In both cases the code does
leave another page than the URL's (or none), and going there again does not help,
since `page.main` is recorded first; `UrlIsShown` says that nothing else does.
`told` says whether the page shown has been told of the URL's sub part: a page whose
load began before the sub part changed, and which asks for no data, is not.

### CallGroups

`dialog` is the dialog of one line: the rendering of the page it belongs to
(`line`), the line's groups when it was opened (`members`, the code's
`group_members`), the boxes and the ticks in them, and `add_items` and
`delete_items` (`adds`, `dels`).

- `Open` reuses the dialog of this rendering, with the boxes it has: they are
  rendered when the list of groups comes (`ListComes`), until then they are those
  of the last opening. A rendering after a load makes new lines, without a dialog;
  an open one stays.
- `Tick` and `Untick` note the change, and drop what `_.filter` returns.
- `Save` posts one request for each change. `Accept` is the backend's part;
  `Answered` and `Failed` are `$.when`'s: the last success or the first failure
  closes the dialog and loads the directory (`Settle`).

The conference is not among the boxes and not among `Groups`. Any request may be
refused or its answer lost; `delete_group_members` is given a string, which it
stringifies again (`add_to_call_group.coffee:33`, `group.coffee:83`), so it depends
on the backend whether it ever accepts a deletion. Adding a group the line is in, or
taking it from one it is not in, changes nothing. The backend is changed by this
dialog only. `unseen` is a history variable: a request was carried out whose answer
came when its save was settled already by another's failure, and nothing was loaded
since. The code does leave an old page then.

### Pages

`Pages` is the pages that go neither through the sign-up nor through the directory:
`Next` is a step of one of the four modules, or the way to any other page
(`Elsewhere`). A modal dialog covers what can be clicked on any page (`...Clicks`),
and neither the browser's history nor answers (`...Rest`); the dialogs are made outside
the page and are still there when it has been left (`Covered`). Only one page is shown (`page`), but a page that is left leaves its
requests behind: they are carried out and answered while another is shown, or the
same one built anew. `sent` numbers requests, pages and steps, so that an answer
knows the page or form that asked. Of each kind of request the backend carries out
(`...CarriedOut`) or reads first and answers later, and any request may be refused
or its answer lost. The backend is changed by this tab only. The shell's checks and
late loads are not repeated here: a page is simply opened.

**GroupSettings.** `ring` and `option` are the backend's. A page has a model of its
own; but `can.Model.model` gives the answer's data to the model that the store has
for the group's id, merging them without removing anything (`Merged`), and
`set_promise` then makes the page's model equal to that. So `group` is the store's
model, and `owner` the visit whose page's model it is; `Build` renders from it.
`rows` are what is rendered: `id` is the attribute that Save reads, `at` the model
that the row's button deletes. A longer list renders them anew, without `sortable`
(`canSort`); other merges change the names shown and leave `id` (`merged` is the
history of that). `Save` posts the order and asks for the settings in one handler.
Each press of the link makes one more form to add a member, and nothing covers the
link until its users have come (`OpenDialog`, `UsersCome`), so there may be several
`dialogs`. The `list` of a form is the model's of the moment of the press; answers to
the settings change it in place, an addition or deletion puts another list into the
model and leaves the form with its own (`live`). A dialog adds to the model of the visit
it was opened in, also when another page is shown. Left out: several users added at
once, and the recordings. A page whose model waits for its first answer is not left for
another group page, and another page's load of the directory (`DirectoryComes`) puts a
model of the group without members into the store.

**Plans.** The selector is built with three lines and the one-month period, whose
product is known when the list of plans has come. Each change asks for a price, and
`attr_promise` makes whatever is answered the total. When the list comes the code
asks twice for the same price; this is one question here. The slider's range, which
changes with the product, is not modelled.

**Wizard.** The buttons (`Continue`, `Back`, `Confirm`), the history and a typed address
(`Jump`) change the address, which starts `require` of the step's module (`Follow`).
Until it comes (`Loaded`), the step before is shown, with its links, and another
address may be followed; a module that has been loaded once is there within
milliseconds, and its step is built at once. `BuildStep1` takes the number that a line
has at this moment as the one to be replaced (`old_didid`); `Reserved` gives back the
number before, unless it is that one. `BuildStep2` asks for a summary; `BuildStep3`
posts the order, of the lines as they are then. The disabled Confirm, before the summary
has come, is followed too (`ConfirmEarly`): its handler throws as on page 4 of the
sign-up. The dialogs that choose a phone or a number (`picking`) are outside the steps,
which are only hidden: one that is open when the history is used changes its line
whatever step is shown (`ChoosePhone`, `Choose`), and `Reserved` closes the one of its
form. `late` is the history of a phone that was chosen so. The wizard is opened once, at
its first step, and the load of its lines is part of that.

**Account.** The form and the page share the tenant: what the page shows is the tenant,
with whatever was typed into it; the account's own address (`account`) is only what a
tenant is made of when the page is opened. The tab with the address makes one more
control on the same element each time it is shown (`infos`, `ShowAgain`), twice already
when the page is opened if the account comes late; all of them react to the links in
it, so `Update` posts one request for each. `ChangeAddress` builds a form for each, in
place of the one before, all about the same tenant: the last one is the form here. A
change of a part that is checked late (`TypeStreet`) makes the tenant invalid for 300 ms
(`timer`, `Pause`); of one that is checked on the spot (`TypeState`) does not, so a
tenant that was valid is not verified again. `Verify` is the question to the backend, and
`CheckAnswered` takes any answer for the form's. `Update` does not look at the form's
validity, for its button is not disabled by it. What is typed passes the rules of single
fields; the other pages of the account, an account without an address, and the change of
the name, which goes beside that of the address, are left out.

The history variables say when the code gives no such guarantee, and the properties
that nothing else breaks it: `mixed` (requests of the group page overlapped or failed, or
an earlier visit's dialog added), `merged`, `kept` (a release or an answer was lost, step
1 was built after a number was chosen, an order was posted while one was being chosen, or
a second one was), `late`, `told` (answers came late, or a part was changed that is not
asked for) and `unsaved` (something was typed and not posted, posted while an update was
open, or refused). That they are needed is what the code does: a ring order may be read
before it is changed, a total may be an older answer's, a number chosen before going back
to step 1 and replaced there stays reserved, an address that was refused is shown until
the page is opened again. The hazards that are excluded so are listed in `PROJECT.json`
without a property, each with a note that says which property leaves it out.

### TestRunner

`test` is called by `run` and by the watcher; `Close` is the child's `close`
event. A version counts the changes, and a run tests the version it was started
at or a later one. `notify` is recorded as the version of the published result
(`reported`); the published text itself is not modelled: line 59 of
`win32.coffee` uses CoffeeScript's existential `?` as if it were JavaScript's
conditional, so `color` is a Boolean and the message is never the output.

## Runs

| Run | Checks | Shows |
|---|---|---|
| `number_reservation` | `TypeOK` `HeldAccounted` `RolesDisjoint` `MainIsHeld` `AutoNeverOverwrites` `NumbersLive` | whatever the order of grants, answers and releases, the number the order shows is reserved and not being released; every number held at the backend is in one known role, and a replaced one is released; the reservation refines `NumberLife` |
| `onboarding` | `TypeOK` `NoStepSkipped` `LinksMatchPage` `OneSignup` `AccountsAgree` `WaitersServed` `AccountWrittenOnce` | the navigation of the sign-up, its requests and its waiting handlers; the tenant's account refines `WriteOnce` |
| `onboarding_agreement` | `SignupNeedsAgreement`, violated | the sign-up is posted with the terms not accepted |
| `onboarding_change` | `ChangeTriggersCreate`, violated | a change of the tenant is marked as sent and never sent |
| `config_page` | `TypeOK` `ShownIsDirectory` `ConfirmedIsShown` `SettledIsCurrent` | with writes and loads in flight, in any order, lost or refused: the list is the filtered directory but for items being deleted, a confirmation acts on what its warning was drawn on, and when all has settled with the newest load the page shows the backend's data |
| `config_page_lines` | `UnassignConfirmed`, violated | confirming the deletion of a user also takes a line from that user |
| `shell` | `TypeOK` `UrlIsShown` `SubIsShown` `ClosedIsOutside` | with navigations, loads, logins and expired requests in any order: the page that ends up shown is the URL's unless the newest navigation was lost or overtaken; its sub page is the URL's when it was told of that; without a key the URL is outside the protected pages |
| `shell_login` | `LoginLeaves`, violated | a visitor logs in and is left at the login form |
| `call_groups` | `TypeOK` `ShownIsNoted` `RequestsAgree` `SettledIsCurrent` | with requests, lists of groups and loads in any order, refused or lost: what the boxes show is noted, the requests of one save do not contradict each other, and when all has settled with the newest load the page has what the backend has |
| `pages` | `TypeOK` `RowsAreMembers` `SettledIsBackends` `TotalIsThePlans` `VerdictIsTheAddress` `HeldIsChosen` `SummaryIsCurrent` `AddressIsSaved` | pages opened, left and opened again, steps that come late, dialogs left open, with what is sent refused, lost or answered late in any order: the ring order saved is the one seen, a group page that is settled has what the backend has, the total is the selection's, the verdict is on the form's address, no number stays reserved that is not chosen, the second step shows no charges for phones that were changed before it was built, and the address shown is the backend's unless it is not saved |
| `wizard_order` | `OrderIsAsConfirmed`, violated | an order is confirmed and another one is posted |
| `test_runner` | `TypeOK` `OneRun` `NothingForgotten` `LatestReported` `EveryChangeTested` | one run at a time, no change forgotten, the latest result reported, and every change tested in the end |

Bounds. `NumberReservation`: three numbers (one in use, one coming in its place,
one more), interchangeable, two undecided reservations of each and one search in
flight: more add no new overlap, as the callbacks do not look at counts.
`Onboarding`: two requests of each kind, since the memo tells the first answer
from the others, and one load of each page in flight, since RequireJS runs all
callbacks of a module when it has come and the callbacks of one page do the same.
`ConfigPage`: two users, two bundles and one group besides the main line, so that a
user can have two lines, one or none and indices can differ; the tabs "all" and
"users" (the other tabs are filters of the same kind); three writes and three
loads, so that a double click's two writes meet a third, and two loads can overtake
each other after a first.
`Shell`: the login page, two protected pages with two sub parts each (one loads
modules for them, one does not) and an open page; four navigations, so that after a
first page two can overtake each other and a third can follow; three changes of the
sub page; one key, as no handler compares keys, and one login at a time.
`CallGroups`: two interchangeable groups, so that one save has an addition and a
deletion, or two of a kind; two changes, two lists and two saves, so that an old list
comes after a new one, and two saves' requests and loads overlap.
`Pages`: five requests, pages and steps together, four of them of the group page: a
page is opened, two requests of it overlap, and the page is left and built again
with both open. Two members and one more user, three options one of which cannot be
taken, two line counts and two products; two streets and two states, of whose four
addresses two are deliverable, and two controls, so that each update is posted twice. The
account's page is opened before the others, and again after them, or not at all
(`AccountFirst`). Four requests
and steps of the wizard: each step is shown, or one of them again, or two numbers are
reserved and one given back; one line with three numbers (its own, one chosen, one in its
place) and two phones. The lines of the wizard differ in nothing but their numbers. A page
is opened (`OpenPage`) only if something can still be sent. `wizard_order` has five
requests and steps of the wizard, and no other page that sends anything.
`TestRunner`: twelve changes; the debt is a flag, so the third change during a run
meets the same state as the second.

Deadlock is not checked in the runs of `Onboarding`, `ConfigPage`, `Shell`,
`CallGroups`, `Pages`, `Wizard` and `TestRunner`: all but the last stop when a
bound is used up, that one when the sources are not changed any more.

Fairness. Only `TestRunner` assumes any, `WF_vars(Close)`: a test process ends.
The pages give no guarantee of the kind: there is no retry, a failed request is
never answered, and the customer may do nothing at all, so no liveness is stated
of them. What a waiting handler needs instead is safety: `WaitersServed` says it
waits only on something still to come.

## Findings

- **The sign-up without the agreement.** Page 4 shows the agreement when the
  summary has come. `'.step_button.disabled_js click'` calls `validate`, which
  reads `options.agreement.validity()` (`onboard_step_4.coffee:43`): before that
  it throws, the handler does not return `false`, the link is followed, and page 5
  posts `signuptenant`. `agreement.coffee:12-13` tells the customer "You are
  required to our Terms of Service".
- **A change that triggers nothing.** `onboard_step_2.coffee:25` says "change in
  tenant information, trigger createaccount". After the first answer
  `create_account` returns the cached account: `on_next` marks the change as sent
  and no request carries it. `signuptenant` carries it later, but the summary of
  page 4 is priced without it.
- **Deleting a user takes a line first.** `config_edit_item.coffee:98` handles
  `.item_warning .confirm_warning_js` for the lines ("#remove bundle"), but the
  warning over a whole user (`config_edit_item_list.coffee:85-87`) is drawn inside
  the same element with the same classes. Its Yes splices the line whose index is
  the user's own in the list and posts `removebundleforuser` before `deleteuser` is
  posted. If the deletion is refused, the user has lost a line.
- **Logging in leads nowhere.** `auth.coffee:135` says of `logged_in`: "record the
  access info and do the redirect to the last visited page". `logged_out` records
  `window.location` as that page before it looks whether it is the login page
  (`auth.coffee:153-155`). Logged out there, by the header's link or by a request
  that is answered with 1009 late, the visitor is led from the login page to the
  login page.
- **Another order than the confirmed one.** `wizard_step_2.coffee:13` tells who confirms
  "You are configuring your lines with the information below. The phones and phone
  numbers you selected will be processed after confirmation." The third step posts the
  lines as they are when its module has come (`wizard_index.coffee:53`,
  `wizard_step_3.coffee:26-28`). Until then the second is shown with its Back link: a
  phone that is changed on the first step meanwhile is ordered, without having been
  confirmed or priced.

## Proofs

| Module | Theorems | Argument |
|---|---|---|
| `NumberReservationProofs` | `TypeOK`, `HeldAccounted`, `RolesDisjoint`, `MainIsHeld`, `AutoNeverOverwrites`, `ReplacedIsReleased`, `NumbersLive` | `IInv` is the conjunction of the invariants and `NoNumberBeforeAuto`: the automatic answer finds no number because only it can give the first one |
| `MemoProofs` | what a call and an answer do to any memo | definitions |
| `OnboardingProofs` | `TypeOK`, `NoStepSkipped`, `LinksMatchPage`, `OneSignup`, `AccountsAgree`, `WaitersServed`, `AccountWrittenOnce` | below |
| `ConfigPageProofs` | `TypeOK`, `ConfirmedIsShown`, `SettledIsCurrent`, `ShownIsDirectory`, and `SettledList` | below |
| `ShellProofs` | `TypeOK`, `UrlIsShown`, `SubIsShown`, `ClosedIsOutside` | below |
| `CallGroupsProofs` | `TypeOK`, `ShownIsNoted`, `RequestsAgree`, `SettledIsCurrent` | below |
| `PagesProofs` | every property of the run `pages` | below |
| `TestRunnerProofs` | `TypeOK`, `OneRun`, `NothingForgotten`, `LatestReported` | the three invariants together are inductive |

They hold for any set of numbers, any bound and any number of changes, under the
modules' assumptions: `NoNumber` is not a number, and the bounds are natural
numbers (positive, where a zero would forbid the step at all).

`NumberReservation` implements `NumberLife` under the same `IInv`: it gives every
role its life (`Lives`), so each step that changes an owner, the order's number, a
release or a leak is a step of one number's life, the one that replaces a number being
`Use`; the other steps leave all lives as they are.

`Onboarding`'s invariants lean on each other. A Next link leads to a page that may
be gone to because the page before it was built; that is so because the links
shown belong to the page shown (`LinksMatchPage`), because a page shown was built
(`Reached`), and because a waiting handler goes on from a page that was built
(`Reached`, `WaitersServed`). So `Reached` is added to the invariants, and the
proof has a part about navigation, where every step is a move of one of a few
kinds (`Still`, a visit, a load that ends), and a part about requests, where every
step is a call or an answer and the lemmas of `MemoProofs` apply.

`ConfigPage`'s rest on four facts. An open warning's index leads to what it was
drawn on (`Shown`), because whatever changes `items` takes the warnings away. Loads
have different numbers, none above `issued`, and the one listed is not in flight
(`Counted`). Hence the newest load, when it has read the backend, has what the
backend has now, as long as no write was accepted whose answer is still to come
(`Fresh`): such a write's answer will issue a newer load, or is recorded in
`unseen`. A line that was spliced from the page has its request in flight until a
load is issued, so `Fresh` says nothing of `lines` meanwhile.

Its `TypeOK` needs to know that a warning's index is an index of the list it was
taken from and that every request is about an item of the kind its handler deletes
(`Fits`); `ShownIsDirectory` that the directory lists nothing twice (`Listed`), so
that taking out the item at an index leaves what filtering it out would. Both are
facts about the loop that builds a list, `Kept`, and are proved by induction on the
length of the list. The library's induction theorems take an operator as a
parameter and cannot be used here; the lemma `Induction` says the same of a set of
numbers and follows from `<` being well founded on `Nat`, which is stated of sets.
Hence `Kept` is a recursive function and not the library's `SelectSeq`, whose
unfolding no prover here knows; TLC compares the two on all short lists
(`KeptIsSelectSeq` in `MCConfigPage`). `SettledList` puts the invariants together: with no write in
flight and the newest load listed, exactly the items the backend has in the tab are
listed, each once, without the hidden ones.

`Shell`'s rest on numbers. The newest navigation is the URL's, no two have the same
number, and the one that built the page shown is no longer under way (`Numbered`).
So if it ended with its page and nothing ended later, its page is shown (`Ended`).
Of the changes of the sub page only the newest can show something last, and it was
for the URL's sub part (`Told`). Only navigations of protected pages are checked
(`Checked`), so a check that closes the session at the login page never ends the
login page's own navigation.

`CallGroups`' rest on what the changes noted have to do with the groups the line was
in when the dialog was opened: additions are not among them, deletions are (`Fit`), so
one save's requests cannot contradict each other. A save that is not settled waits
for a request (`Waiting`), so when none is in flight every save has been settled and
has loaded the directory; and the newest load, or the page that shows it, has what
the backend has unless a request was carried out since (`Fresh`).

`Pages`' have an invariant for each page, and each is kept by the steps of its own
page and by the others', which leave its variables alone and send nothing with an old
number (`Moved` and the lemmas ending in `Else`). Rows that are not `merged` are a
rearrangement of the model's members (`RowInv`). Unless `mixed`, one request is open
at a time, but for the question that `Save` sends with an order, which is not read
before the order is changed (`OneByOneInv`); so the list an answer is merged into is
never longer than the answer, and the merged one is the backend's (`MembersInv`), as is
the option (`OptionInv`). That leans on whose model the store has: a page that is ready
has its own, whatever dialogs earlier ones left (`PlaceInv`). The newest question for a
price is about what is selected, as is the total if that was answered last (`PlanInv`).
What asks for a step has a number of its own, so the summary that a second step takes is
the one it asked for, and it asked for the phones that the lines still have unless a
dialog changed them (`LoadInv`, `ReviewInv`). While `kept`, a number that is held has
one holder: a line, an answer that will make it a line's, or a request to give it back
(`HolderInv`). That rests on which number a line would replace, its first, and on no
number being chosen once the lines' are ordered (`ChosenInv`). The newest question for a
verdict is about the form's address until something is typed, which either takes the
validity away or is noted in `told` (`VerdictInv`). Unless `unsaved`, every update that is
open is of the address shown, and the backend has it or will when one of them is carried
out (`UpdateInv`): so it does not matter how many controls post it, or in which order.

Only model-checked: `EveryChangeTested`, since TLAPS has no liveness under fairness,
and the violated properties.

## Not modelled

Rendering, wording and layout; the widgets, whose state is the document's; the rules
of single fields; fixtures and vendored code. `PROJECT.json` gives each component's
status. A request that fails is told apart from one that is never answered only where
the code has a fail handler. The system's own code is CoffeeScript and templates; the
JavaScript files of the repository are vendored libraries and compiled examples, which
are not modelled but for the few lines of CanJS that the group page depends on.

Four things were met on the way and no run is about them. `add_to_call_group.coffee:61`
says "filter out the group from add_items" (and `:52` of the deletions), but `_.filter`
returns a new list, which is dropped: a group that is ticked by mistake and cleared again
stays among the additions, as `Tick` and `Untick` have it, and Save adds the line to it.
`group_member_selector_form.coffee:51` says "get list of member extensions not assigned to
current group", but the list is that of the moment the link was pressed, and an addition
that is answered then leaves the form with the old one (`OpenDialog`, `MembersAnswered`):
the dialog offers the user just added. The wizard's Confirm, pressed
before the summary has come, is followed (`ConfirmEarly`): it is the sign-up's
divergence once more, and the order is posted unreviewed. `OrderIsAsConfirmed` speaks of
orders that were confirmed. And `confirm_email`
(`models/user/user.coffee:120`) checks a variable `email` that is not declared: where
the page has no global of that name the check throws, is taken for a failed one, and
the administrator's form is never valid. `Onboarding` leaves that validity open, which
includes it.

The settings page (`pages/settings/index/settings_index.coffee`) is an empty file. What
its forms and switches would do, and when, is not in the code.

Hazards without a property, in `PROJECT.json`: which changes the cached summary of the
sign-up misses; what waits for a promise that the code 1009 leaves unsettled; two tabs
on one `localStorage`; the second order of a wizard's step that is reached again; and
those that the code is seen to run into and a property leaves out by a history variable
or a condition, such as the page of an earlier navigation that replaces the later one's,
the item that stays hidden when its deletion fails, or the total that is an older
answer's.

## Plan

In this order, each with its runs and theorems:

1. `Shell` with two tabs: each caches the access info that they share in
   `localStorage`, and a late keepalive writes back what the other has removed. Its
   abstract specifications: the latest navigation wins; a session is open or closed.
2. `Shell` and `Pages` composed: a page of `Pages` is built only when its check and
   its load have ended, and is destroyed by the next.
3. What `ConfigPage` leaves out: a user's name and email, `deletebundle`, ported
   numbers; and of `GroupSettings` the recordings of a greeting.
4. The wizard's other lines and its entry at a later step, which posts an order
   without lines.
