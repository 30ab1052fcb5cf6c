--------------------------- MODULE NumberReservation ---------------------------
(***************************************************************************)
(* How an order gets its main telephone number.                            *)
(*                                                                         *)
(* The second sign-up page builds a CompanyMainSelector.  Its init asks    *)
(* the backend for a number near the customer's ZIP code and reserves it   *)
(* (the automatic reservation); a dialog then lets the customer search for *)
(* numbers and reserve another one in its place.  Every reservation and    *)
(* every release is a request to the backend, answered in any order, and   *)
(* numbers are taken and given up by other customers meanwhile.            *)
(*                                                                         *)
(* A request that asks for a number has two steps: the backend decides     *)
(* (Grant, Refuse) and, later, the browser's callback runs with the answer *)
(* (Granted) or with a transport error (GrantLost).                        *)
(***************************************************************************)
EXTENDS Naturals, FiniteSets

CONSTANTS Numbers,     \* telephone numbers (the didid of each)
          NoNumber,    \* an undefined main_number or selection
          MaxAsks,     \* bound: reservations of one number in flight
          MaxSearches  \* bound: searches in flight

ASSUME NumberAssumption == NoNumber \notin Numbers
ASSUME BoundAssumption  == MaxAsks \in Nat \ {0} /\ MaxSearches \in Nat \ {0}

VARIABLES
  owner,        \* backend: who has a number reserved
  main_number,  \* models.tenant.main_number
  auto,         \* the automatic reservation: its phase
  autoNumber,   \* ... and the number it found
  asks,         \* asks[n]: reservations of n the backend has not decided
  grants,       \* granted numbers whose answer has not reached the browser
  releases,     \* numbers whose unreserve request is in flight
  leaked,       \* history: numbers this order holds and nobody will release
  phone_list,   \* the search form's viewmodel.phone_list
  selected,     \* the search form's viewmodel.selected
  searches      \* searches in flight

vars == <<owner, main_number, auto, autoNumber, asks, grants, releases, leaked,
          phone_list, selected, searches>>

autoVars   == <<auto, autoNumber>>
searchVars == <<phone_list, selected, searches>>

Held == {n \in Numbers : owner[n] = "us"}

-----------------------------------------------------------------------------
(* The page is built: the ZIP code search is on its way.                   *)
Init ==
  /\ owner \in [Numbers -> {"free", "other"}]
  /\ main_number = NoNumber
  /\ auto = "finding"
  /\ autoNumber = NoNumber
  /\ asks = [n \in Numbers |-> 0]
  /\ grants = {}
  /\ releases = {}
  /\ leaked = {}
  /\ phone_list = {}
  /\ selected = NoNumber
  /\ searches = 0

-----------------------------------------------------------------------------
(* The automatic reservation: find_phone_number_by_zipcode.                *)

\* The search answers with an available number, which is reserved at once.
AutoFound(n) ==
  /\ auto = "finding"
  /\ owner[n] = "free"
  /\ auto' = "reserving"
  /\ autoNumber' = n
  /\ UNCHANGED <<owner, main_number, asks, grants, releases, leaked, searchVars>>

\* The backend grants the number it was asked for, if it is still free.
AutoGrant ==
  /\ auto = "reserving"
  /\ owner[autoNumber] = "free"
  /\ owner' = [owner EXCEPT ![autoNumber] = "us"]
  /\ auto' = "granted"
  /\ UNCHANGED <<main_number, autoNumber, asks, grants, releases, leaked, searchVars>>

\* No number near the ZIP code, a failed search, a refused reservation.
AutoFailed ==
  /\ auto \in {"finding", "reserving"}
  /\ auto' = "done"
  /\ autoNumber' = NoNumber
  /\ UNCHANGED <<owner, main_number, asks, grants, releases, leaked, searchVars>>

\* Mutant of AutoGranted: the promise is not done with.
AutoGrantedAgain ==
  /\ auto = "granted"
  /\ main_number' = autoNumber
  /\ auto' = "done"
  /\ UNCHANGED <<owner, autoNumber, asks, grants, releases, leaked, searchVars>>

\* find_promise is done: the tenant gets the number, whatever it had.
AutoGranted ==
  /\ auto = "granted"
  /\ main_number' = autoNumber
  /\ auto' = "done"
  /\ autoNumber' = NoNumber
  /\ UNCHANGED <<owner, asks, grants, releases, leaked, searchVars>>

\* The grant is lost on its way to the browser.
AutoLost ==
  /\ auto = "granted"
  /\ leaked' = leaked \cup {autoNumber}
  /\ auto' = "done"
  /\ autoNumber' = NoNumber
  /\ UNCHANGED <<owner, main_number, asks, grants, releases, searchVars>>

-----------------------------------------------------------------------------
(* The search form of the dialog.                                          *)

\* The form is submitted.
Search ==
  /\ searches < MaxSearches
  /\ searches' = searches + 1
  /\ UNCHANGED <<owner, main_number, autoVars, asks, grants, releases, leaked,
                 phone_list, selected>>

\* refresh: the list is emptied and, the spinner gone, searched again.  The
\* selection stays.
Refresh ==
  /\ auto = "done"
  /\ searches < MaxSearches
  /\ phone_list' = {}
  /\ searches' = searches + 1
  /\ UNCHANGED <<owner, main_number, autoVars, asks, grants, releases, leaked, selected>>

\* The answer to any search in flight replaces the list; a failed search
\* empties it.
Listed(found) ==
  /\ searches > 0
  /\ \A n \in found : owner[n] = "free"
  /\ phone_list' = found
  /\ searches' = searches - 1
  /\ UNCHANGED <<owner, main_number, autoVars, asks, grants, releases, leaked, selected>>

Choose(n) ==
  /\ n \in phone_list
  /\ selected' = n
  /\ UNCHANGED <<owner, main_number, autoVars, asks, grants, releases, leaked,
                 phone_list, searches>>

-----------------------------------------------------------------------------
(* Reserving the selected number.                                          *)

\* Mutant of Reserve: the number in use is unreserved before the new one is granted.
ReserveReleasing ==
  /\ selected # NoNumber
  /\ asks[selected] < MaxAsks
  /\ asks' = [asks EXCEPT ![selected] = @ + 1]
  /\ releases' = releases \cup ({main_number} \ {NoNumber})
  /\ UNCHANGED <<owner, main_number, autoVars, grants, leaked, searchVars>>

\* "Select Number" is pressed: reserve_number.
Reserve ==
  /\ selected # NoNumber
  /\ asks[selected] < MaxAsks
  /\ asks' = [asks EXCEPT ![selected] = @ + 1]
  /\ UNCHANGED <<owner, main_number, autoVars, grants, releases, leaked, searchVars>>

\* The backend gives a free number to the order that asks for it.
Grant(n) ==
  /\ asks[n] > 0
  /\ owner[n] = "free"
  /\ owner' = [owner EXCEPT ![n] = "us"]
  /\ asks' = [asks EXCEPT ![n] = @ - 1]
  /\ grants' = grants \cup {n}
  /\ UNCHANGED <<main_number, autoVars, releases, leaked, searchVars>>

\* The fail handler of a reservation refreshes the list when the spinner is gone
\* (at the bound, its search is one of those already in flight).
SearchAgain ==
  /\ IF auto = "done"
     THEN /\ phone_list' = {}
          /\ searches' = IF searches < MaxSearches THEN searches + 1 ELSE searches
     ELSE UNCHANGED <<phone_list, searches>>
  /\ UNCHANGED selected

\* It refuses a number that is taken, or fails: the fail handler runs.
Refuse(n) ==
  /\ asks[n] > 0
  /\ asks' = [asks EXCEPT ![n] = @ - 1]
  /\ SearchAgain
  /\ UNCHANGED <<owner, main_number, autoVars, grants, releases, leaked>>

\* Mutants of Granted: the old number is not unreserved; the new one is recorded
\* before the old one is unreserved.
GrantedKeeps(n) ==
  /\ n \in grants
  /\ main_number # NoNumber
  /\ grants' = grants \ {n}
  /\ main_number' = n
  /\ UNCHANGED <<owner, autoVars, asks, releases, leaked, searchVars>>
GrantedSwapped(n) ==
  /\ n \in grants
  /\ main_number # NoNumber
  /\ grants' = grants \ {n}
  /\ releases' = releases \cup {n}
  /\ main_number' = n
  /\ UNCHANGED <<owner, autoVars, asks, leaked, searchVars>>

\* The reservation's callback: unreserve the tenant's number, then record the
\* new one.
Granted(n) ==
  /\ n \in grants
  /\ main_number # NoNumber
  /\ grants' = grants \ {n}
  /\ releases' = releases \cup {main_number}
  /\ main_number' = n
  /\ UNCHANGED <<owner, autoVars, asks, leaked, searchVars>>

\* Mutant of GrantedThrows: unreserve_number passes over a missing number.
GrantedFirst(n) ==
  /\ n \in grants
  /\ main_number = NoNumber
  /\ grants' = grants \ {n}
  /\ main_number' = n
  /\ UNCHANGED <<owner, autoVars, asks, releases, leaked, searchVars>>

\* The same callback while the tenant has no number: unreserve_number reads
\* the didid of an undefined main_number and throws before anything is set.
GrantedThrows(n) ==
  /\ n \in grants
  /\ main_number = NoNumber
  /\ grants' = grants \ {n}
  /\ leaked' = leaked \cup {n}
  /\ UNCHANGED <<owner, main_number, autoVars, asks, releases, searchVars>>

\* The grant is lost on its way to the browser: the fail handler runs.
GrantLost(n) ==
  /\ n \in grants
  /\ grants' = grants \ {n}
  /\ leaked' = leaked \cup {n}
  /\ SearchAgain
  /\ UNCHANGED <<owner, main_number, autoVars, asks, releases>>

-----------------------------------------------------------------------------
(* Releases, and the other customers.                                      *)

Released(n) ==
  /\ n \in releases
  /\ releases' = releases \ {n}
  /\ owner' = [owner EXCEPT ![n] = "free"]
  /\ UNCHANGED <<main_number, autoVars, asks, grants, leaked, searchVars>>

\* Mutant of ReleaseFailed: the release is kept, as if it were sent again.
ReleaseRetried(n) ==
  /\ n \in releases
  /\ leaked' = leaked \cup {n}
  /\ UNCHANGED <<owner, main_number, autoVars, asks, grants, releases, searchVars>>

\* A failed unreserve is logged and forgotten.
ReleaseFailed(n) ==
  /\ n \in releases
  /\ releases' = releases \ {n}
  /\ leaked' = leaked \cup {n}
  /\ UNCHANGED <<owner, main_number, autoVars, asks, grants, searchVars>>

OthersTake(n) ==
  /\ owner[n] = "free"
  /\ owner' = [owner EXCEPT ![n] = "other"]
  /\ UNCHANGED <<main_number, autoVars, asks, grants, releases, leaked, searchVars>>

OthersGiveUp(n) ==
  /\ owner[n] = "other"
  /\ owner' = [owner EXCEPT ![n] = "free"]
  /\ UNCHANGED <<main_number, autoVars, asks, grants, releases, leaked, searchVars>>

-----------------------------------------------------------------------------
Next ==
  \/ AutoGrant \/ AutoFailed \/ AutoGranted \/ AutoLost
  \/ Search \/ Refresh \/ Reserve
  \/ \E found \in SUBSET Numbers : Listed(found)
  \/ \E n \in Numbers :
       \/ AutoFound(n) \/ Choose(n)
       \/ Grant(n) \/ Refuse(n) \/ Granted(n) \/ GrantedThrows(n) \/ GrantLost(n)
       \/ Released(n) \/ ReleaseFailed(n)
       \/ OthersTake(n) \/ OthersGiveUp(n)

Spec == Init /\ [][Next]_vars

-----------------------------------------------------------------------------
MaybeNumber == Numbers \cup {NoNumber}

\* Every variable has its type; the automatic reservation has a number exactly
\* while it reserves one.
TypeOK ==
  /\ owner \in [Numbers -> {"free", "us", "other"}]
  /\ main_number \in MaybeNumber
  /\ auto \in {"finding", "reserving", "granted", "done"}
  /\ autoNumber \in MaybeNumber
  /\ autoNumber # NoNumber <=> auto \in {"reserving", "granted"}
  /\ asks \in [Numbers -> 0..MaxAsks]
  /\ grants \subseteq Numbers
  /\ releases \subseteq Numbers
  /\ leaked \subseteq Numbers
  /\ phone_list \subseteq Numbers
  /\ selected \in MaybeNumber
  /\ searches \in 0..MaxSearches

\* The roles in which the order holds a number.
MainRole == {main_number} \ {NoNumber}
AutoRole == IF auto = "granted" THEN {autoNumber} ELSE {}

\* Every number the backend holds for the order is the tenant's number, or a
\* grant under way to the browser, or being released, or one of the leaks the
\* module names; and nothing else is in one of these roles.
HeldAccounted == Held = MainRole \cup AutoRole \cup grants \cup releases \cup leaked

\* No number is in two of these roles: none is released while it is in use,
\* and none is counted as leaked that somebody still handles.
RolesDisjoint ==
  /\ MainRole \cap (AutoRole \cup grants \cup releases \cup leaked) = {}
  /\ AutoRole \cap (grants \cup releases \cup leaked) = {}
  /\ grants \cap (releases \cup leaked) = {}
  /\ releases \cap leaked = {}

\* The number the page shows and orders is reserved for this customer, and no
\* release of it is on its way: whatever the order in which reservations are
\* granted, answered and released (reserve_number, unreserve_number).
MainIsHeld ==
  main_number # NoNumber => owner[main_number] = "us" /\ main_number \notin releases

\* While the automatic reservation is under way the tenant has no number.
NoNumberBeforeAuto == auto # "done" => main_number = NoNumber

\* The automatic reservation's answer never replaces a number, so it never
\* strands one the customer picked while it was slow.
AutoNeverOverwrites ==
  [][auto = "granted" /\ main_number' # main_number => main_number = NoNumber]_vars

\* A number that is replaced is handed back: its release is sent in the very
\* step that replaces it, and the number that comes in its place is held.
ReplacedIsReleased ==
  [][main_number # NoNumber /\ main_number' # main_number =>
       /\ main_number \in releases'
       /\ main_number' \in Held]_vars

\* What the roles make of a number: the order's is in use, one being released is
\* on its way back, a leak is stranded, and what else is held is a grant.
LifeOf(n) ==
  IF owner[n] # "us" THEN owner[n]
  ELSE IF n = main_number THEN "used"
  ELSE IF n \in releases THEN "returning"
  ELSE IF n \in leaked THEN "stranded"
  ELSE "granted"

Life == INSTANCE NumberLife WITH life <- [n \in Numbers |-> LifeOf(n)]

\* However reservations, releases and their answers cross, each number lives the
\* life that NumberLife describes: one in use is replaced only by one that was
\* granted, is returned from then on, and never comes to be free or another's
\* without a release of its own (reserve_number, unreserve_number).
NumbersLive == Life!Spec
=============================================================================
