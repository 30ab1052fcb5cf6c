--------------------------------- MODULE Shell ---------------------------------
(***************************************************************************)
(* The frame every page runs in: the URL, the navigations it starts, and   *)
(* the session of one browser tab.                                         *)
(*                                                                         *)
(* A change of the URL's main part starts a navigation: a page that needs  *)
(* a session is checked first (two requests in turn), then its module is   *)
(* loaded, then it replaces the page shown.  Nothing waits, so several     *)
(* navigations can be under way and overtake one another.  A change of the *)
(* sub part is for the page shown, whichever it is.                        *)
(*                                                                         *)
(* Every request to the backend may be answered with the code 1009: the    *)
(* access key is dropped, the place is remembered, and the tab goes to the *)
(* login page and is reloaded, unless it is there already.  The promise of *)
(* that request is never settled.                                          *)
(***************************************************************************)
EXTENDS Naturals

CONSTANTS Places,    \* URLs: records of a main and a sub part
          Login,     \* the login page's URL
          Home,      \* where a visitor goes who has logged in
          Protected, \* main parts whose pages need a session
          Loading,   \* main parts whose pages load a module for each sub part
          Keys,      \* access keys the backend gives
          None,      \* no key, no page, no place
          MaxNavs,   \* bound: navigations
          MaxAsked,  \* bound: changes of the sub page
          MaxLogins  \* bound: logins under way

ASSUME PlacesAssumption ==
  /\ \A p \in Places : p = [main |-> p.main, sub |-> p.sub]
  /\ Login \in Places /\ Home \in Places /\ None \notin Places /\ None \notin Keys
  /\ Login.main \notin Protected
  /\ \A p \in Places : None # p.main
  /\ \A p \in Places, i \in 1..MaxNavs, t \in BOOLEAN :
       None # [main |-> p.main, nav |-> i, told |-> t]
ASSUME BoundAssumption == MaxNavs \in Nat \ {0} /\ MaxAsked \in Nat /\ MaxLogins \in Nat

VARIABLES
  hash,      \* the URL, and can.route's main and sub
  main,      \* page.main
  navs,      \* navigations under way
  issued,    \* number of navigations so far, the newest one's id
  curr,      \* page.curr: its main part, its navigation, and whether it has
             \* been told of the URL's sub part since that was last changed
  shown,     \* what curr shows: a sub part, and the change it comes from
  switches,  \* modules of sub pages being loaded
  asked,     \* number of changes of the sub page so far
  key,       \* the access key, in memory and in localStorage
  history,   \* localStorage's history: the place to return to
  logged_in, \* auth.logged_in: the header shows a link to log out
  requests,  \* keys of requests the pages are waiting for
  logins,    \* number of logins under way
  lost,      \* history: the newest navigation ended without a page
  overtaken  \* history: an older navigation ended after the newest one

page == <<curr, shown, switches, asked>>
session == <<key, history, logged_in>>
vars == <<hash, main, navs, issued, page, session, requests, logins, lost, overtaken>>

-----------------------------------------------------------------------------
(* Steps the handlers share.                                               *)

\* switch_sub of the page p: it shows s, or loads the module for it.
SwitchSub(p, s) ==
  /\ asked < MaxAsked
  /\ asked' = asked + 1
  /\ curr' = p
  /\ IF p.main \in Loading
     THEN /\ switches' = switches \cup {[n |-> asked + 1, sub |-> s]}
          /\ shown' = shown
     ELSE /\ shown' = [n |-> asked + 1, sub |-> s]
          /\ switches' = switches

Navigation(h, id) ==
  [id |-> id, main |-> h.main, sub |-> h.sub,
   stage |-> IF h.main \in Protected THEN "key" ELSE "load"]

\* The tab is loaded anew, at the login page.
Reload ==
  /\ issued < MaxNavs
  /\ hash' = Login
  /\ main' = Login.main
  /\ navs' = {Navigation(Login, issued + 1)}
  /\ issued' = issued + 1
  /\ curr' = None /\ shown' = [n |-> 0, sub |-> None] /\ switches' = {} /\ asked' = 0
  /\ logged_in' = FALSE
  /\ requests' = {} /\ logins' = 0
  /\ lost' = FALSE /\ overtaken' = FALSE

\* Mutant of LoggedOut: at a place of which the page is not there yet, the tab
\* stays.
LoggedOutStays(h, ns, rs) ==
  /\ key' = None
  /\ history' = h
  /\ IF h = Login \/ curr = None
     THEN /\ navs' = ns /\ requests' = rs
          /\ UNCHANGED <<hash, main, issued, page, logged_in, logins, lost, overtaken>>
     ELSE Reload

\* logged_out, at the place h.  At the login page nothing is reloaded, and ns,
\* rs are the navigations and the requests that remain.
LoggedOut(h, ns, rs) ==
  /\ key' = None
  /\ history' = h
  /\ IF h = Login
     THEN /\ navs' = ns /\ requests' = rs
          /\ UNCHANGED <<hash, main, issued, page, logged_in, logins, lost, overtaken>>
     ELSE Reload

\* Mutant of Visit: page.main is not recorded.
VisitUnrecorded(h) ==
  /\ hash' = h
  /\ main' = main
  /\ IF h.main # main
     THEN /\ issued < MaxNavs
          /\ issued' = issued + 1
          /\ navs' = navs \cup {Navigation(h, issued + 1)}
          /\ lost' = FALSE /\ overtaken' = FALSE
     ELSE UNCHANGED <<issued, navs, lost, overtaken>>
  /\ IF h.sub # hash.sub /\ curr # None
     THEN SwitchSub([curr EXCEPT !.told = TRUE], h.sub)
     ELSE UNCHANGED page

\* The URL becomes h: the page shown is told of another sub part, and another
\* main part starts a navigation.
Visit(h) ==
  /\ hash' = h
  /\ main' = h.main
  /\ IF h.main # main
     THEN /\ issued < MaxNavs
          /\ issued' = issued + 1
          /\ navs' = navs \cup {Navigation(h, issued + 1)}
          /\ lost' = FALSE /\ overtaken' = FALSE
     ELSE UNCHANGED <<issued, navs, lost, overtaken>>
  /\ IF h.sub # hash.sub /\ curr # None
     THEN SwitchSub([curr EXCEPT !.told = TRUE], h.sub)
     ELSE UNCHANGED page

-----------------------------------------------------------------------------
(* The tab is opened; a protected place without a key leads to the login   *)
(* page at once.                                                           *)
Init ==
  /\ key \in Keys \cup {None}
  /\ hash \in Places
  /\ history \in Places \cup {None}
  /\ \/ history = None /\ (hash.main \in Protected => key # None)
     \/ hash = Login /\ key = None /\ history # None /\ history.main \in Protected
  /\ main = hash.main
  /\ navs = {Navigation(hash, 1)}
  /\ issued = 1
  /\ curr = None
  /\ shown = [n |-> 0, sub |-> None]
  /\ switches = {}
  /\ asked = 0
  /\ logged_in = FALSE
  /\ requests = {}
  /\ logins = 0
  /\ lost = FALSE
  /\ overtaken = FALSE

-----------------------------------------------------------------------------
(* The visitor.                                                            *)

\* A link, a tab, the history.
Goto(h) ==
  /\ h # hash
  /\ h.main \in Protected /\ h.main # main => key # None
  /\ Visit(h)
  /\ UNCHANGED <<session, requests, logins>>

\* The same without the key: the check is rejected at once.
GotoClosed(h) ==
  /\ h.main \in Protected /\ h.main # main /\ key = None
  /\ LoggedOut(h, {}, {})

\* The header's link.
Logout ==
  /\ logged_in
  /\ LoggedOut(hash, navs, requests)

Submit ==
  /\ curr # None /\ curr.main = Login.main /\ shown.sub = Login.sub
  /\ logins < MaxLogins
  /\ logins' = logins + 1
  /\ UNCHANGED <<hash, main, navs, issued, page, session, requests, lost, overtaken>>

\* Where logged_in leads.
Target == IF history = None \/ hash # Login THEN Home ELSE history

LoginAnswered(k) ==
  /\ logins > 0
  /\ logins' = logins - 1
  /\ key' = k
  /\ history' = None
  /\ logged_in' = TRUE
  /\ Visit(Target)
  /\ UNCHANGED <<requests>>

\* Mutant of LoginFailed: the callback may run without a login under way.
LoginFailedUnasked ==
  /\ logins' = logins - 1
  /\ UNCHANGED <<hash, main, navs, issued, page, session, requests, lost, overtaken>>

LoginFailed ==
  /\ logins > 0
  /\ logins' = logins - 1
  /\ UNCHANGED <<hash, main, navs, issued, page, session, requests, lost, overtaken>>

-----------------------------------------------------------------------------
(* A navigation.                                                           *)

\* The key is valid: the user is asked for.
KeyValid(n) ==
  /\ n.stage = "key"
  /\ navs' = (navs \ {n}) \cup {[n EXCEPT !.stage = "user"]}
  /\ UNCHANGED <<hash, main, issued, page, session, requests, logins, lost, overtaken>>

\* The user is known, and the key is kept alive.  The check is resolved, and the
\* page's module is loaded.
UserKnown(n) ==
  /\ n.stage = "user"
  /\ logged_in' = TRUE
  /\ requests' = requests \cup {key}
  /\ navs' = (navs \ {n}) \cup {[n EXCEPT !.stage = "load"]}
  /\ UNCHANGED <<hash, main, issued, page, key, history, logins, lost, overtaken>>

\* A request of the check fails, or the module does not load: nothing follows.
Fails(n) ==
  /\ navs' = navs \ {n}
  /\ lost' = (lost \/ n.id = issued)
  /\ UNCHANGED <<hash, main, issued, page, session, requests, logins, overtaken>>

\* The key is not valid, or a request of the check is answered with 1009: the
\* visitor is logged out, and the check ends.
CheckCloses(n) ==
  /\ n.stage # "load"
  /\ LoggedOut(hash, navs \ {n}, requests)

\* The module has come: the page is built and shows the sub part of the time
\* the navigation began.  It asks for its data.
Built(n) ==
  /\ n.stage = "load"
  /\ asked < MaxAsked
  /\ navs' = navs \ {n}
  /\ overtaken' = (overtaken \/ (n.id # issued /\ \A m \in navs : m.id # issued))
  /\ curr' = [main |-> n.main, nav |-> n.id, told |-> n.sub = hash.sub]
  /\ asked' = asked + 1
  /\ IF n.main \in Loading
     THEN /\ switches' = {[n |-> asked + 1, sub |-> n.sub]}
          /\ shown' = [n |-> 0, sub |-> None]
     ELSE /\ switches' = {}
          /\ shown' = [n |-> asked + 1, sub |-> n.sub]
  /\ requests' = IF n.main \in Protected THEN requests \cup {key} ELSE requests
  /\ UNCHANGED <<hash, main, issued, session, logins, lost>>

-----------------------------------------------------------------------------
(* The page shown.                                                         *)

\* Mutant of DataComes: the sub part is the one the page was built for.
DataComesAsBuilt ==
  /\ curr # None /\ curr.main \in Protected
  /\ SwitchSub([curr EXCEPT !.told = TRUE], shown.sub)
  /\ UNCHANGED <<hash, main, navs, issued, session, requests, logins, lost, overtaken>>

\* The data of a protected page comes: it shows the sub part of the URL.
DataComes ==
  /\ curr # None /\ curr.main \in Protected
  /\ SwitchSub([curr EXCEPT !.told = TRUE], hash.sub)
  /\ UNCHANGED <<hash, main, navs, issued, session, requests, logins, lost, overtaken>>

SubLoaded(s) ==
  /\ shown' = [n |-> s.n, sub |-> s.sub]
  /\ switches' = switches \ {s}
  /\ UNCHANGED <<hash, main, navs, issued, curr, asked, session, requests, logins, lost, overtaken>>

SubFails(s) ==
  /\ switches' = switches \ {s}
  /\ UNCHANGED <<hash, main, navs, issued, curr, shown, asked, session, requests, logins,
                 lost, overtaken>>

\* A request with the key k is answered, or fails.
Answered(k) ==
  /\ requests' = requests \ {k}
  /\ UNCHANGED <<hash, main, navs, issued, page, session, logins, lost, overtaken>>

\* It is answered with 1009.
Expired(k) ==
  /\ LoggedOut(hash, navs, requests \ {k})

Next ==
  \/ \E h \in Places : Goto(h) \/ GotoClosed(h)
  \/ Logout
  \/ Submit
  \/ \E k \in Keys : LoginAnswered(k)
  \/ LoginFailed
  \/ \E n \in navs : KeyValid(n) \/ UserKnown(n) \/ CheckCloses(n) \/ Fails(n) \/ Built(n)
  \/ DataComes
  \/ \E s \in switches : SubLoaded(s) \/ SubFails(s)
  \/ \E k \in requests : Answered(k) \/ Expired(k)

Spec == Init /\ [][Next]_vars

-----------------------------------------------------------------------------
Mains == {p.main : p \in Places}
SubParts == {p.sub : p \in Places}

NavsTo(i) == [id : 1..i, main : Mains, sub : SubParts, stage : {"key", "user", "load"}]
PagesTo(i) == [main : Mains, nav : 1..i, told : BOOLEAN]
ShownTo(a) == [n : 0..a, sub : SubParts \cup {None}]
SwitchesTo(a) == [n : 1..a, sub : SubParts]

TypeOK ==
  /\ hash \in Places /\ main \in Mains
  /\ issued \in 1..MaxNavs /\ asked \in 0..MaxAsked /\ logins \in 0..MaxLogins
  /\ navs \subseteq NavsTo(issued)
  /\ curr \in {None} \cup PagesTo(issued)
  /\ shown \in ShownTo(asked)
  /\ switches \subseteq SwitchesTo(asked)
  /\ key \in Keys \cup {None} /\ requests \subseteq Keys \cup {None}
  /\ history \in Places \cup {None}
  /\ logged_in \in BOOLEAN /\ lost \in BOOLEAN /\ overtaken \in BOOLEAN

\* When all navigations have ended, the page shown is the URL's, unless the
\* newest one was lost, or an older one ended after it (routes.coffee:43-63:
\* the main part is recorded before anything is checked or loaded).
UrlIsShown ==
  navs = {} /\ ~lost /\ ~overtaken => curr # None /\ curr.main = hash.main

\* The newest change of the sub page, once its module has come, shows the sub
\* part of the URL, if the page was told of that: when it was built for it, at a
\* change since, or by its data (routes.coffee:62, bases/page/main.coffee:16).
SubIsShown ==
  curr # None /\ curr.nav = issued /\ curr.told /\ shown.n = asked => shown.sub = hash.sub

\* Without a session the URL is not a page that needs one: whatever closes the
\* session leads away from there (auth.coffee:152-157, routes.coffee:64-66), and
\* only a login leads back.
ClosedIsOutside ==
  key = None => hash.main \notin Protected

\* Who logs in at the login page is led to another one: logged_in says
\* (auth.coffee:135) "record the access info and do the redirect to the last
\* visited page".
LoginLeaves ==
  [][logins' = logins - 1 /\ logged_in' /\ history' # history => hash' # Login]_vars
================================================================================
