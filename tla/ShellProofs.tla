------------------------------ MODULE ShellProofs ------------------------------
(***************************************************************************)
(* Theorems about Shell.                                                   *)
(*                                                                         *)
(* The newest navigation is the URL's, no two have the same number, and    *)
(* the one that built the page shown has left the set (Numbered).  So the  *)
(* page of the newest one is the URL's, and it is shown when that has      *)
(* ended with it and nothing ended later (Ended).  Only the newest change  *)
(* of the sub page matters, and it was made for the URL's sub part (Told). *)
(* Only checked navigations are of protected pages (Checked), so the login *)
(* page's own is not ended by a check; the URL without a key is outside    *)
(* the protected places, which is the property itself.                     *)
(***************************************************************************)
EXTENDS Shell, TLAPS

Numbered ==
  /\ main = hash.main
  /\ \A n \in navs : n.id = issued => n.main = hash.main
  /\ \A n, m \in navs : n.id = m.id => n = m
  /\ curr # None => /\ curr.nav = issued => curr.main = hash.main
                    /\ \A n \in navs : n.id # curr.nav

Ended ==
  ~lost /\ ~overtaken /\ (\A n \in navs : n.id # issued) => curr # None /\ curr.nav = issued

Told ==
  curr # None /\ curr.nav = issued /\ curr.told =>
    /\ shown.n = asked => shown.sub = hash.sub
    /\ \A s \in switches : s.n = asked => s.sub = hash.sub

Checked ==
  \A n \in navs : n.stage # "load" => n.main \in Protected

IInv == TypeOK /\ Numbered /\ Ended /\ Told /\ Checked /\ ClosedIsOutside

-----------------------------------------------------------------------------
(* The records, and the sets they are in.                                  *)

LEMMA Parts == \A h \in Places : h.main \in Mains /\ h.sub \in SubParts
  BY DEF Mains, SubParts

LEMMA NavigationIs ==
  ASSUME NEW h \in Places, NEW i \in Nat \ {0}
  PROVE  /\ Navigation(h, i) \in NavsTo(i)
         /\ Navigation(h, i).id = i
         /\ Navigation(h, i).main = h.main
         /\ Navigation(h, i).sub = h.sub
         /\ Navigation(h, i).stage # "load" => h.main \in Protected
  <1>1. h.main \in Mains /\ h.sub \in SubParts
    BY Parts
  <1>2. i \in 1..i
    OBVIOUS
  <1> QED BY <1>1, <1>2 DEF Navigation, NavsTo

LEMMA NavsGrow ==
  ASSUME NEW i \in Nat
  PROVE  /\ NavsTo(i) \subseteq NavsTo(i + 1)
         /\ PagesTo(i) \subseteq PagesTo(i + 1)
         /\ 1..i \subseteq 1..(i + 1)
  BY DEF NavsTo, PagesTo

LEMMA SwitchesGrow ==
  ASSUME NEW a \in Nat
  PROVE  /\ SwitchesTo(a) \subseteq SwitchesTo(a + 1)
         /\ ShownTo(a) \subseteq ShownTo(a + 1)
  BY DEF SwitchesTo, ShownTo

LEMMA NoneIsNoPage ==
  ASSUME NEW i \in 1..MaxNavs
  PROVE  None \notin PagesTo(i)
  <1> SUFFICES ASSUME None \in PagesTo(i) PROVE FALSE
    OBVIOUS
  <1>1. PICK p \in Places, j \in 1..i, t \in BOOLEAN :
           None = [main |-> p.main, nav |-> j, told |-> t]
    BY DEF PagesTo, Mains
  <1>2. j \in 1..MaxNavs
    BY BoundAssumption
  <1> QED BY <1>1, <1>2, PlacesAssumption

LEMMA EmptyShown ==
  ASSUME NEW a \in Nat
  PROVE  [n |-> 0, sub |-> None] \in ShownTo(a)
  BY DEF ShownTo

LEMMA NewSwitch ==
  ASSUME NEW a \in Nat, NEW s \in SubParts
  PROVE  /\ [n |-> a + 1, sub |-> s] \in SwitchesTo(a + 1)
         /\ [n |-> a + 1, sub |-> s] \in ShownTo(a + 1)
  BY DEF SwitchesTo, ShownTo

-----------------------------------------------------------------------------
LEMMA InitInv == Init => IInv
  <1> SUFFICES ASSUME Init PROVE IInv
    OBVIOUS
  <1> USE PlacesAssumption, BoundAssumption
  <1>1. Navigation(hash, 1) \in NavsTo(1) /\ Navigation(hash, 1).id = 1
        /\ Navigation(hash, 1).main = hash.main
        /\ (Navigation(hash, 1).stage # "load" => hash.main \in Protected)
    BY NavigationIs DEF Init
  <1>2. TypeOK
    <2>1. shown \in ShownTo(asked)
      BY EmptyShown DEF Init
    <2>2. main \in Mains
      BY Parts DEF Init
    <2>3. navs \subseteq NavsTo(issued)
      BY <1>1 DEF Init
    <2>4. /\ issued \in 1..MaxNavs /\ asked \in 0..MaxAsked /\ logins \in 0..MaxLogins
      BY DEF Init
    <2>5. /\ curr = None /\ switches = {} /\ requests = {}
          /\ logged_in = FALSE /\ lost = FALSE /\ overtaken = FALSE
      BY DEF Init
    <2>6. hash \in Places /\ key \in Keys \cup {None} /\ history \in Places \cup {None}
      BY DEF Init
    <2> QED BY <2>1, <2>2, <2>3, <2>4, <2>5, <2>6 DEF TypeOK
  <1>3. Numbered
    BY <1>1 DEF Init, Numbered
  <1>4. Ended /\ Told
    BY <1>1 DEF Init, Ended, Told
  <1>5. Checked
    BY <1>1 DEF Init, Checked
  <1>6. ClosedIsOutside
    BY DEF Init, ClosedIsOutside
  <1> QED BY <1>2, <1>3, <1>4, <1>5, <1>6 DEF IInv

\* A reload keeps the invariant, whatever becomes of key and history.
LEMMA ReloadInv ==
  ASSUME IInv, Reload, key' \in Keys \cup {None}, history' \in Places \cup {None}
  PROVE  IInv'
  <1> USE PlacesAssumption, BoundAssumption
  <1>1. /\ issued \in Nat /\ issued' = issued + 1 /\ issued' \in 1..MaxNavs
    BY DEF IInv, TypeOK, Reload
  <1>2. /\ Navigation(Login, issued') \in NavsTo(issued')
        /\ Navigation(Login, issued').id = issued'
        /\ Navigation(Login, issued').main = Login.main
        /\ Navigation(Login, issued').stage # "load" => Login.main \in Protected
    BY <1>1, NavigationIs
  <1>3. navs' = {Navigation(Login, issued')} /\ hash' = Login /\ main' = Login.main
    BY <1>1 DEF Reload
  <1>4. TypeOK'
    <2>1. shown' \in ShownTo(asked')
      BY EmptyShown DEF Reload
    <2>2. main' \in Mains
      BY <1>3, Parts
    <2>4. asked' \in 0..MaxAsked /\ logins' \in 0..MaxLogins
      BY DEF Reload
    <2>5. /\ curr' = None /\ switches' = {} /\ requests' = {}
          /\ logged_in' = FALSE /\ lost' = FALSE /\ overtaken' = FALSE
      BY DEF Reload
    <2> QED BY <1>1, <1>2, <1>3, <2>1, <2>2, <2>4, <2>5 DEF TypeOK
  <1>5. Numbered'
    BY <1>2, <1>3 DEF Numbered, Reload
  <1>6. Ended' /\ Told'
    BY <1>2, <1>3 DEF Ended, Told, Reload
  <1>7. Checked'
    BY <1>2, <1>3 DEF Checked
  <1>8. ClosedIsOutside'
    BY <1>3 DEF ClosedIsOutside
  <1> QED BY <1>4, <1>5, <1>6, <1>7, <1>8 DEF IInv

-----------------------------------------------------------------------------
(* A change of the sub page.                                               *)

\* It is the newest one, and it is for the sub part asked for.
LEMMA SwitchSubFacts ==
  ASSUME TypeOK, NEW p, NEW s \in SubParts, SwitchSub(p, s)
  PROVE  /\ curr' = p
         /\ asked' \in 0..MaxAsked
         /\ shown' \in ShownTo(asked')
         /\ switches' \subseteq SwitchesTo(asked')
         /\ shown'.n = asked' => shown'.sub = s
         /\ \A t \in switches' : t.n = asked' => t.sub = s
  <1> DEFINE new == [n |-> asked + 1, sub |-> s]
  <1>1. asked \in Nat /\ asked' = asked + 1 /\ asked' \in 0..MaxAsked /\ curr' = p
    BY BoundAssumption DEF TypeOK, SwitchSub
  <1>2. new \in SwitchesTo(asked') /\ new \in ShownTo(asked')
    BY <1>1, NewSwitch
  <1>3. SwitchesTo(asked) \subseteq SwitchesTo(asked') /\ ShownTo(asked) \subseteq ShownTo(asked')
    BY <1>1, SwitchesGrow
  <1>4. shown \in ShownTo(asked) /\ switches \subseteq SwitchesTo(asked)
    BY DEF TypeOK
  <1>5. shown.n # asked' /\ \A t \in switches : t.n # asked'
    BY <1>1, <1>4 DEF ShownTo, SwitchesTo
  <1>6. \/ switches' = switches \cup {new} /\ shown' = shown
        \/ switches' = switches /\ shown' = new
    BY DEF SwitchSub
  <1> HIDE DEF new
  <1>7. shown' \in ShownTo(asked') /\ switches' \subseteq SwitchesTo(asked')
    BY <1>2, <1>3, <1>4, <1>6
  <1>8. new.sub = s
    BY DEF new
  <1>9. /\ shown'.n = asked' => shown'.sub = s
        /\ \A t \in switches' : t.n = asked' => t.sub = s
    BY <1>5, <1>6, <1>8
  <1> QED BY <1>1, <1>7, <1>9

\* The page that is told of the URL's sub part.
LEMMA ToldPage ==
  ASSUME TypeOK, curr # None
  PROVE  LET p == [curr EXCEPT !.told = TRUE]
         IN  /\ p \in PagesTo(issued)
             /\ p.main = curr.main /\ p.nav = curr.nav
  BY DEF TypeOK, PagesTo

-----------------------------------------------------------------------------
\* What a visit does to the page shown.
LEMMA VisitTells ==
  ASSUME TypeOK, NEW h \in Places, Visit(h)
  PROVE  /\ asked' \in 0..MaxAsked
         /\ shown' \in ShownTo(asked')
         /\ switches' \subseteq SwitchesTo(asked')
         /\ curr' \in {None} \cup PagesTo(issued)
         /\ curr = None <=> curr' = None
         /\ curr # None => curr'.main = curr.main /\ curr'.nav = curr.nav
         /\ \/ UNCHANGED page /\ (curr # None => h.sub = hash.sub)
            \/ /\ shown'.n = asked' => shown'.sub = h.sub
               /\ \A t \in switches' : t.n = asked' => t.sub = h.sub
  <1> USE PlacesAssumption
  <1> DEFINE p == [curr EXCEPT !.told = TRUE]
  <1>1. CASE h.sub # hash.sub /\ curr # None
    <2>1. p \in PagesTo(issued) /\ p.main = curr.main /\ p.nav = curr.nav
      BY <1>1, ToldPage
    <2>2. SwitchSub(p, h.sub)
      BY <1>1 DEF Visit
    <2>3. h.sub \in SubParts
      BY Parts
    <2> HIDE DEF p
    <2>4. /\ curr' = p
          /\ asked' \in 0..MaxAsked
          /\ shown' \in ShownTo(asked')
          /\ switches' \subseteq SwitchesTo(asked')
          /\ shown'.n = asked' => shown'.sub = h.sub
          /\ \A t \in switches' : t.n = asked' => t.sub = h.sub
      BY <2>2, <2>3, SwitchSubFacts
    <2>5. None \notin PagesTo(issued)
      BY NoneIsNoPage DEF TypeOK
    <2> QED BY <1>1, <2>1, <2>4, <2>5
  <1>2. CASE ~(h.sub # hash.sub /\ curr # None)
    <2>1. UNCHANGED page
      BY <1>2 DEF Visit
    <2>2. UNCHANGED <<curr, shown, switches, asked>>
      BY <2>1 DEF page
    <2> QED BY <1>2, <2>1, <2>2 DEF TypeOK
  <1> QED BY <1>1, <1>2

LEMMA Ids ==
  ASSUME TypeOK
  PROVE  /\ issued \in Nat \ {0}
         /\ \A n \in navs : n.id \in 1..issued
         /\ curr # None => curr.nav \in 1..issued
  BY BoundAssumption DEF TypeOK, NavsTo, PagesTo

\* A visit keeps the invariant: another main part makes its navigation the
\* newest one; the same one leaves the navigations as they are.
LEMMA VisitInv ==
  ASSUME IInv, NEW h \in Places, Visit(h), key' \in Keys \cup {None},
         history' \in Places \cup {None}, logged_in' \in BOOLEAN, logins' \in 0..MaxLogins,
         requests' = requests, ClosedIsOutside'
  PROVE  IInv'
  <1> USE PlacesAssumption, BoundAssumption
  <1>1. TypeOK /\ Numbered /\ Ended /\ Told /\ Checked /\ ClosedIsOutside
    BY DEF IInv
  <1>2. /\ asked' \in 0..MaxAsked
        /\ shown' \in ShownTo(asked')
        /\ switches' \subseteq SwitchesTo(asked')
        /\ curr' \in {None} \cup PagesTo(issued)
        /\ curr = None <=> curr' = None
        /\ curr # None => curr'.main = curr.main /\ curr'.nav = curr.nav
        /\ \/ UNCHANGED page /\ (curr # None => h.sub = hash.sub)
           \/ /\ shown'.n = asked' => shown'.sub = h.sub
              /\ \A t \in switches' : t.n = asked' => t.sub = h.sub
    BY <1>1, VisitTells
  <1>3. hash' = h /\ main' = h.main /\ h.main \in Mains
    BY Parts DEF Visit
  <1>4. /\ issued \in Nat \ {0}
        /\ \A n \in navs : n.id \in 1..issued
        /\ curr # None => curr.nav \in 1..issued
    BY <1>1, Ids
  <1>6. CASE h.main # main
    <2> DEFINE nav == Navigation(h, issued + 1)
    <2>1. /\ issued' = issued + 1 /\ issued' \in 1..MaxNavs
          /\ navs' = navs \cup {nav}
          /\ lost' = FALSE /\ overtaken' = FALSE
      BY <1>1, <1>4, <1>6 DEF Visit, TypeOK
    <2>2. nav \in NavsTo(issued') /\ nav.id = issued' /\ nav.main = h.main
          /\ (nav.stage # "load" => h.main \in Protected)
      BY <1>4, <2>1, NavigationIs
    <2> HIDE DEF nav
    <2>3. TypeOK'
      <3>1. NavsTo(issued) \subseteq NavsTo(issued') /\ PagesTo(issued) \subseteq PagesTo(issued')
        BY <1>4, <2>1, NavsGrow
      <3>2. navs' \subseteq NavsTo(issued')
        BY <1>1, <2>1, <2>2, <3>1 DEF TypeOK
      <3>3. requests' \subseteq Keys \cup {None}
        BY <1>1, <3>1 DEF TypeOK
      <3>4. curr' \in {None} \cup PagesTo(issued')
        BY <1>2, <3>1
      <3> QED BY <1>2, <1>3, <2>1, <3>2, <3>3, <3>4 DEF TypeOK
    <2>4. Numbered'
      <3>1. \A n \in navs : n.id # issued'
        BY <1>4, <2>1
      <3>2. curr # None => curr.nav # issued'
        BY <1>4, <2>1
      <3> QED BY <1>1, <1>2, <1>3, <2>1, <2>2, <3>1, <3>2 DEF Numbered
    <2>5. Ended'
      BY <2>1, <2>2 DEF Ended
    <2>6. Told'
      BY <1>2, <1>4, <2>1 DEF Told
    <2>7. Checked'
      BY <1>1, <2>1, <2>2 DEF Checked
    <2> QED BY <2>3, <2>4, <2>5, <2>6, <2>7 DEF IInv
  <1>7. CASE h.main = main
    <2>1. UNCHANGED <<issued, navs, lost, overtaken>>
      BY <1>7 DEF Visit
    <2>2. TypeOK'
      BY <1>1, <1>2, <1>3, <2>1 DEF TypeOK
    <2>3. Numbered'
      BY <1>1, <1>2, <1>3, <1>7, <2>1 DEF Numbered
    <2>4. Ended'
      BY <1>1, <1>2, <2>1 DEF Ended
    <2>5. Told'
      BY <1>1, <1>2, <1>3, <2>1 DEF Told, page
    <2>6. Checked'
      BY <1>1, <2>1 DEF Checked
    <2> QED BY <2>2, <2>3, <2>4, <2>5, <2>6 DEF IInv
  <1> QED BY <1>6, <1>7

-----------------------------------------------------------------------------
(* The steps that only let go of navigations, or change the session.       *)

\* Steps after which each navigation is one of before, perhaps at another
\* stage, and the page is as it was.
LEMMA RestInv ==
  ASSUME IInv, UNCHANGED <<hash, main, issued, page, overtaken>>,
         navs' \subseteq NavsTo(issued),
         \A m \in navs' : \E n \in navs : m.id = n.id /\ m.main = n.main,
         \A m, n \in navs' : m.id = n.id => m = n,
         \A m \in navs' : m.stage # "load" => m.main \in Protected,
         key' = key \/ hash = Login,
         lost' \in BOOLEAN,
         lost' \/ (~lost /\ \A n \in navs : n.id = issued => \E m \in navs' : m.id = n.id),
         key' \in Keys \cup {None}, requests' \subseteq Keys \cup {None},
         history' \in Places \cup {None}, logged_in' \in BOOLEAN, logins' \in 0..MaxLogins
  PROVE  IInv'
  <1>1. TypeOK /\ Numbered /\ Ended /\ Told /\ Checked /\ ClosedIsOutside
    BY DEF IInv
  <1>2. UNCHANGED <<curr, shown, switches, asked>>
    BY DEF page
  <1>3. TypeOK'
    BY <1>1, <1>2 DEF TypeOK
  <1>4. Numbered'
    BY <1>1, <1>2 DEF Numbered
  <1>5. Ended'
    BY <1>1, <1>2 DEF Ended
  <1>6. Told'
    BY <1>1, <1>2 DEF Told
  <1>7. Checked'
    BY DEF Checked
  <1>8. ClosedIsOutside'
    BY <1>1, PlacesAssumption DEF ClosedIsOutside
  <1> QED BY <1>3, <1>4, <1>5, <1>6, <1>7, <1>8 DEF IInv

\* A subset of the navigations, with the newest one if it was among them.
LEMMA SubsetInv ==
  ASSUME IInv, UNCHANGED <<hash, main, issued, page, overtaken>>,
         navs' \subseteq navs, lost' \in BOOLEAN,
         lost' \/ (~lost /\ \A n \in navs : n.id = issued => n \in navs'),
         key' = key \/ hash = Login,
         key' \in Keys \cup {None}, requests' \subseteq Keys \cup {None},
         history' \in Places \cup {None}, logged_in' \in BOOLEAN, logins' \in 0..MaxLogins
  PROVE  IInv'
  <1>1. TypeOK /\ Numbered /\ Checked
    BY DEF IInv
  <1>2. navs' \subseteq NavsTo(issued)
    BY <1>1 DEF TypeOK
  <1>3. \A m, n \in navs' : m.id = n.id => m = n
    BY <1>1 DEF Numbered
  <1>4. \A m \in navs' : m.stage # "load" => m.main \in Protected
    BY <1>1 DEF Checked
  <1> QED BY <1>2, <1>3, <1>4, RestInv

\* One navigation's check goes on.
LEMMA StageInv ==
  ASSUME IInv, NEW n \in navs, n.stage # "load", NEW st \in {"user", "load"},
         UNCHANGED <<hash, main, issued, page, key, lost, overtaken>>,
         navs' = (navs \ {n}) \cup {[n EXCEPT !.stage = st]},
         requests' \subseteq Keys \cup {None},
         history' \in Places \cup {None}, logged_in' \in BOOLEAN, logins' \in 0..MaxLogins
  PROVE  IInv'
  <1> DEFINE m == [n EXCEPT !.stage = st]
  <1>1. TypeOK /\ Numbered /\ Checked
    BY DEF IInv
  <1>2. n \in NavsTo(issued)
    BY <1>1 DEF TypeOK
  <1>3. m \in NavsTo(issued) /\ m.id = n.id /\ m.main = n.main /\ m.stage = st
    BY <1>2 DEF NavsTo
  <1> HIDE DEF m
  <1>4. navs' = (navs \ {n}) \cup {m}
    BY DEF m
  <1>5. navs' \subseteq NavsTo(issued)
    BY <1>1, <1>3, <1>4 DEF TypeOK
  <1>6. \A k \in navs' : \E l \in navs : k.id = l.id /\ k.main = l.main
    BY <1>3, <1>4
  <1>7. \A k, l \in navs' : k.id = l.id => k = l
    BY <1>1, <1>3, <1>4 DEF Numbered
  <1>8. \A k \in navs' : k.stage # "load" => k.main \in Protected
    BY <1>1, <1>3, <1>4 DEF Checked
  <1>9. /\ lost' \in BOOLEAN /\ key' \in Keys \cup {None}
        /\ \A l \in navs : l.id = issued => \E k \in navs' : k.id = l.id
    BY <1>1, <1>3, <1>4 DEF TypeOK
  <1> QED BY <1>5, <1>6, <1>7, <1>8, <1>9, RestInv

-----------------------------------------------------------------------------
(* Logging out, and what follows from it.                                  *)

\* The newest navigation is not under its check while the login page is the
\* place.
LEMMA LoginNotChecked ==
  ASSUME IInv, hash = Login, NEW n \in navs, n.stage # "load"
  PROVE  n.id # issued
  BY PlacesAssumption DEF IInv, Numbered, Checked

\* Logged out at the URL's place, with the newest navigation kept.
LEMMA LoggedOutInv ==
  ASSUME IInv, NEW ns \in SUBSET navs, NEW rs \in SUBSET requests,
         \A n \in navs : hash = Login /\ n.id = issued => n \in ns,
         LoggedOut(hash, ns, rs)
  PROVE  IInv'
  <1>1. TypeOK
    BY DEF IInv
  <1>2. key' \in Keys \cup {None} /\ history' \in Places \cup {None}
    BY <1>1 DEF LoggedOut, TypeOK
  <1>3. CASE hash = Login
    <2>1. /\ navs' = ns /\ requests' = rs
          /\ UNCHANGED <<hash, main, issued, page, logged_in, logins, lost, overtaken>>
      BY <1>3 DEF LoggedOut
    <2>2. /\ requests' \subseteq Keys \cup {None} /\ logged_in' \in BOOLEAN
          /\ logins' \in 0..MaxLogins /\ lost' \in BOOLEAN
      BY <1>1, <2>1 DEF TypeOK
    <2> QED BY <1>2, <1>3, <2>1, <2>2, SubsetInv
  <1>4. CASE hash # Login
    <2>1. Reload
      BY <1>4 DEF LoggedOut
    <2> QED BY <1>2, <2>1, ReloadInv
  <1> QED BY <1>3, <1>4

LEMMA GotoClosedInv ==
  ASSUME IInv, NEW h \in Places, GotoClosed(h)
  PROVE  IInv'
  <1>1. h # Login
    BY PlacesAssumption DEF GotoClosed
  <1>2. Reload
    BY <1>1 DEF GotoClosed, LoggedOut
  <1>3. key' \in Keys \cup {None} /\ history' \in Places \cup {None}
    BY DEF GotoClosed, LoggedOut
  <1> QED BY <1>2, <1>3, ReloadInv

LEMMA CheckClosesInv ==
  ASSUME IInv, NEW n \in navs, CheckCloses(n)
  PROVE  IInv'
  <1>1. \A m \in navs : hash = Login /\ m.id = issued => m \in navs \ {n}
    BY LoginNotChecked DEF CheckCloses
  <1> QED BY <1>1, LoggedOutInv DEF CheckCloses

-----------------------------------------------------------------------------
(* The navigations that go on, and the page.                               *)

LEMMA UserKnownInv ==
  ASSUME IInv, NEW n \in navs, UserKnown(n)
  PROVE  IInv'
  <1>1. TypeOK
    BY DEF IInv
  <1>2. /\ n.stage = "user" /\ logged_in' = TRUE /\ requests' = requests \cup {key}
        /\ navs' = (navs \ {n}) \cup {[n EXCEPT !.stage = "load"]}
        /\ UNCHANGED <<hash, main, issued, page, key, history, logins, lost, overtaken>>
    BY DEF UserKnown
  <1>3. /\ requests' \subseteq Keys \cup {None} /\ logged_in' \in BOOLEAN
        /\ logins' \in 0..MaxLogins /\ history' \in Places \cup {None}
    BY <1>1, <1>2 DEF TypeOK
  <1> QED BY <1>2, <1>3, StageInv

\* The page of n is the one shown: nothing of the page before is left.
LEMMA BuiltInv ==
  ASSUME IInv, NEW n \in navs, Built(n)
  PROVE  IInv'
  <1> DEFINE p == [main |-> n.main, nav |-> n.id, told |-> n.sub = hash.sub]
             new == [n |-> asked + 1, sub |-> n.sub]
             empty == [n |-> 0, sub |-> None]
  <1>1. TypeOK /\ Numbered /\ Ended /\ Told /\ Checked /\ ClosedIsOutside
    BY DEF IInv
  <1>2. /\ n.stage = "load" /\ navs' = navs \ {n}
        /\ overtaken' = (overtaken \/ (n.id # issued /\ \A m \in navs : m.id # issued))
        /\ curr' = p /\ asked' = asked + 1 /\ asked' \in 0..MaxAsked
        /\ \/ switches' = {new} /\ shown' = empty
           \/ switches' = {} /\ shown' = new
        /\ requests' \subseteq Keys \cup {None}
        /\ UNCHANGED <<hash, main, issued, session, logins, lost>>
    BY <1>1, BoundAssumption DEF Built, TypeOK
  <1>3. UNCHANGED <<key, history, logged_in>>
    BY <1>2 DEF session
  <1>4. n.id \in 1..issued /\ n.main \in Mains /\ n.sub \in SubParts
    BY <1>1 DEF TypeOK, NavsTo
  <1>5. asked \in Nat
    BY <1>1, BoundAssumption DEF TypeOK
  <1>6. /\ new \in SwitchesTo(asked') /\ new \in ShownTo(asked')
        /\ empty \in ShownTo(asked')
        /\ new.n = asked' /\ new.sub = n.sub /\ empty.n = 0 /\ asked' # 0
    BY <1>2, <1>4, <1>5, NewSwitch, EmptyShown
  <1>7. p \in PagesTo(issued) /\ p.main = n.main /\ p.nav = n.id /\ (p.told => n.sub = hash.sub)
    BY <1>4 DEF PagesTo
  <1> HIDE DEF p, new, empty
  <1>8. TypeOK'
    BY <1>1, <1>2, <1>3, <1>6, <1>7 DEF TypeOK
  <1>9. Numbered'
    <2>1. \A m \in navs' : m \in navs /\ m.id # n.id
      BY <1>1, <1>2 DEF Numbered
    <2>2. n.id = issued => n.main = hash.main
      BY <1>1 DEF Numbered
    <2> QED BY <1>1, <1>2, <1>7, <2>1, <2>2 DEF Numbered
  <1>10. Ended'
    <2>1. CASE n.id = issued
      <3>1. None \notin PagesTo(issued)
        BY <1>1, NoneIsNoPage DEF TypeOK
      <3> QED BY <1>2, <1>7, <2>1, <3>1 DEF Ended
    <2>2. CASE n.id # issued
      <3>1. SUFFICES ASSUME ~lost, ~overtaken', \A m \in navs' : m.id # issued
                     PROVE  FALSE
        BY <1>2 DEF Ended
      <3>2. \A m \in navs : m.id # issued
        BY <1>2, <2>2, <3>1
      <3> QED BY <1>2, <2>2, <3>1, <3>2
    <2> QED BY <2>1, <2>2
  <1>11. Told'
    <2>1. CASE switches' = {new} /\ shown' = empty
      BY <1>2, <1>6, <1>7, <2>1 DEF Told
    <2>2. CASE switches' = {} /\ shown' = new
      BY <1>2, <1>6, <1>7, <2>2 DEF Told
    <2> QED BY <1>2, <2>1, <2>2
  <1>12. Checked'
    BY <1>1, <1>2 DEF Checked
  <1>13. ClosedIsOutside'
    BY <1>1, <1>2, <1>3 DEF ClosedIsOutside
  <1> QED BY <1>8, <1>9, <1>10, <1>11, <1>12, <1>13 DEF IInv

LEMMA DataComesInv ==
  ASSUME IInv, DataComes
  PROVE  IInv'
  <1> DEFINE p == [curr EXCEPT !.told = TRUE]
  <1>1. TypeOK /\ Numbered /\ Ended /\ Told /\ Checked /\ ClosedIsOutside
    BY DEF IInv
  <1>2. /\ curr # None /\ SwitchSub(p, hash.sub)
        /\ UNCHANGED <<hash, main, navs, issued, session, requests, logins, lost, overtaken>>
    BY DEF DataComes
  <1>3. UNCHANGED <<key, history, logged_in>>
    BY <1>2 DEF session
  <1>4. p \in PagesTo(issued) /\ p.main = curr.main /\ p.nav = curr.nav
    BY <1>1, <1>2, ToldPage
  <1>5. hash.sub \in SubParts
    BY <1>1, Parts DEF TypeOK
  <1>6. None \notin PagesTo(issued)
    BY <1>1, NoneIsNoPage DEF TypeOK
  <1> HIDE DEF p
  <1>7. /\ curr' = p
        /\ asked' \in 0..MaxAsked
        /\ shown' \in ShownTo(asked')
        /\ switches' \subseteq SwitchesTo(asked')
        /\ shown'.n = asked' => shown'.sub = hash.sub
        /\ \A t \in switches' : t.n = asked' => t.sub = hash.sub
    BY <1>1, <1>2, <1>5, SwitchSubFacts
  <1>8. TypeOK'
    BY <1>1, <1>2, <1>3, <1>4, <1>7 DEF TypeOK
  <1>9. Numbered'
    BY <1>1, <1>2, <1>4, <1>7 DEF Numbered
  <1>10. Ended'
    BY <1>1, <1>2, <1>4, <1>6, <1>7 DEF Ended
  <1>11. Told'
    BY <1>2, <1>7 DEF Told
  <1>12. Checked' /\ ClosedIsOutside'
    BY <1>1, <1>2, <1>3 DEF Checked, ClosedIsOutside
  <1> QED BY <1>8, <1>9, <1>10, <1>11, <1>12 DEF IInv

\* A sub page comes, or does not: only the one of the newest change matters.
LEMMA SubInv ==
  ASSUME IInv, NEW s \in switches, SubLoaded(s) \/ SubFails(s)
  PROVE  IInv'
  <1>1. TypeOK /\ Numbered /\ Ended /\ Told /\ Checked /\ ClosedIsOutside
    BY DEF IInv
  <1>2. /\ switches' = switches \ {s}
        /\ shown' = shown \/ shown' = [n |-> s.n, sub |-> s.sub]
        /\ UNCHANGED <<hash, main, navs, issued, curr, asked, session, requests, logins, lost,
                       overtaken>>
    BY DEF SubLoaded, SubFails
  <1>3. UNCHANGED <<key, history, logged_in>>
    BY <1>2 DEF session
  <1>4. [n |-> s.n, sub |-> s.sub] \in ShownTo(asked)
    BY <1>1 DEF TypeOK, SwitchesTo, ShownTo
  <1>5. TypeOK'
    BY <1>1, <1>2, <1>3, <1>4 DEF TypeOK
  <1>6. Numbered' /\ Ended'
    BY <1>1, <1>2 DEF Numbered, Ended
  <1>7. Told'
    BY <1>1, <1>2 DEF Told
  <1>8. Checked' /\ ClosedIsOutside'
    BY <1>1, <1>2, <1>3 DEF Checked, ClosedIsOutside
  <1> QED BY <1>5, <1>6, <1>7, <1>8 DEF IInv

-----------------------------------------------------------------------------
(* The invariant, and what follows from it.                                *)

\* Each of the login form's steps changes the session only.
LEMMA LoginInv ==
  ASSUME IInv, Submit \/ LoginFailed
  PROVE  IInv'
  <1>1. TypeOK
    BY DEF IInv
  <1>2. /\ logins' \in 0..MaxLogins
        /\ UNCHANGED <<hash, main, navs, issued, page, session, requests, lost, overtaken>>
    BY <1>1, BoundAssumption DEF Submit, LoginFailed, TypeOK
  <1>3. UNCHANGED <<key, history, logged_in>>
    BY <1>2 DEF session
  <1>4. /\ key' \in Keys \cup {None} /\ history' \in Places \cup {None}
        /\ requests' \subseteq Keys \cup {None} /\ logged_in' \in BOOLEAN /\ lost' \in BOOLEAN
    BY <1>1, <1>2, <1>3 DEF TypeOK
  <1> QED BY <1>2, <1>3, <1>4, SubsetInv

\* An answer that changes no navigation.
LEMMA AnsweredInv ==
  ASSUME IInv, NEW k \in requests, Answered(k)
  PROVE  IInv'
  <1>1. TypeOK
    BY DEF IInv
  <1>2. /\ requests' = requests \ {k}
        /\ UNCHANGED <<hash, main, navs, issued, page, session, logins, lost, overtaken>>
    BY DEF Answered
  <1>3. UNCHANGED <<key, history, logged_in>>
    BY <1>2 DEF session
  <1>4. /\ key' \in Keys \cup {None} /\ history' \in Places \cup {None}
        /\ requests' \subseteq Keys \cup {None} /\ logged_in' \in BOOLEAN
        /\ logins' \in 0..MaxLogins /\ lost' \in BOOLEAN
    BY <1>1, <1>2, <1>3 DEF TypeOK
  <1> QED BY <1>2, <1>3, <1>4, SubsetInv

LEMMA GotoInv ==
  ASSUME IInv, NEW h \in Places, Goto(h)
  PROVE  IInv'
  <1>1. /\ key' \in Keys \cup {None} /\ history' \in Places \cup {None}
        /\ logged_in' \in BOOLEAN /\ logins' \in 0..MaxLogins
    BY DEF Goto, session, IInv, TypeOK
  <1>2. ClosedIsOutside'
    BY DEF Goto, Visit, session, IInv, Numbered, ClosedIsOutside
  <1> QED BY <1>1, <1>2, VisitInv DEF Goto

LEMMA LoginAnsweredInv ==
  ASSUME IInv, NEW k \in Keys, LoginAnswered(k)
  PROVE  IInv'
  <1>1. TypeOK
    BY DEF IInv
  <1>2. Target \in Places
    BY <1>1, PlacesAssumption DEF Target, TypeOK
  <1>3. /\ key' \in Keys \cup {None} /\ history' \in Places \cup {None}
        /\ logged_in' \in BOOLEAN /\ logins' \in 0..MaxLogins
    BY <1>1, BoundAssumption DEF LoginAnswered, TypeOK
  <1>4. ClosedIsOutside'
    BY PlacesAssumption DEF LoginAnswered, ClosedIsOutside
  <1> QED BY <1>2, <1>3, <1>4, VisitInv DEF LoginAnswered

LEMMA KeyValidInv ==
  ASSUME IInv, NEW n \in navs, KeyValid(n)
  PROVE  IInv'
  <1>1. TypeOK
    BY DEF IInv
  <1>2. /\ n.stage = "key"
        /\ navs' = (navs \ {n}) \cup {[n EXCEPT !.stage = "user"]}
        /\ UNCHANGED <<hash, main, issued, page, session, requests, logins, lost, overtaken>>
    BY DEF KeyValid
  <1>3. UNCHANGED <<key, history, logged_in>>
    BY <1>2 DEF session
  <1>4. /\ key' \in Keys \cup {None} /\ history' \in Places \cup {None}
        /\ requests' \subseteq Keys \cup {None} /\ logged_in' \in BOOLEAN
        /\ logins' \in 0..MaxLogins
    BY <1>1, <1>2, <1>3 DEF TypeOK
  <1> QED BY <1>2, <1>3, <1>4, StageInv

LEMMA FailsInv ==
  ASSUME IInv, NEW n \in navs, Fails(n)
  PROVE  IInv'
  <1>1. TypeOK
    BY DEF IInv
  <1>2. /\ navs' = navs \ {n} /\ lost' = (lost \/ n.id = issued)
        /\ UNCHANGED <<hash, main, issued, page, session, requests, logins, overtaken>>
    BY DEF Fails
  <1>3. UNCHANGED <<key, history, logged_in>>
    BY <1>2 DEF session
  <1>4. /\ key' \in Keys \cup {None} /\ history' \in Places \cup {None}
        /\ requests' \subseteq Keys \cup {None} /\ logged_in' \in BOOLEAN
        /\ logins' \in 0..MaxLogins /\ lost' \in BOOLEAN
    BY <1>1, <1>2, <1>3 DEF TypeOK
  <1> QED BY <1>2, <1>3, <1>4, SubsetInv

LEMMA Inductive == IInv /\ [Next]_vars => IInv'
  <1> SUFFICES ASSUME IInv, [Next]_vars PROVE IInv'
    OBVIOUS
  <1>1. ASSUME NEW h \in Places, Goto(h) PROVE IInv'
    BY <1>1, GotoInv
  <1>2. ASSUME NEW h \in Places, GotoClosed(h) PROVE IInv'
    BY <1>2, GotoClosedInv
  <1>3. CASE Logout
    BY <1>3, LoggedOutInv DEF Logout
  <1>4. CASE Submit \/ LoginFailed
    BY <1>4, LoginInv
  <1>5. ASSUME NEW k \in Keys, LoginAnswered(k) PROVE IInv'
    BY <1>5, LoginAnsweredInv
  <1>6. ASSUME NEW n \in navs, KeyValid(n) PROVE IInv'
    BY <1>6, KeyValidInv
  <1>7. ASSUME NEW n \in navs, CheckCloses(n) PROVE IInv'
    BY <1>7, CheckClosesInv
  <1>8. ASSUME NEW n \in navs, UserKnown(n) PROVE IInv'
    BY <1>8, UserKnownInv
  <1>9. ASSUME NEW n \in navs, Fails(n) PROVE IInv'
    BY <1>9, FailsInv
  <1>10. ASSUME NEW n \in navs, Built(n) PROVE IInv'
    BY <1>10, BuiltInv
  <1>11. CASE DataComes
    BY <1>11, DataComesInv
  <1>12. ASSUME NEW s \in switches, SubLoaded(s) \/ SubFails(s) PROVE IInv'
    BY <1>12, SubInv
  <1>13. ASSUME NEW k \in requests, Answered(k) PROVE IInv'
    BY <1>13, AnsweredInv
  <1>14. ASSUME NEW k \in requests, Expired(k) PROVE IInv'
    <2>1. requests \ {k} \in SUBSET requests /\ navs \in SUBSET navs
      OBVIOUS
    <2> QED BY <1>14, <2>1, LoggedOutInv DEF Expired
  <1>15. CASE UNCHANGED vars
    BY <1>15 DEF vars, page, session, IInv, TypeOK, Numbered, Ended, Told, Checked,
                 ClosedIsOutside
  <1> QED BY <1>1, <1>2, <1>3, <1>4, <1>5, <1>6, <1>7, <1>8, <1>9, <1>10, <1>11,
             <1>12, <1>13, <1>14, <1>15 DEF Next

\* The strengthening holds in every reachable state.
THEOREM Invariance == Spec => []IInv
  BY InitInv, Inductive, PTL DEF Spec

\* The types of the shell's variables (the records that routes.coffee, auth.coffee
\* and the pages keep).
THEOREM TypeCorrect == Spec => []TypeOK
  <1>1. IInv => TypeOK
    BY DEF IInv
  <1> QED BY <1>1, Invariance, PTL

\* Whatever the places, and however many navigations overtake one another: when
\* they have ended the URL's page is shown, unless the newest was lost or an
\* older one ended after it (routes.coffee:43-63).
THEOREM UrlShown == Spec => []UrlIsShown
  <1>1. IInv => UrlIsShown
    BY DEF IInv, Numbered, Ended, UrlIsShown
  <1> QED BY <1>1, Invariance, PTL

\* However late the modules of sub pages come: the newest change of the sub page
\* shows the URL's sub part, if the page was told of it (routes.coffee:62,
\* bases/page/main.coffee:16).
THEOREM SubShown == Spec => []SubIsShown
  <1>1. IInv => SubIsShown
    BY DEF IInv, Told, SubIsShown
  <1> QED BY <1>1, Invariance, PTL

\* However the session was closed, and whatever was under way then: without a key
\* the URL is outside the protected pages (auth.coffee:152-157,
\* routes.coffee:64-66).
THEOREM ClosedOutside == Spec => []ClosedIsOutside
  <1>1. IInv => ClosedIsOutside
    BY DEF IInv
  <1> QED BY <1>1, Invariance, PTL
================================================================================
