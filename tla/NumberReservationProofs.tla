------------------------ MODULE NumberReservationProofs ------------------------
(***************************************************************************)
(* The tenant's number is reserved for the tenant, for any set of numbers  *)
(* and any bounds.  MainIsHeld is not inductive: that the number in use is *)
(* not being released rests on where every held number is (HeldAccounted), *)
(* on each of them being in one place only (RolesDisjoint), and on the     *)
(* tenant having no number while the automatic reservation is under way    *)
(* (NoNumberBeforeAuto).  Together with the types they are inductive.      *)
(***************************************************************************)
EXTENDS NumberReservation, TLAPS

IInv == TypeOK /\ HeldAccounted /\ RolesDisjoint /\ NoNumberBeforeAuto

\* What the steps do to the state the invariant is about: steps that only move
\* the search form leave it alone.
core == <<owner, main_number, auto, autoNumber, grants, releases, leaked>>

\* In the initial states the order holds no number.
LEMMA InitIInv == Init => IInv
  BY NumberAssumption, BoundAssumption
  DEF Init, IInv, TypeOK, MaybeNumber, HeldAccounted, RolesDisjoint,
      NoNumberBeforeAuto, Held, MainRole, AutoRole

\* Every step of the page, the backend and the other customers keeps the types.
LEMMA TypeStep == TypeOK /\ [Next]_vars => TypeOK'
<1> SUFFICES ASSUME TypeOK, [Next]_vars PROVE TypeOK'
  OBVIOUS
<1> USE NumberAssumption, BoundAssumption DEF TypeOK, MaybeNumber, autoVars, searchVars
<1>1. CASE AutoGrant \/ AutoFailed \/ AutoGranted \/ AutoLost
  BY <1>1 DEF AutoGrant, AutoFailed, AutoGranted, AutoLost
<1>2. CASE Search \/ Refresh \/ Reserve
  BY <1>2 DEF Search, Refresh, Reserve
<1>3. ASSUME NEW found \in SUBSET Numbers, Listed(found) PROVE TypeOK'
  BY <1>3 DEF Listed
<1>4. ASSUME NEW n \in Numbers, AutoFound(n) \/ Choose(n) PROVE TypeOK'
  BY <1>4 DEF AutoFound, Choose
<1>5. ASSUME NEW n \in Numbers, Grant(n) \/ Refuse(n) PROVE TypeOK'
  BY <1>5 DEF Grant, Refuse, SearchAgain
<1>6. ASSUME NEW n \in Numbers, Granted(n) \/ GrantedThrows(n) \/ GrantLost(n)
      PROVE TypeOK'
  BY <1>6 DEF Granted, GrantedThrows, GrantLost, SearchAgain
<1>7. ASSUME NEW n \in Numbers,
             Released(n) \/ ReleaseFailed(n) \/ OthersTake(n) \/ OthersGiveUp(n)
      PROVE TypeOK'
  BY <1>7 DEF Released, ReleaseFailed, OthersTake, OthersGiveUp
<1>8. CASE UNCHANGED vars
  BY <1>8 DEF vars
<1> QED
  BY <1>1, <1>2, <1>3, <1>4, <1>5, <1>6, <1>7, <1>8 DEF Next

\* A step that leaves the core alone keeps the rest of the invariant.
LEMMA CoreStep == IInv /\ UNCHANGED core => (HeldAccounted /\ RolesDisjoint /\ NoNumberBeforeAuto)'
  BY DEF IInv, core, HeldAccounted, RolesDisjoint, NoNumberBeforeAuto, Held,
         MainRole, AutoRole

\* Every step keeps the accounts: one case per action that moves a number from
\* one role to another.
LEMMA AccountStep ==
  IInv /\ [Next]_vars => (HeldAccounted /\ RolesDisjoint /\ NoNumberBeforeAuto)'
<1> DEFINE Goal == (HeldAccounted /\ RolesDisjoint /\ NoNumberBeforeAuto)'
<1> SUFFICES ASSUME IInv, [Next]_vars PROVE Goal
  OBVIOUS
<1> USE NumberAssumption DEF IInv, TypeOK, MaybeNumber, HeldAccounted, RolesDisjoint,
        NoNumberBeforeAuto, Held, MainRole, AutoRole, autoVars, searchVars
<1>1. CASE AutoGrant
  BY <1>1 DEF AutoGrant
<1>2. CASE AutoFailed
  BY <1>2 DEF AutoFailed
<1>3. CASE AutoGranted
  BY <1>3 DEF AutoGranted
<1>4. CASE AutoLost
  BY <1>4 DEF AutoLost
<1>5. ASSUME NEW n \in Numbers, AutoFound(n) PROVE Goal
  BY <1>5 DEF AutoFound
<1>6. ASSUME NEW n \in Numbers, Grant(n) PROVE Goal
  BY <1>6 DEF Grant
<1>7. ASSUME NEW n \in Numbers, Granted(n) PROVE Goal
  BY <1>7 DEF Granted
<1>8. ASSUME NEW n \in Numbers, GrantedThrows(n) PROVE Goal
  BY <1>8 DEF GrantedThrows
<1>9. ASSUME NEW n \in Numbers, GrantLost(n) PROVE Goal
  BY <1>9 DEF GrantLost, SearchAgain
<1>10. ASSUME NEW n \in Numbers, Released(n) PROVE Goal
  BY <1>10 DEF Released
<1>11. ASSUME NEW n \in Numbers, ReleaseFailed(n) PROVE Goal
  BY <1>11 DEF ReleaseFailed
<1>12. ASSUME NEW n \in Numbers, OthersTake(n) PROVE Goal
  BY <1>12 DEF OthersTake
<1>13. ASSUME NEW n \in Numbers, OthersGiveUp(n) PROVE Goal
  BY <1>13 DEF OthersGiveUp
<1>14. CASE UNCHANGED core
  BY <1>14, CoreStep
<1>15. CASE Search \/ Refresh \/ Reserve
  BY <1>15, <1>14 DEF Search, Refresh, Reserve, core
<1>16. ASSUME NEW found \in SUBSET Numbers, Listed(found) PROVE Goal
  BY <1>16, <1>14 DEF Listed, core
<1>17. ASSUME NEW n \in Numbers, Choose(n) \/ Refuse(n) PROVE Goal
  BY <1>17, <1>14 DEF Choose, Refuse, SearchAgain, core
<1>18. CASE UNCHANGED vars
  BY <1>18, <1>14 DEF vars, core
<1> QED
  BY <1>1, <1>2, <1>3, <1>4, <1>5, <1>6, <1>7, <1>8, <1>9, <1>10, <1>11, <1>12,
     <1>13, <1>15, <1>16, <1>17, <1>18 DEF Next

\* The inductive invariant holds in every reachable state.
THEOREM Inductive == Spec => []IInv
<1>1. Init => IInv
  BY InitIInv
<1>2. IInv /\ [Next]_vars => IInv'
  BY TypeStep, AccountStep DEF IInv
<1> QED
  BY <1>1, <1>2, PTL DEF Spec

\* Every variable of the reservation keeps its type.
THEOREM TypeCorrect == Spec => []TypeOK
<1>1. IInv => TypeOK
  BY DEF IInv
<1> QED
  BY <1>1, Inductive, PTL

\* Every number the backend holds for the order is accounted for.
THEOREM AllAccounted == Spec => []HeldAccounted
<1>1. IInv => HeldAccounted
  BY DEF IInv
<1> QED
  BY <1>1, Inductive, PTL

\* No number is in two roles at once.
THEOREM RolesStayDisjoint == Spec => []RolesDisjoint
<1>1. IInv => RolesDisjoint
  BY DEF IInv
<1> QED
  BY <1>1, Inductive, PTL

\* The number the order shows is reserved for it and is not being released.
THEOREM NumberIsHeld == Spec => []MainIsHeld
<1>1. IInv => MainIsHeld
  BY NumberAssumption
  DEF IInv, TypeOK, HeldAccounted, RolesDisjoint, MainIsHeld, MainRole, Held, MaybeNumber
<1> QED
  BY <1>1, Inductive, PTL

\* The answer to the automatic reservation never replaces a number.
THEOREM AutomaticNeverOverwrites == Spec => AutoNeverOverwrites
<1>1. IInv /\ [Next]_vars =>
        [auto = "granted" /\ main_number' # main_number => main_number = NoNumber]_vars
  BY DEF IInv, NoNumberBeforeAuto
<1> QED
  BY <1>1, Inductive, PTL DEF Spec, AutoNeverOverwrites

\* A number that is replaced is being released from that very step on, and its
\* replacement is held.
THEOREM ReplacedNumberIsReleased == Spec => ReplacedIsReleased
<1> DEFINE Replaced == main_number # NoNumber /\ main_number' # main_number
           Handed   == main_number \in releases' /\ main_number' \in Held
<1>1. IInv /\ Next /\ Replaced => Handed
  <2> SUFFICES ASSUME IInv, Next, Replaced PROVE Handed
    OBVIOUS
  <2>1. ~AutoGranted
    BY DEF IInv, NoNumberBeforeAuto, AutoGranted
  <2>2. PICK n \in Numbers : Granted(n)
    BY <2>1 DEF Next, AutoGrant, AutoFailed, AutoLost, Search, Refresh, Reserve,
       Listed, AutoFound, Choose, Grant, Refuse, SearchAgain, Granted, GrantedThrows, GrantLost,
       Released, ReleaseFailed, OthersTake, OthersGiveUp
  <2> QED
    BY <2>2 DEF Granted, IInv, HeldAccounted
<1>2. IInv /\ [Next]_vars => [Replaced => Handed]_vars
  BY <1>1
<1> QED
  BY <1>2, Inductive, PTL DEF Spec, ReplacedIsReleased

-----------------------------------------------------------------------------
(* The reservation implements NumberLife.                                  *)

lifeOf == [n \in Numbers |-> LifeOf(n)]

\* What the invariant says of the lives: a number is in use, granted, returning
\* or stranded because it has just that role.
LEMMA Lives ==
  ASSUME IInv, NEW n \in Numbers
  PROVE  /\ owner[n] # "us" => lifeOf[n] = owner[n]
         /\ n = main_number => lifeOf[n] = "used"
         /\ n \in releases => lifeOf[n] = "returning"
         /\ n \in leaked => lifeOf[n] = "stranded"
         /\ n \in AutoRole \cup grants => lifeOf[n] = "granted"
         /\ lifeOf[n] = "used" => n = main_number
  BY NumberAssumption
  DEF IInv, TypeOK, MaybeNumber, HeldAccounted, RolesDisjoint, Held, MainRole, AutoRole,
      lifeOf, LifeOf

\* A step after which one number's role differs, and the others' do not.
LEMMA OneGoes ==
  ASSUME NEW n \in Numbers, NEW from, NEW to,
         lifeOf[n] = from, lifeOf'[n] = to,
         \A m \in Numbers \ {n} : lifeOf'[m] = lifeOf[m]
  PROVE  Life!Goes(n, from, to)
  BY DEF Life!Goes, lifeOf


\* A step that leaves the owners, the order's number, the releases and the leaks
\* alone leaves every life as it is.
LEMMA SameLife == UNCHANGED <<owner, main_number, releases, leaked>> => UNCHANGED lifeOf
  BY DEF lifeOf, LifeOf

\* A number is granted, by either way of asking for one.
LEMMA GrantLife ==
  ASSUME IInv, NEW n \in Numbers, owner[n] = "free", owner' = [owner EXCEPT ![n] = "us"],
         UNCHANGED <<main_number, releases, leaked>>
  PROVE  Life!Grant(n)
<1>1. n # main_number /\ n \notin releases \cup leaked
  BY NumberAssumption DEF IInv, HeldAccounted, Held, MainRole
<1>2. lifeOf[n] = "free" /\ lifeOf'[n] = "granted"
  BY <1>1 DEF IInv, TypeOK, lifeOf, LifeOf
<1>3. \A m \in Numbers \ {n} : lifeOf'[m] = lifeOf[m]
  BY DEF IInv, TypeOK, lifeOf, LifeOf
<1> QED
  BY <1>2, <1>3, OneGoes DEF Life!Grant

\* A granted number is put to use, and the one in use is returned.
LEMMA UseLife ==
  ASSUME IInv, NEW n \in AutoRole \cup grants, n \in Numbers,
         main_number' = n,
         releases' = releases \cup ({main_number} \ {NoNumber}),
         UNCHANGED <<owner, leaked>>
  PROVE  Life!Use(n)
<1>1. lifeOf[n] = "granted" /\ owner[n] = "us"
  BY Lives DEF IInv, HeldAccounted, Held
<1>2. lifeOf'[n] = "used"
  BY <1>1 DEF lifeOf, LifeOf
<1>3. ASSUME NEW m \in Numbers, m # n, lifeOf[m] = "used" PROVE lifeOf'[m] = "returning"
  <2>1. m = main_number /\ owner[m] = "us"
    BY <1>3, Lives, NumberAssumption DEF IInv, HeldAccounted, Held, MainRole
  <2> QED
    BY <1>3, <2>1, NumberAssumption DEF lifeOf, LifeOf
<1>4. ASSUME NEW m \in Numbers, m # n, lifeOf[m] # "used" PROVE lifeOf'[m] = lifeOf[m]
  <2>1. m # main_number
    BY <1>4, Lives
  <2> QED
    BY <1>4, <2>1 DEF lifeOf, LifeOf
<1> QED
  BY <1>1, <1>2, <1>3, <1>4 DEF Life!Use, lifeOf

\* The answer to a grant is lost, or of no use to the page that throws on it.
LEMMA StrandGrant ==
  ASSUME IInv, NEW n \in AutoRole \cup grants, n \in Numbers,
         leaked' = leaked \cup {n}, UNCHANGED <<owner, main_number, releases>>
  PROVE  Life!Strand(n)
<1>1. lifeOf[n] = "granted" /\ owner[n] = "us" /\ n # main_number /\ n \notin releases
  BY Lives, NumberAssumption DEF IInv, HeldAccounted, RolesDisjoint, Held, MainRole
<1>2. lifeOf'[n] = "stranded"
  BY <1>1 DEF lifeOf, LifeOf
<1>3. \A m \in Numbers \ {n} : lifeOf'[m] = lifeOf[m]
  BY DEF lifeOf, LifeOf
<1> QED
  BY <1>1, <1>2, <1>3, OneGoes DEF Life!Strand

\* Whether it is carried out or fails, a release ends a number's return.
LEMMA ReleaseLife ==
  ASSUME IInv, NEW n \in Numbers, Released(n) \/ ReleaseFailed(n)
  PROVE  Life!Return(n) \/ Life!Strand(n)
<1>1. lifeOf[n] = "returning" /\ owner[n] = "us" /\ n # main_number
  BY Lives, NumberAssumption
  DEF Released, ReleaseFailed, IInv, HeldAccounted, RolesDisjoint, Held, MainRole
<1>2. CASE Released(n)
  <2>1. lifeOf'[n] = "free"
    BY <1>2 DEF Released, IInv, TypeOK, lifeOf, LifeOf
  <2>2. \A m \in Numbers \ {n} : lifeOf'[m] = lifeOf[m]
    BY <1>2 DEF Released, IInv, TypeOK, lifeOf, LifeOf
  <2> QED
    BY <1>1, <2>1, <2>2, OneGoes DEF Life!Return
<1>3. CASE ReleaseFailed(n)
  <2>1. lifeOf'[n] = "stranded"
    BY <1>1, <1>3 DEF ReleaseFailed, lifeOf, LifeOf
  <2>2. \A m \in Numbers \ {n} : lifeOf'[m] = lifeOf[m]
    BY <1>3 DEF ReleaseFailed, lifeOf, LifeOf
  <2> QED
    BY <1>1, <2>1, <2>2, OneGoes DEF Life!Strand
<1> QED
  BY <1>2, <1>3

\* Other customers take and give up numbers that the order does not hold.
LEMMA OthersLife ==
  ASSUME IInv, NEW n \in Numbers, OthersTake(n) \/ OthersGiveUp(n)
  PROVE  Life!Others(n)
<1>1. \A m \in Numbers \ {n} : lifeOf'[m] = lifeOf[m]
  BY DEF OthersTake, OthersGiveUp, IInv, TypeOK, lifeOf, LifeOf
<1>2. CASE OthersTake(n)
  <2>1. lifeOf[n] = "free" /\ lifeOf'[n] = "other"
    BY <1>2 DEF OthersTake, IInv, TypeOK, lifeOf, LifeOf
  <2> QED
    BY <1>1, <2>1, OneGoes DEF Life!Others
<1>3. CASE OthersGiveUp(n)
  <2>1. lifeOf[n] = "other" /\ lifeOf'[n] = "free"
    BY <1>3 DEF OthersGiveUp, IInv, TypeOK, lifeOf, LifeOf
  <2> QED
    BY <1>1, <2>1, OneGoes DEF Life!Others
<1> QED
  BY <1>2, <1>3

\* Every step is a step of some number's life, or leaves all lives as they are.
LEMMA LifeStep == IInv /\ [Next]_vars => [Life!Next]_lifeOf
<1> DEFINE Goal == [Life!Next]_lifeOf
<1> SUFFICES ASSUME IInv, [Next]_vars PROVE Goal
  OBVIOUS
<1>1. ASSUME NEW n \in Numbers,
             Life!Others(n) \/ Life!Grant(n) \/ Life!Use(n) \/ Life!Strand(n) \/ Life!Return(n)
      PROVE Goal
  BY <1>1 DEF Life!Next
<1>2. CASE UNCHANGED <<owner, main_number, releases, leaked>>
  BY <1>2, SameLife
<1> HIDE DEF Goal
<1>3. auto = "granted" => autoNumber \in Numbers /\ AutoRole = {autoNumber} /\ main_number = NoNumber
  BY DEF IInv, TypeOK, MaybeNumber, AutoRole, NoNumberBeforeAuto
<1>4. CASE AutoGrant
  <2>1. autoNumber \in Numbers
    BY <1>4 DEF AutoGrant, IInv, TypeOK, MaybeNumber
  <2>2. Life!Grant(autoNumber)
    BY <1>4, <2>1, GrantLife DEF AutoGrant
  <2> QED
    BY <1>1, <2>1, <2>2
<1>5. CASE AutoGranted
  <2>1. Life!Use(autoNumber)
    BY <1>3, <1>5, UseLife DEF AutoGranted
  <2> QED
    BY <1>1, <1>3, <1>5, <2>1 DEF AutoGranted
<1>6. CASE AutoLost
  <2>1. Life!Strand(autoNumber)
    BY <1>3, <1>6, StrandGrant DEF AutoLost
  <2> QED
    BY <1>1, <1>3, <1>6, <2>1 DEF AutoLost
<1>7. ASSUME NEW n \in Numbers, Grant(n) PROVE Goal
  <2>1. Life!Grant(n)
    BY <1>7, GrantLife DEF Grant
  <2> QED
    BY <1>1, <2>1
<1>8. ASSUME NEW n \in Numbers, Granted(n) PROVE Goal
  <2>1. Life!Use(n)
    BY <1>8, UseLife DEF Granted
  <2> QED
    BY <1>1, <2>1
<1>9. ASSUME NEW n \in Numbers, GrantedThrows(n) \/ GrantLost(n) PROVE Goal
  <2>1. Life!Strand(n)
    BY <1>9, StrandGrant DEF GrantedThrows, GrantLost, SearchAgain
  <2> QED
    BY <1>1, <2>1
<1>10. ASSUME NEW n \in Numbers, Released(n) \/ ReleaseFailed(n) PROVE Goal
  BY <1>1, <1>10, ReleaseLife
<1>11. ASSUME NEW n \in Numbers, OthersTake(n) \/ OthersGiveUp(n) PROVE Goal
  BY <1>1, <1>11, OthersLife
<1>12. CASE AutoFailed \/ Search \/ Refresh \/ Reserve
  BY <1>2, <1>12 DEF AutoFailed, Search, Refresh, Reserve
<1>13. ASSUME NEW found \in SUBSET Numbers, Listed(found) PROVE Goal
  BY <1>2, <1>13 DEF Listed
<1>14. ASSUME NEW n \in Numbers, AutoFound(n) \/ Choose(n) \/ Refuse(n) PROVE Goal
  BY <1>2, <1>14 DEF AutoFound, Choose, Refuse, SearchAgain
<1>15. CASE UNCHANGED vars
  BY <1>2, <1>15 DEF vars
<1> QED
  BY <1>4, <1>5, <1>6, <1>7, <1>8, <1>9, <1>10, <1>11, <1>12, <1>13, <1>14, <1>15 DEF Next

\* The reservation implements the life of a number.
THEOREM LifeRefines == Spec => NumbersLive
<1>1. Init => Life!Init
  BY DEF Init, Life!Init, LifeOf
<1>2. IInv /\ [Next]_vars => [Life!Next]_lifeOf
  BY LifeStep
<1> QED
  BY <1>1, <1>2, Inductive, PTL DEF Spec, NumbersLive, Life!Spec, lifeOf
=============================================================================
