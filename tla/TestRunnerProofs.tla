---------------------------- MODULE TestRunnerProofs ----------------------------
(***************************************************************************)
(* The test runner forgets no change, for any number of them.  OneRun and  *)
(* NothingForgotten are inductive together with the types: a child is      *)
(* alive exactly while running says so, so Close always has a run to end,  *)
(* and a change made during the run has left its mark in in_debt.          *)
(***************************************************************************)
EXTENDS TestRunner, TLAPS

Sizes ==
  /\ version \in Nat /\ started \in Nat /\ tested \in Nat /\ reported \in Nat
  /\ children \in Nat
  /\ reported <= tested /\ tested <= started /\ started <= version

IInv == Sizes /\ OneRun /\ NothingForgotten

\* The first run is of the first version.
LEMMA InitIInv == Init => IInv
  BY DEF Init, IInv, Sizes, OneRun, NothingForgotten

\* A change and the end of a run keep the invariant.
LEMMA StepIInv == IInv /\ [Next]_vars => IInv'
<1> SUFFICES ASSUME IInv, [Next]_vars PROVE IInv'
  OBVIOUS
<1> USE DEF IInv, Sizes, OneRun, NothingForgotten
<1>1. CASE Change
  <2>1. version' = version + 1 /\ Test(version + 1) /\ UNCHANGED <<tested, reported>>
    BY <1>1 DEF Change
  <2>2. CASE running
    BY <2>1, <2>2 DEF Test
  <2>3. CASE ~running
    BY <2>1, <2>3 DEF Test
  <2> QED
    BY <2>2, <2>3
<1>2. CASE Close
  <2>1. running /\ children = 1
    BY <1>2 DEF Close
  <2>2. CASE in_debt
    BY <1>2, <2>1, <2>2 DEF Close
  <2>3. CASE ~in_debt
    BY <1>2, <2>1, <2>3 DEF Close
  <2> QED
    BY <2>2, <2>3
<1>3. CASE UNCHANGED vars
  BY <1>3 DEF vars
<1> QED
  BY <1>1, <1>2, <1>3 DEF Next

\* The flags keep their type.
LEMMA FlagsStep ==
  running \in BOOLEAN /\ in_debt \in BOOLEAN /\ [Next]_vars =>
    running' \in BOOLEAN /\ in_debt' \in BOOLEAN
<1> SUFFICES ASSUME running \in BOOLEAN, in_debt \in BOOLEAN, [Next]_vars
             PROVE  running' \in BOOLEAN /\ in_debt' \in BOOLEAN
  OBVIOUS
<1>1. CASE Change
  BY <1>1, Zenon DEF Change, Test
<1>2. CASE Close
  BY <1>2, Zenon DEF Close
<1>3. CASE UNCHANGED vars
  BY <1>3 DEF vars
<1> QED
  BY <1>1, <1>2, <1>3 DEF Next

\* The inductive invariant holds in every reachable state.
THEOREM Inductive == Spec => []IInv
  BY InitIInv, StepIInv, PTL DEF Spec

\* Every variable of the test runner keeps its type.
THEOREM TypeCorrect == Spec => []TypeOK
<1> DEFINE Flags == running \in BOOLEAN /\ in_debt \in BOOLEAN
<1>1. Init => Flags
  BY Zenon DEF Init
<1>2. Flags /\ [Next]_vars => Flags'
  BY FlagsStep
<1>3. IInv /\ Flags => TypeOK
  BY DEF IInv, Sizes, TypeOK
<1> HIDE DEF Flags
<1> QED
  BY <1>1, <1>2, <1>3, Inductive, PTL DEF Spec

\* The tests never run twice at the same time.
THEOREM RunsOnce == Spec => []OneRun
<1>1. IInv => OneRun
  BY DEF IInv
<1> QED
  BY <1>1, Inductive, PTL

\* No change is forgotten.
THEOREM ForgetsNothing == Spec => []NothingForgotten
<1>1. IInv => NothingForgotten
  BY DEF IInv
<1> QED
  BY <1>1, Inductive, PTL

\* Only results of the latest sources are published.
THEOREM ReportsLatest == Spec => LatestReported
<1>1. IInv /\ [Next]_vars => [reported' # reported => reported' = version]_vars
  <2> SUFFICES ASSUME IInv, Next, reported' # reported PROVE reported' = version
    OBVIOUS
  <2>1. CASE Change
    BY <2>1 DEF Change
  <2>2. CASE Close
    BY <2>2 DEF Close, IInv, Sizes, OneRun, NothingForgotten
  <2> QED
    BY <2>1, <2>2 DEF Next
<1> QED
  BY <1>1, Inductive, PTL DEF Spec, LatestReported
===============================================================================
