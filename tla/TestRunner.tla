------------------------------ MODULE TestRunner ------------------------------
(***************************************************************************)
(* The developers' test runner: it watches the compiled sources and runs   *)
(* the tests, in a child process, when one changes.  While the tests run a *)
(* change is only remembered (in_debt) and the tests run once more after.  *)
(*                                                                         *)
(* Versions count the changes.  A run is known by the version its child    *)
(* was started at: it tests that version or a later one.                   *)
(***************************************************************************)
EXTENDS Naturals

CONSTANT MaxChanges  \* bound: changes of the sources

ASSUME ChangesAssumption == MaxChanges \in Nat

VARIABLES
  version,   \* the changes of the sources so far
  running,   \* the tests are running
  in_debt,   \* a change came while they ran
  children,  \* child processes alive
  started,   \* the version the last child was started at
  tested,    \* the version of the last child that ended
  reported   \* the version of the last result that was published

vars == <<version, running, in_debt, children, started, tested, reported>>

\* run: the initial test.
Init ==
  /\ version = 1
  /\ running = TRUE
  /\ in_debt = FALSE
  /\ children = 1
  /\ started = 1
  /\ tested = 0
  /\ reported = 0

\* Mutants of test, below: the change is dropped while the tests run; the tests
\* are started without a look at those that run.
TestDropped(v) ==
  IF running THEN UNCHANGED <<running, in_debt, children, started>>
  ELSE /\ running' = TRUE
       /\ children' = children + 1
       /\ started' = v
       /\ UNCHANGED in_debt
TestAnyway(v) ==
  /\ running' = TRUE
  /\ children' = children + 1
  /\ started' = v
  /\ UNCHANGED in_debt

\* The test method, called when the sources are at version v.
Test(v) ==
  IF running
  THEN in_debt' = TRUE /\ UNCHANGED <<running, children, started>>
  ELSE /\ running' = TRUE
       /\ children' = children + 1
       /\ started' = v
       /\ UNCHANGED in_debt

\* The watcher sees a change of a compiled source.
Change ==
  /\ version < MaxChanges
  /\ version' = version + 1
  /\ Test(version')
  /\ UNCHANGED <<tested, reported>>

\* Mutants of Close: the debt is forgotten; every result is published; every
\* result is published as that of the sources as they are when it ends.
CloseForgets ==
  /\ children > 0
  /\ tested' = started
  /\ running' = FALSE
  /\ in_debt' = FALSE
  /\ children' = children - 1
  /\ reported' = started
  /\ UNCHANGED <<version, started>>
CloseReports ==
  /\ children > 0
  /\ tested' = started
  /\ reported' = started
  /\ in_debt' = FALSE
  /\ IF in_debt
     THEN started' = version /\ UNCHANGED <<running, children>>
     ELSE running' = FALSE /\ children' = children - 1 /\ UNCHANGED started
  /\ UNCHANGED version

CloseClaims ==
  /\ children > 0
  /\ tested' = started
  /\ reported' = version
  /\ in_debt' = FALSE
  /\ IF in_debt
     THEN started' = version /\ UNCHANGED <<running, children>>
     ELSE running' = FALSE /\ children' = children - 1 /\ UNCHANGED started
  /\ UNCHANGED version

\* The child has ended: running is reset and, in debt, the tests start again;
\* otherwise the result is published.
Close ==
  /\ children > 0
  /\ tested' = started
  /\ in_debt' = FALSE
  /\ IF in_debt
     THEN started' = version /\ UNCHANGED <<running, children, reported>>
     ELSE /\ running' = FALSE
          /\ children' = children - 1
          /\ reported' = started
          /\ UNCHANGED started
  /\ UNCHANGED version

Next == Change \/ Close

\* The tests end.  Nobody has to change the sources.
Spec == Init /\ [][Next]_vars /\ WF_vars(Close)

-----------------------------------------------------------------------------
\* Every variable has its type; what is published was tested, what was tested
\* was started, and nothing is started that is not there.
TypeOK ==
  /\ version \in Nat
  /\ running \in BOOLEAN /\ in_debt \in BOOLEAN
  /\ children \in Nat
  /\ reported \in 0..tested /\ tested \in 0..started /\ started \in 0..version

\* The tests run at most once at a time, and running says whether they do.
OneRun == children = IF running THEN 1 ELSE 0

\* "keep that in mind, and run it after the test is done": no change is
\* forgotten.  One the running tests did not start with is remembered; when
\* nothing runs all are tested and the result is published.
NothingForgotten ==
  /\ in_debt => running
  /\ IF running THEN started < version => in_debt
     ELSE tested = version /\ reported = version

\* A result is published only when it is that of the latest sources.
LatestReported == [][reported' # reported => reported' = version]_vars

\* Every change is tested in the end, however many come while the tests run.
EveryChangeTested == \A v \in 1..MaxChanges : version >= v ~> tested >= v
===============================================================================
