---------------------------- MODULE ExecutorProofs ----------------------------
(* What holds of Execute whatever the processes do, for any number of calls  *)
(* and any amount of output.                                                 *)
EXTENDS Executor, SequenceTheorems, TLAPS

\* NothingLeftBehind is about a handler at rest.  Inductive is what leads there:
\* a child that was waited for has ended, and a call comes to its end with the
\* pipes closed and empty.
Quiet ==
  /\ pc = "copy" => child # "running"
  /\ pc \in {"idle", "start", "ended"} =>
       child # "running" /\ ~holder /\ output = written

\* A child that was waited for in time was not killed, and is not any more.
InTimeInv ==
  /\ inTime => pc \in {"copy", "ended", "idle"} /\ ~interrupted
  /\ interrupted => ctx # "live"

\* Init establishes the types, and every step of Next keeps them.
LEMMA TypedInit == Init => TypeOK
  <1>. SUFFICES ASSUME Init PROVE TypeOK
    OBVIOUS
  <1>1. log \in Seq(Entry)
    BY DEF Init
  <1>2. interrupted \in BOOLEAN /\ holder \in BOOLEAN /\ inTime \in BOOLEAN
    BY Zenon DEF Init
  <1>3. written \in 0..MaxWrites /\ output \in 0..written
    BY BoundsAssumption DEF Init
  <1>. QED
    BY <1>1, <1>2, <1>3, Zenon DEF Init, TypeOK, Exits

LEMMA TypedStep == TypeOK /\ Quiet /\ [Next]_vars => TypeOK'
  <1>. SUFFICES ASSUME TypeOK, Quiet, [Next]_vars PROVE TypeOK'
    OBVIOUS
  <1>. USE BoundsAssumption DEF TypeOK, Exits, process
  <1>1. CASE Execute
    <2>1. interrupted' \in BOOLEAN /\ holder' \in BOOLEAN /\ inTime' \in BOOLEAN
      BY <1>1, Zenon DEF Execute
    <2>2. written' \in 0..MaxWrites /\ output' \in 0..written'
      BY <1>1 DEF Execute
    <2>. QED
      BY <1>1, <2>1, <2>2, Zenon DEF Execute
  <1>2. CASE Start \/ StartFails
    BY <1>2 DEF Start, StartFails
  <1>3. CASE Kill
    BY <1>3 DEF Kill
  <1>4. CASE Reap
    BY <1>4 DEF Reap
  <1>5. CASE Copy
    BY <1>5 DEF Copy
  <1>6. CASE PipesEnd
    BY <1>6 DEF PipesEnd
  <1>7. CASE Return
    <2>1. [verdict |-> Verdict, exit |-> child, inTime |-> inTime] \in Entry
      <3>1. child \in Exits
        BY <1>7 DEF Return, Quiet
      <3>2. Verdict \in Verdicts
        BY Zenon DEF Verdict, Verdicts
      <3>. QED
        BY <3>1, <3>2, Zenon DEF Entry
    <2>2. log' \in Seq(Entry)
      BY <1>7, <2>1, AppendProperties DEF Return
    <2>. QED
      BY <1>7, <2>2 DEF Return
  <1>8. CASE Writes
    BY <1>8 DEF Writes
  <1>9. CASE Forks \/ HolderEnds
    BY <1>9 DEF Forks, HolderEnds
  <1>10. CASE Expire \/ Cancel
    BY <1>10 DEF Expire, Cancel
  <1>11. ASSUME NEW how \in {"exit0", "exitN"}, Exit(how) PROVE TypeOK'
    BY <1>11 DEF Exit
  <1>12. CASE UNCHANGED vars
    BY <1>12 DEF vars
  <1>. QED
    BY <1>1, <1>2, <1>3, <1>4, <1>5, <1>6, <1>7, <1>8, <1>9, <1>10, <1>11, <1>12
    DEF Next, InCall

LEMMA QuietStep == TypeOK /\ Quiet /\ [Next]_vars => Quiet'
  <1>. SUFFICES ASSUME TypeOK, Quiet, [Next]_vars PROVE Quiet'
    OBVIOUS
  <1>. USE DEF Quiet, process
  <1>1. CASE Execute
    BY <1>1 DEF Execute
  <1>2. CASE Start \/ StartFails
    BY <1>2 DEF Start, StartFails
  <1>3. CASE Kill
    BY <1>3 DEF Kill
  <1>4. CASE Reap \/ PipesEnd
    BY <1>4 DEF Reap, PipesEnd
  <1>5. CASE Copy
    BY <1>5 DEF Copy
  <1>6. CASE Return
    BY <1>6 DEF Return
  <1>7. CASE Writes
    BY <1>7 DEF Writes
  <1>8. CASE Forks \/ HolderEnds
    BY <1>8 DEF Forks, HolderEnds
  <1>9. CASE Expire \/ Cancel
    BY <1>9 DEF Expire, Cancel
  <1>10. ASSUME NEW how \in {"exit0", "exitN"}, Exit(how) PROVE Quiet'
    BY <1>10 DEF Exit
  <1>11. CASE UNCHANGED vars
    BY <1>11 DEF vars
  <1>. QED
    BY <1>1, <1>2, <1>3, <1>4, <1>5, <1>6, <1>7, <1>8, <1>9, <1>10, <1>11
    DEF Next, InCall

LEMMA TypedAlways == Spec => [](TypeOK /\ Quiet)
  <1>1. Init => TypeOK /\ Quiet
    BY TypedInit DEF Init, Quiet
  <1>2. TypeOK /\ Quiet /\ [Next]_vars => (TypeOK /\ Quiet)'
    BY TypedStep, QuietStep
  <1>. QED
    BY <1>1, <1>2, PTL DEF Spec

\* TypeOK is an invariant of Execute.
THEOREM TypeCorrect == Spec => []TypeOK
  BY TypedAlways, PTL

\* For any number of calls and any amount of output, when Execute has returned,
\* nothing of the command runs on behind its pipes and no output is missing.
THEOREM NothingLeftBehindAlways == Spec => []NothingLeftBehind
  <1>1. Quiet => NothingLeftBehind
    BY DEF Quiet, NothingLeftBehind
  <1>. QED
    BY <1>1, TypedAlways, PTL

LEMMA InTimeStep == TypeOK /\ Quiet /\ InTimeInv /\ [Next]_vars => InTimeInv'
  <1>. SUFFICES ASSUME TypeOK, Quiet, InTimeInv, [Next]_vars PROVE InTimeInv'
    OBVIOUS
  <1>. USE DEF InTimeInv, process
  <1>1. CASE Execute
    BY <1>1, Zenon DEF Execute
  <1>2. CASE Start \/ StartFails
    BY <1>2 DEF Start, StartFails
  <1>3. CASE Kill
    BY <1>3 DEF Kill
  <1>4. CASE Reap
    BY <1>4, Zenon DEF Reap
  <1>5. CASE Copy \/ PipesEnd
    BY <1>5 DEF Copy, PipesEnd
  <1>6. CASE Return
    BY <1>6 DEF Return
  <1>7. CASE Writes \/ Forks \/ HolderEnds
    BY <1>7 DEF Writes, Forks, HolderEnds
  <1>8. CASE Expire
    BY <1>8 DEF Expire
  <1>9. CASE Cancel
    BY <1>9 DEF Cancel
  <1>10. ASSUME NEW how \in {"exit0", "exitN"}, Exit(how) PROVE InTimeInv'
    BY <1>10 DEF Exit
  <1>11. CASE UNCHANGED vars
    BY <1>11 DEF vars
  <1>. QED
    BY <1>1, <1>2, <1>3, <1>4, <1>5, <1>6, <1>7, <1>8, <1>9, <1>10, <1>11
    DEF Next, InCall

\* Only Return adds to the history, and what it adds is right.
LEMMA VerdictStep ==
  TypeOK /\ InTimeInv /\ VerdictMatchesExit /\ [Next]_vars => VerdictMatchesExit'
  <1>. SUFFICES ASSUME TypeOK, InTimeInv, VerdictMatchesExit, [Next]_vars
                PROVE  VerdictMatchesExit'
    OBVIOUS
  <1>1. CASE Return
    <2>. DEFINE e == [verdict |-> Verdict, exit |-> child, inTime |-> inTime]
    <2>1. log \in Seq(Entry) /\ log' = Append(log, e)
      BY <1>1 DEF Return, TypeOK
    <2>2. /\ e.verdict = "ok" => e.exit = "exit0"
          /\ e.exit = "exit0" /\ e.inTime => e.verdict = "ok"
      BY Zenon DEF Verdict, InTimeInv
    <2>. SUFFICES ASSUME NEW i \in DOMAIN log'
                  PROVE  /\ log'[i].verdict = "ok" => log'[i].exit = "exit0"
                         /\ log'[i].exit = "exit0" /\ log'[i].inTime => log'[i].verdict = "ok"
      BY DEF VerdictMatchesExit
    <2>. HIDE DEF e
    <2>3. \/ i \in DOMAIN log /\ log'[i] = log[i]
          \/ log'[i] = e
      BY <2>1
    <2>. QED
      BY <2>2, <2>3 DEF VerdictMatchesExit
  <1>2. CASE UNCHANGED log
    BY <1>2 DEF VerdictMatchesExit
  <1>. QED
    BY <1>1, <1>2 DEF Next, InCall, Execute, Start, StartFails, Kill, Reap, Copy, PipesEnd,
       Writes, Forks, HolderEnds, Expire, Cancel, Exit, vars, process

\* For any number of calls, a nil error means exit code 0, and an exit code of 0
\* that was seen in time gives a nil error.
THEOREM VerdictMatchesExitAlways == Spec => []VerdictMatchesExit
  <1>1. Init => InTimeInv /\ VerdictMatchesExit
    BY DEF Init, InTimeInv, VerdictMatchesExit
  <1>2. TypeOK /\ Quiet /\ InTimeInv /\ VerdictMatchesExit /\ [Next]_vars
          => (InTimeInv /\ VerdictMatchesExit)'
    BY InTimeStep, VerdictStep
  <1>. QED
    BY <1>1, <1>2, TypedAlways, PTL DEF Spec

=============================================================================
