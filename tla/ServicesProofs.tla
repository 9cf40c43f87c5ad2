---------------------------- MODULE ServicesProofs ----------------------------
(* What holds of the service manager for any services, any calls and any     *)
(* number of jobs of the agent and of others.                                *)
EXTENDS Services, SequenceTheorems, TLAPS

\* What a manager in a call works on is one of the calls it was given; needed
\* for the type of the history.
LEMMA ReturnedTyped ==
  ASSUME NEW action \in Actions, NEW name \in Name, NEW job \in Nat,
         NEW err \in {"none", "unavailable", "call", "job", "notfound"}
  PROVE  Returned(action, name, err, job) \in Entry
  BY Zenon DEF Returned, Entry

\* The history grows by an entry of a call that ends.
LEMMA LogTyped ==
  ASSUME TypeOK, NEW e \in Entry, log' = Append(log, e)
  PROVE  log' \in Seq(Entry)
  BY AppendProperties DEF TypeOK

\* Ending a job gives it a result and leaves the others alone.
LEMMA FinishedTyped ==
  ASSUME jobs \in Seq(Job), NEW id \in Nat, NEW result \in Results
  PROVE  /\ Finished(id, result) \in Seq(Job)
         /\ Len(Finished(id, result)) = Len(jobs)
         /\ \A i \in 1..Len(jobs) :
              Finished(id, result)[i] =
                IF i = id THEN [jobs[i] EXCEPT !.result = result] ELSE jobs[i]
  <1>1. CASE id \notin DOMAIN jobs
    <2>1. [jobs EXCEPT ![id].result = result] = jobs
      BY <1>1
    <2>2. Finished(id, result) = jobs
      BY <2>1, Zenon DEF Finished
    <2>3. \A i \in 1..Len(jobs) : i # id
      BY <1>1
    <2>. QED
      BY <2>2, <2>3
  <1>2. CASE id \in DOMAIN jobs
    <2>. DEFINE e == [jobs[id] EXCEPT !.result = result]
    <2>1. id \in 1..Len(jobs) /\ id # 0 /\ jobs[id] \in Job
      BY <1>2
    <2>2. e \in Job
      BY <2>1 DEF Job
    <2>3. Finished(id, result) = [jobs EXCEPT ![id] = e]
      BY <2>1 DEF Finished
    <2>. HIDE DEF e
    <2>4. /\ [jobs EXCEPT ![id] = e] \in Seq(Job)
          /\ Len([jobs EXCEPT ![id] = e]) = Len(jobs)
          /\ \A i \in 1..Len(jobs) : [jobs EXCEPT ![id] = e][i] = IF i = id THEN e ELSE jobs[i]
      BY <2>1, <2>2, ExceptSeq
    <2>5. e = [jobs[id] EXCEPT !.result = result]
      BY DEF e
    <2>. QED
      BY <2>3, <2>4, <2>5
  <1>. QED
    BY <1>1, <1>2

LEMMA SignalledTyped ==
  ASSUME signals \in Seq(Signal), NEW id \in Nat, NEW result \in Results
  PROVE  Signalled(id, result) \in Seq(Signal)
  <1>1. id # 0 => [job |-> id, result |-> result] \in Signal
    BY DEF Signal
  <1>. QED
    BY <1>1, AppendProperties DEF Signalled

\* What changes of one unit: its job, or its file.
LEMMA UnitTyped ==
  ASSUME units \in [Units -> UnitRec], NEW u \in Units
  PROVE  /\ \A id \in Nat : [units EXCEPT ![u].job = id] \in [Units -> UnitRec]
         /\ \A file \in Files : [units EXCEPT ![u].file = file] \in [Units -> UnitRec]
  <1>1. units[u] \in UnitRec
    OBVIOUS
  <1>2. /\ \A id \in Nat : [units[u] EXCEPT !.job = id] \in UnitRec
        /\ \A file \in Files : [units[u] EXCEPT !.file = file] \in UnitRec
    BY <1>1, Zenon DEF UnitRec
  <1>. QED
    BY <1>2

LEMMA UnitJob ==
  ASSUME units \in [Units -> UnitRec], NEW u \in Units
  PROVE  units[u].job \in Nat
  BY DEF UnitRec

LEMMA TargetTyped == \A action : Target(action) \in Targets
  BY DEF Target, Targets

LEMMA AskedTyped == \A action : Asked(action) \in Files
  BY DEF Asked, Files

LEMMA InstallTyped ==
  ASSUME TypeOK, NEW u \in Units, NEW target \in Targets, Install(u, target)
  PROVE  /\ units' \in [Units -> UnitRec]
         /\ jobs' \in Seq(Job) /\ signals' \in Seq(Signal)
  <1>1. CASE Merges(u, target)
    BY <1>1 DEF Install, TypeOK
  <1>2. CASE ~Merges(u, target)
    <2>. DEFINE old == units[u].job
                new == [unit |-> u, target |-> target, result |-> ""]
    <2>1. old \in Nat /\ "canceled" \in Results
      BY UnitJob DEF TypeOK, Results
    <2>2. new \in Job
      BY DEF Job
    <2>3. Finished(old, "canceled") \in Seq(Job)
      BY <2>1, FinishedTyped DEF TypeOK
    <2>4. jobs' \in Seq(Job)
      <3>1. jobs' = Append(Finished(old, "canceled"), new)
        BY <1>2 DEF Install
      <3>. HIDE DEF old, new
      <3>. QED
        BY <2>2, <2>3, <3>1, AppendProperties
    <2>5. signals' \in Seq(Signal)
      BY <1>2, <2>1, SignalledTyped DEF Install, TypeOK
    <2>6. Len(jobs) + 1 \in Nat
      BY LenProperties DEF TypeOK
    <2>7. units' \in [Units -> UnitRec]
      <3>1. units' = [units EXCEPT ![u].job = Len(jobs) + 1]
        BY <1>2, Zenon DEF Install
      <3>2. [units EXCEPT ![u].job = Len(jobs) + 1] \in [Units -> UnitRec]
        BY <2>6, UnitTyped, Zenon DEF TypeOK
      <3>. QED
        BY <3>1, <3>2
    <2>. QED
      BY <2>4, <2>5, <2>7
  <1>. QED
    BY <1>1, <1>2

LEMMA ReturnTyped ==
  ASSUME TypeOK, NEW err \in {"none", "call", "job", "notfound"}, NEW job \in Nat,
         pc \notin {"start", "idle"}, Return(err, job)
  PROVE  TypeOK'
  <1>1. call.action \in Actions /\ call.name \in Name
    BY DEF TypeOK, CallRec
  <1>2. log' \in Seq(Entry)
    <2>1. Returned(call.action, call.name, err, job) \in Entry
      BY <1>1, ReturnedTyped
    <2>. QED
      BY <2>1, LogTyped DEF Return
  <1>. QED
    BY <1>2 DEF Return, TypeOK

\* Every step keeps the types.
LEMMA TypedStep == TypeOK /\ [Next]_vars => TypeOK'
  <1>. SUFFICES ASSUME TypeOK, [Next]_vars PROVE TypeOK'
    OBVIOUS
  <1>1. ASSUME NEW ok \in BOOLEAN, Connect(ok) PROVE TypeOK'
    BY <1>1 DEF Connect, TypeOK
  <1>2. ASSUME NEW c \in Calls, Unavailable(c) PROVE TypeOK'
    <2>1. c.action \in Actions /\ c.name \in Name
      BY CallsAssumption
    <2>2. Returned(c.action, c.name, "unavailable", 0) \in Entry
      BY <2>1, ReturnedTyped
    <2>3. log' \in Seq(Entry)
      BY <1>2, <2>2, LogTyped DEF Unavailable
    <2>. QED
      BY <1>2, <2>3 DEF Unavailable, TypeOK
  <1>3. ASSUME NEW c \in Calls, Call(c) PROVE TypeOK'
    <2>1. c.action \in Actions /\ c.name \in Name
      BY CallsAssumption
    <2>2. call' \in CallRec
      BY <1>3, <2>1 DEF Call, CallRec
    <2>. QED
      BY <1>3, <2>2 DEF Call, TypeOK
  <1>4. CASE CallFails
    BY <1>4, ReturnTyped DEF CallFails
  <1>5. CASE Answer
    BY <1>5, ReturnTyped DEF Answer
  <1>6. CASE Receive
    <2>1. call.job \in Nat
      BY <1>6 DEF Receive, TypeOK, CallRec
    <2>. QED
      BY <1>6, <2>1, ReturnTyped DEF Receive
  <1>7. CASE Reloaded
    BY <1>7, ReturnTyped DEF Reloaded
  <1>8. CASE JobQueued \/ FilesChanged
    BY <1>8 DEF JobQueued, FilesChanged, TypeOK
  <1>9. ASSUME NEW u \in Units, NEW target \in Targets, OtherJob(u, target) PROVE TypeOK'
    <2>1. /\ units' \in [Units -> UnitRec]
          /\ jobs' \in Seq(Job) /\ signals' \in Seq(Signal)
      BY <1>9, InstallTyped DEF OtherJob
    <2>. QED
      BY <1>9, <2>1 DEF OtherJob, TypeOK
  <1>10. ASSUME NEW u \in Units, NEW result \in {"done", "failed"}, JobEnds(u, result)
         PROVE  TypeOK'
    <2>1. units[u].job \in Nat /\ result \in Results
      BY UnitJob DEF TypeOK, Results
    <2>2. jobs' \in Seq(Job) /\ signals' \in Seq(Signal)
      BY <1>10, <2>1, FinishedTyped, SignalledTyped DEF JobEnds, TypeOK
    <2>3. units' \in [Units -> UnitRec]
      BY <1>10, UnitTyped DEF JobEnds, TypeOK
    <2>. QED
      BY <1>10, <2>2, <2>3 DEF JobEnds, TypeOK
  <1>11. CASE QueueJob
    <2>1. ensureServiceSuffix(call.name) \in Units /\ Target(call.action) \in Targets
      BY <1>11, TargetTyped DEF QueueJob, Exists
    <2>2. /\ units' \in [Units -> UnitRec]
          /\ jobs' \in Seq(Job) /\ signals' \in Seq(Signal)
      BY <1>11, <2>1, InstallTyped DEF QueueJob
    <2>3. units'[ensureServiceSuffix(call.name)].job \in Nat
      BY <2>1, <2>2 DEF UnitRec
    <2>4. call' \in CallRec
      BY <1>11, <2>3 DEF QueueJob, TypeOK, CallRec
    <2>. QED
      BY <1>11, <2>2, <2>4 DEF QueueJob, TypeOK
  <1>12. CASE ChangeFiles
    <2>1. ensureServiceSuffix(call.name) \in Units /\ Asked(call.action) \in Files
      BY <1>12, AskedTyped DEF ChangeFiles, Exists
    <2>2. units' \in [Units -> UnitRec]
      BY <1>12, <2>1, UnitTyped DEF ChangeFiles, TypeOK
    <2>. QED
      BY <1>12, <2>2 DEF ChangeFiles, TypeOK
  <1>13. CASE DeliverSignal
    <2>1. Head(signals) \in Signal /\ Tail(signals) \in Seq(Signal)
      BY <1>13, HeadTailProperties DEF DeliverSignal, TypeOK
    <2>2. Head(signals).result \in Results
      BY <2>1 DEF Signal
    <2>3. IF pc \in {"start", "idle"} THEN call' = NoCall ELSE call' \in CallRec
      BY <1>13, <2>2 DEF DeliverSignal, TypeOK, CallRec
    <2>. QED
      BY <1>13, <2>1, <2>3 DEF DeliverSignal, TypeOK
  <1>14. CASE Lose
    BY <1>14 DEF Lose, TypeOK
  <1>15. CASE Cancel
    BY <1>15 DEF Cancel, TypeOK
  <1>16. CASE UNCHANGED vars
    BY <1>16 DEF vars, TypeOK
  <1>. QED
    BY <1>1, <1>2, <1>3, <1>4, <1>5, <1>6, <1>7, <1>8, <1>9, <1>10, <1>11, <1>12,
       <1>13, <1>14, <1>15, <1>16 DEF Next, InCall, Systemd

\* TypeOK is an invariant of the manager.
THEOREM TypeCorrect == Spec => []TypeOK
  <1>1. Init => TypeOK
    <2>. SUFFICES ASSUME Init PROVE TypeOK
      OBVIOUS
    <2>1. jobs \in Seq(Job) /\ signals \in Seq(Signal) /\ log \in Seq(Entry)
      BY DEF Init
    <2>2. units \in [Units -> UnitRec]
      BY DEF Init, UnitRec
    <2>. QED
      BY <2>1, <2>2, Zenon DEF Init, TypeOK
  <1>. QED
    BY <1>1, TypedStep, PTL DEF Spec

-----------------------------------------------------------------------------
(* Jobs, signals and the call that waits. *)

\* The installed job of a unit is a job for it that has not ended.
InstalledInv ==
  \A u \in Units : units[u].job # 0 =>
    /\ units[u].job \in DOMAIN jobs
    /\ jobs[units[u].job].unit = u
    /\ jobs[units[u].job].result = ""

\* A signal tells the result of its job.
SignalsInv ==
  \A k \in DOMAIN signals :
    /\ signals[k].job \in DOMAIN jobs
    /\ jobs[signals[k].job].result = signals[k].result

\* The job of a call is the one it asked for; a result on its channel is that
\* job's, and there is none before the call waits.
CallInv ==
  /\ call.job # 0 =>
       /\ call.job \in DOMAIN jobs
       /\ jobs[call.job].unit = ensureServiceSuffix(call.name)
       /\ jobs[call.job].target = Target(call.action)
       /\ call.result # "" => jobs[call.job].result = call.result
  /\ call.job # 0 => pc = "waiting" \/ (pc = "replied" /\ call.action \in JobActions)
  /\ call.result # "" => pc = "waiting"
  /\ pc = "waiting" => call.job # 0
  /\ pc = "replied" /\ call.action \in JobActions => call.job # 0

\* NoLostWakeup from the moment the job is queued: the signal may be there
\* before the call begins to wait.
WakeupInv ==
  call.job # 0 /\ bus = "live" =>
    \/ call.result # ""
    \/ jobs[call.job].result = ""
    \/ \E k \in DOMAIN signals : signals[k].job = call.job

IInv == InstalledInv /\ SignalsInv /\ CallInv /\ WakeupInv /\ JobReported

\* Jobs are never forgotten, and keep their unit, their target and the result
\* they ended with.
Kept ==
  \A i \in DOMAIN jobs :
    /\ i \in DOMAIN jobs'
    /\ jobs'[i].unit = jobs[i].unit /\ jobs'[i].target = jobs[i].target
    /\ jobs[i].result # "" => jobs'[i].result = jobs[i].result

\* No signal is lost, and the end of a job is signalled.
Announced ==
  /\ \A k \in DOMAIN signals : k \in DOMAIN signals' /\ signals'[k] = signals[k]
  /\ \A i \in DOMAIN jobs :
       jobs[i].result = "" /\ jobs'[i].result # "" /\ bus = "live"
         => \E k \in DOMAIN signals' : signals'[k].job = i

\* What ending the installed job of a unit does to the jobs.
LEMMA FinishedKept ==
  ASSUME TypeOK, InstalledInv, NEW u \in Units, NEW result \in Results
  PROVE  LET old == units[u].job
             J   == Finished(old, result)
         IN  /\ J \in Seq(Job) /\ Len(J) = Len(jobs)
             /\ \A i \in 1..Len(jobs) :
                  /\ J[i].unit = jobs[i].unit /\ J[i].target = jobs[i].target
                  /\ i # old => J[i] = jobs[i]
                  /\ i = old => jobs[i].result = "" /\ J[i].result = result
  <1>. DEFINE old == units[u].job
              J   == Finished(old, result)
  <1>1. old \in Nat
    BY UnitJob DEF TypeOK
  <1>2. /\ J \in Seq(Job) /\ Len(J) = Len(jobs)
        /\ \A i \in 1..Len(jobs) :
             J[i] = IF i = old THEN [jobs[i] EXCEPT !.result = result] ELSE jobs[i]
    BY <1>1, FinishedTyped DEF TypeOK
  <1>3. old # 0 => jobs[old].result = ""
    BY DEF InstalledInv
  <1>4. \A i \in 1..Len(jobs) : jobs[i] \in Job
    BY DEF TypeOK
  <1>. HIDE DEF old, J
  <1>5. ASSUME NEW i \in 1..Len(jobs)
        PROVE  /\ J[i].unit = jobs[i].unit /\ J[i].target = jobs[i].target
               /\ i # old => J[i] = jobs[i]
               /\ i = old => jobs[i].result = "" /\ J[i].result = result
    <2>1. CASE i # old
      <3>1. J[i] = jobs[i]
        BY <1>2, <2>1
      <3>. QED
        BY <2>1, <3>1
    <2>2. CASE i = old
      <3>1. J[i] = [jobs[i] EXCEPT !.result = result]
        BY <1>2, <2>2
      <3>2. jobs[i] \in Job
        BY <1>4
      <3>3. jobs[i].result = ""
        <4>1. Len(jobs) \in Nat
          BY LenProperties DEF TypeOK
        <4>2. i # 0
          BY <4>1
        <4>. QED
          BY <1>3, <2>2, <4>2, Zenon
      <3>4. /\ J[i].unit = jobs[i].unit /\ J[i].target = jobs[i].target
            /\ J[i].result = result
        BY <3>1, <3>2, Zenon DEF Job
      <3>. QED
        BY <2>2, <3>3, <3>4
    <2>. QED
      BY <2>1, <2>2
  <1>. QED
    BY <1>2, <1>5 DEF old, J

\* What signalling it does to the signals.
LEMMA SignalledKept ==
  ASSUME TypeOK, NEW id \in Nat, NEW result \in Results,
         NEW S, S = Signalled(id, result)
  PROVE  /\ \A k \in DOMAIN signals : k \in DOMAIN S /\ S[k] = signals[k]
         /\ \A k \in DOMAIN S :
              \/ k \in DOMAIN signals
              \/ id # 0 /\ S[k].job = id /\ S[k].result = result
         /\ id # 0 /\ bus = "live" => \E k \in DOMAIN S : S[k].job = id
  <1>. DEFINE e == [job |-> id, result |-> result]
  <1>1. S \in Seq(Signal)
    BY SignalledTyped DEF TypeOK
  <1>2. CASE id = 0 \/ bus # "live"
    BY <1>1, <1>2 DEF Signalled
  <1>3. CASE id # 0 /\ bus = "live"
    <2>1. S = Append(signals, e) /\ e.job = id /\ e.result = result
      BY <1>3 DEF Signalled
    <2>2. signals \in Seq(Signal) /\ e \in Signal
      BY <1>3 DEF TypeOK, Signal
    <2>. HIDE DEF e
    <2>3. /\ Len(S) = Len(signals) + 1 /\ S[Len(signals) + 1] = e
          /\ \A k \in 1..Len(signals) : S[k] = signals[k]
      BY <2>1, <2>2, AppendProperties
    <2>. QED
      BY <1>1, <1>3, <2>1, <2>2, <2>3
  <1>. QED
    BY <1>2, <1>3

\* The installed job of u ends; jobs may be added after it.
LEMMA EndKeeps ==
  ASSUME TypeOK, InstalledInv, SignalsInv, NEW u \in Units, NEW result \in Results,
         jobs' \in Seq(Job), Len(jobs') >= Len(jobs),
         \A i \in 1..Len(jobs) : jobs'[i] = Finished(units[u].job, result)[i],
         signals' = Signalled(units[u].job, result)
  PROVE  /\ Kept /\ Announced /\ SignalsInv'
         /\ \A v \in Units : v # u /\ units[v].job # 0 =>
              /\ units[v].job \in DOMAIN jobs'
              /\ jobs'[units[v].job] = jobs[units[v].job]
  <1>. DEFINE old == units[u].job
  <1>1. old \in Nat /\ Len(jobs) \in Nat /\ Len(jobs') \in Nat
    BY UnitJob, LenProperties DEF TypeOK
  <1>2. DOMAIN jobs = 1..Len(jobs) /\ DOMAIN jobs' = 1..Len(jobs')
    BY LenProperties DEF TypeOK
  <1>3. \A i \in DOMAIN jobs : i \in DOMAIN jobs'
    BY <1>1, <1>2
  <1>4. \A i \in 1..Len(jobs) :
          /\ jobs'[i].unit = jobs[i].unit /\ jobs'[i].target = jobs[i].target
          /\ i # old => jobs'[i] = jobs[i]
          /\ i = old => jobs[i].result = "" /\ jobs'[i].result = result
    <2>. DEFINE J == Finished(old, result)
    <2>1. \A i \in 1..Len(jobs) :
            /\ J[i].unit = jobs[i].unit /\ J[i].target = jobs[i].target
            /\ i # old => J[i] = jobs[i]
            /\ i = old => jobs[i].result = "" /\ J[i].result = result
      BY FinishedKept
    <2>2. \A i \in 1..Len(jobs) : jobs'[i] = J[i]
      OBVIOUS
    <2>. HIDE DEF J, old
    <2>. QED
      BY <2>1, <2>2
  <1>5. /\ \A k \in DOMAIN signals : k \in DOMAIN signals' /\ signals'[k] = signals[k]
        /\ \A k \in DOMAIN signals' :
             \/ k \in DOMAIN signals
             \/ old # 0 /\ signals'[k].job = old /\ signals'[k].result = result
        /\ old # 0 /\ bus = "live" => \E k \in DOMAIN signals' : signals'[k].job = old
    <2>. HIDE DEF old
    <2>1. signals' = Signalled(old, result)
      BY DEF old
    <2>. QED
      BY <1>1, <2>1, SignalledKept
  <1>6. old # 0 => old \in DOMAIN jobs
    BY DEF InstalledInv
  <1>. HIDE DEF old
  <1>7. Kept
    BY <1>2, <1>3, <1>4 DEF Kept
  <1>8. Announced
    <2>1. ASSUME NEW i \in DOMAIN jobs, jobs[i].result = "", jobs'[i].result # "", bus = "live"
          PROVE  \E k \in DOMAIN signals' : signals'[k].job = i
      <3>1. i = old /\ i # 0
        <4>1. i \in 1..Len(jobs) /\ i # 0
          <5>1. i \in 1..Len(jobs)
            BY <1>2, <2>1, Zenon
          <5>. QED
            BY <1>1, <5>1, SMTT(30)
        <4>2. i # old => jobs'[i] = jobs[i]
          BY <1>4, <4>1
        <4>. QED
          BY <2>1, <4>1, <4>2
      <3>. QED
        BY <1>5, <2>1, <3>1
    <2>. QED
      BY <1>5, <2>1 DEF Announced
  <1>9. SignalsInv'
    <2>. SUFFICES ASSUME NEW k \in DOMAIN signals'
                  PROVE  /\ signals'[k].job \in DOMAIN jobs'
                         /\ jobs'[signals'[k].job].result = signals'[k].result
      BY DEF SignalsInv
    <2>1. CASE k \in DOMAIN signals
      <3>1. /\ signals[k].job \in DOMAIN jobs
            /\ jobs[signals[k].job].result = signals[k].result
        BY <2>1 DEF SignalsInv
      <3>2. signals[k].result # ""
        <4>1. signals[k] \in Signal
          BY <2>1 DEF TypeOK
        <4>. QED
          BY <4>1 DEF Signal, Results
      <3>3. jobs'[signals[k].job].result = jobs[signals[k].job].result
        BY <1>7, <3>1, <3>2 DEF Kept
      <3>. QED
        BY <1>3, <1>5, <2>1, <3>1, <3>3
    <2>2. CASE k \notin DOMAIN signals
      BY <1>2, <1>3, <1>4, <1>5, <1>6, <2>2
    <2>. QED
      BY <2>1, <2>2
  <1>10. ASSUME NEW v \in Units, v # u, units[v].job # 0
         PROVE  /\ units[v].job \in DOMAIN jobs'
                /\ jobs'[units[v].job] = jobs[units[v].job]
    <2>1. units[v].job \in DOMAIN jobs /\ jobs[units[v].job].unit = v
      BY <1>10 DEF InstalledInv
    <2>2. old # 0 => jobs[old].unit = u
      BY DEF InstalledInv, old
    <2>3. units[v].job # old
      BY <1>10, <2>1, <2>2
    <2>. QED
      BY <1>2, <1>3, <1>4, <2>1, <2>3
  <1>. QED
    BY <1>7, <1>8, <1>9, <1>10

LEMMA InstallKeeps ==
  ASSUME TypeOK, InstalledInv, SignalsInv, NEW u \in Units, NEW target \in Targets,
         Install(u, target)
  PROVE  /\ Kept /\ Announced /\ SignalsInv' /\ InstalledInv'
         /\ units'[u].job # 0 /\ jobs'[units'[u].job].target = target
  <1>1. CASE Merges(u, target)
    <2>1. UNCHANGED <<units, jobs, signals>>
      BY <1>1 DEF Install
    <2>2. units[u].job # 0 /\ jobs[units[u].job].target = target
      BY <1>1 DEF Merges
    <2>3. Kept /\ Announced
      BY <2>1 DEF Kept, Announced
    <2>. QED
      BY <2>1, <2>2, <2>3 DEF SignalsInv, InstalledInv
  <1>2. CASE ~Merges(u, target)
    <2>. DEFINE old == units[u].job
                J   == Finished(old, "canceled")
                new == [unit |-> u, target |-> target, result |-> ""]
    <2>1. /\ jobs' = Append(J, new)
          /\ signals' = Signalled(old, "canceled")
          /\ units' = [units EXCEPT ![u].job = Len(jobs) + 1]
      BY <1>2 DEF Install
    <2>2. "canceled" \in Results /\ Len(jobs) \in Nat /\ new \in Job
      BY LenProperties DEF Results, TypeOK, Job
    <2>3. J \in Seq(Job) /\ Len(J) = Len(jobs)
      BY <2>2, FinishedKept
    <2>4. new.unit = u /\ new.target = target /\ new.result = ""
      OBVIOUS
    <2>. HIDE DEF J, new
    <2>5. /\ jobs' \in Seq(Job) /\ Len(jobs') = Len(jobs) + 1
          /\ \A i \in 1..Len(jobs) : jobs'[i] = J[i]
          /\ jobs'[Len(jobs) + 1] = new
      BY <2>1, <2>2, <2>3, AppendProperties
    <2>6. /\ Kept /\ Announced /\ SignalsInv'
          /\ \A v \in Units : v # u /\ units[v].job # 0 =>
               /\ units[v].job \in DOMAIN jobs'
               /\ jobs'[units[v].job] = jobs[units[v].job]
      <3>1. Len(jobs') >= Len(jobs)
        BY <2>2, <2>5
      <3>2. \A i \in 1..Len(jobs) : jobs'[i] = Finished(units[u].job, "canceled")[i]
        BY <2>5 DEF J
      <3>. QED
        BY <2>1, <2>2, <2>5, <3>1, <3>2, EndKeeps
    <2>7. units'[u].job = Len(jobs) + 1 /\ \A v \in Units : v # u => units'[v] = units[v]
      BY <2>1 DEF TypeOK, UnitRec
    <2>8. Len(jobs) + 1 \in DOMAIN jobs' /\ Len(jobs) + 1 # 0
      BY <2>2, <2>5
    <2>9. InstalledInv'
      <3>. SUFFICES ASSUME NEW v \in Units, units'[v].job # 0
                    PROVE  /\ units'[v].job \in DOMAIN jobs'
                           /\ jobs'[units'[v].job].unit = v
                           /\ jobs'[units'[v].job].result = ""
        BY DEF InstalledInv
      <3>1. CASE v = u
        BY <2>4, <2>5, <2>7, <2>8, <3>1
      <3>2. CASE v # u
        <4>1. units'[v].job = units[v].job /\ units[v].job # 0
          BY <2>7, <3>2
        <4>2. /\ jobs[units[v].job].unit = v /\ jobs[units[v].job].result = ""
          BY <4>1 DEF InstalledInv
        <4>3. /\ units[v].job \in DOMAIN jobs'
              /\ jobs'[units[v].job] = jobs[units[v].job]
          BY <2>6, <3>2, <4>1
        <4>. QED
          BY <4>1, <4>2, <4>3
      <3>. QED
        BY <3>1, <3>2
    <2>. QED
      BY <2>4, <2>5, <2>6, <2>7, <2>8, <2>9
  <1>. QED
    BY <1>1, <1>2

LEMMA JobEndsKeeps ==
  ASSUME TypeOK, InstalledInv, SignalsInv, NEW u \in Units, NEW result \in {"done", "failed"},
         JobEnds(u, result)
  PROVE  Kept /\ Announced /\ SignalsInv' /\ InstalledInv'
  <1>1. /\ jobs' = Finished(units[u].job, result)
        /\ signals' = Signalled(units[u].job, result)
        /\ units' = [units EXCEPT ![u].job = 0]
    BY DEF JobEnds
  <1>2. result \in Results
    BY DEF Results
  <1>3. jobs' \in Seq(Job) /\ Len(jobs') = Len(jobs)
    BY <1>1, <1>2, FinishedKept
  <1>4. Len(jobs') >= Len(jobs)
    BY <1>3, LenProperties DEF TypeOK
  <1>5. /\ Kept /\ Announced /\ SignalsInv'
        /\ \A v \in Units : v # u /\ units[v].job # 0 =>
             /\ units[v].job \in DOMAIN jobs'
             /\ jobs'[units[v].job] = jobs[units[v].job]
    BY <1>1, <1>2, <1>3, <1>4, EndKeeps
  <1>6. units'[u].job = 0 /\ \A v \in Units : v # u => units'[v] = units[v]
    BY <1>1 DEF TypeOK, UnitRec
  <1>7. InstalledInv'
    <2>. SUFFICES ASSUME NEW v \in Units, units'[v].job # 0
                  PROVE  /\ units'[v].job \in DOMAIN jobs'
                         /\ jobs'[units'[v].job].unit = v
                         /\ jobs'[units'[v].job].result = ""
      BY DEF InstalledInv
    <2>1. v # u
      BY <1>6
    <2>2. units'[v].job = units[v].job /\ units[v].job # 0
      BY <1>6, <2>1
    <2>3. /\ jobs[units[v].job].unit = v /\ jobs[units[v].job].result = ""
      BY <2>2 DEF InstalledInv
    <2>4. /\ units[v].job \in DOMAIN jobs'
          /\ jobs'[units[v].job] = jobs[units[v].job]
      BY <1>5, <2>1, <2>2
    <2>. QED
      BY <2>2, <2>3, <2>4
  <1>. QED
    BY <1>5, <1>7

\* A history that does not change stays right, as ended jobs do not change.
LEMMA KeptReported ==
  ASSUME JobReported, Kept, log' = log
  PROVE  JobReported'
  <1>. SUFFICES ASSUME NEW i \in DOMAIN log, log[i].job # 0
                PROVE  /\ log[i].job \in DOMAIN jobs'
                       /\ jobs'[log[i].job].unit = ensureServiceSuffix(log[i].name)
                       /\ jobs'[log[i].job].target = Target(log[i].action)
                       /\ jobs'[log[i].job].result # ""
                       /\ (log[i].err = "none") = (jobs'[log[i].job].result = "done")
    BY DEF JobReported
  <1>1. /\ log[i].job \in DOMAIN jobs
        /\ jobs[log[i].job].unit = ensureServiceSuffix(log[i].name)
        /\ jobs[log[i].job].target = Target(log[i].action)
        /\ jobs[log[i].job].result # ""
        /\ (log[i].err = "none") = (jobs[log[i].job].result = "done")
    BY DEF JobReported
  <1>2. /\ log[i].job \in DOMAIN jobs'
        /\ jobs'[log[i].job].unit = jobs[log[i].job].unit
        /\ jobs'[log[i].job].target = jobs[log[i].job].target
        /\ jobs'[log[i].job].result = jobs[log[i].job].result
    BY <1>1 DEF Kept
  <1>. QED
    BY <1>1, <1>2

\* A step of systemd that leaves the handler alone.
LEMMA KeptCall ==
  ASSUME CallInv, WakeupInv, Kept, Announced, UNCHANGED <<bus, pc, call>>
  PROVE  CallInv' /\ WakeupInv'
  <1>1. CallInv'
    BY DEF CallInv, Kept
  <1>2. WakeupInv'
    <2>. SUFFICES ASSUME call.job # 0, bus = "live", call.result = "",
                         jobs'[call.job].result # ""
                  PROVE  \E k \in DOMAIN signals' : signals'[k].job = call.job
      BY DEF WakeupInv
    <2>1. CASE jobs[call.job].result = ""
      <3>1. call.job \in DOMAIN jobs
        BY DEF CallInv
      <3>. QED
        BY <2>1, <3>1 DEF Announced
    <2>2. CASE jobs[call.job].result # ""
      <3>1. PICK k \in DOMAIN signals : signals[k].job = call.job
        BY <2>2 DEF WakeupInv
      <3>. QED
        BY <3>1 DEF Announced
    <2>. QED
      BY <2>1, <2>2
  <1>. QED
    BY <1>1, <1>2

\* An entry of the history is an earlier one or the one added.
LEMMA LogGrows ==
  ASSUME TypeOK, NEW e \in Entry, log' = Append(log, e)
  PROVE  \A i \in DOMAIN log' : (i \in DOMAIN log /\ log'[i] = log[i]) \/ log'[i] = e
  <1>1. log \in Seq(Entry)
    BY DEF TypeOK
  <1>2. /\ log' \in Seq(Entry) /\ Len(log') = Len(log) + 1 /\ log'[Len(log) + 1] = e
        /\ \A j \in 1..Len(log) : log'[j] = log[j]
    BY <1>1, AppendProperties
  <1>3. /\ Len(log) \in Nat /\ DOMAIN log = 1..Len(log)
        /\ DOMAIN log' = 1..(Len(log) + 1)
    BY <1>1, <1>2, LenProperties
  <1>. QED
    BY <1>2, <1>3

\* A call returns, with no job or with the one that systemd has ended.
LEMMA LogKeeps ==
  ASSUME TypeOK, JobReported, NEW e \in Entry, log' = Append(log, e), jobs' = jobs,
         e.job # 0 =>
           /\ e.job \in DOMAIN jobs
           /\ jobs[e.job].unit = ensureServiceSuffix(e.name)
           /\ jobs[e.job].target = Target(e.action)
           /\ jobs[e.job].result # ""
           /\ (e.err = "none") = (jobs[e.job].result = "done")
  PROVE  JobReported'
  <1>. SUFFICES ASSUME NEW i \in DOMAIN log', log'[i].job # 0
                PROVE  /\ log'[i].job \in DOMAIN jobs
                       /\ jobs[log'[i].job].unit = ensureServiceSuffix(log'[i].name)
                       /\ jobs[log'[i].job].target = Target(log'[i].action)
                       /\ jobs[log'[i].job].result # ""
                       /\ (log'[i].err = "none") = (jobs[log'[i].job].result = "done")
    BY DEF JobReported
  <1>1. (i \in DOMAIN log /\ log'[i] = log[i]) \/ log'[i] = e
    BY LogGrows, Zenon
  <1>2. CASE i \in DOMAIN log /\ log'[i] = log[i]
    BY <1>2 DEF JobReported
  <1>3. CASE log'[i] = e
    BY <1>3
  <1>. QED
    BY <1>1, <1>2, <1>3

LEMMA ReturnKeeps ==
  ASSUME TypeOK, IInv, NEW err \in {"none", "call", "job", "notfound"}, NEW job \in Nat,
         pc \notin {"start", "idle"}, Return(err, job),
         job # 0 => /\ job = call.job /\ call.result # ""
                    /\ (err = "none") = (call.result = "done")
  PROVE  IInv'
  <1>1. call.action \in Actions /\ call.name \in Name
    BY DEF TypeOK, CallRec
  <1>. DEFINE e == Returned(call.action, call.name, err, job)
  <1>2. e \in Entry
    BY <1>1, ReturnedTyped
  <1>3. /\ e.action = call.action /\ e.name = call.name
        /\ e.err = err /\ e.job = job
    BY DEF Returned
  <1>4. log' = Append(log, e) /\ jobs' = jobs
    BY DEF Return
  <1>. HIDE DEF e
  <1>5. JobReported'
    <2>1. e.job # 0 =>
            /\ e.job \in DOMAIN jobs
            /\ jobs[e.job].unit = ensureServiceSuffix(e.name)
            /\ jobs[e.job].target = Target(e.action)
            /\ jobs[e.job].result # ""
            /\ (e.err = "none") = (jobs[e.job].result = "done")
      BY <1>3 DEF IInv, CallInv
    <2>. QED
      BY <1>2, <1>4, <2>1, LogKeeps DEF IInv
  <1>6. CallInv' /\ WakeupInv'
    BY DEF Return, CallInv, WakeupInv, NoCall
  <1>7. InstalledInv' /\ SignalsInv'
    BY DEF Return, IInv, InstalledInv, SignalsInv
  <1>. QED
    BY <1>5, <1>6, <1>7 DEF IInv

\* A step of systemd on the jobs while the handler is elsewhere.
LEMMA JobsKeep ==
  ASSUME IInv, Kept, Announced, SignalsInv', InstalledInv',
         UNCHANGED <<bus, pc, call, log>>
  PROVE  IInv'
  BY KeptReported, KeptCall DEF IInv

\* Every step keeps the invariant.
LEMMA IInvStep == TypeOK /\ IInv /\ [Next]_vars => IInv'
  <1>. SUFFICES ASSUME TypeOK, IInv, [Next]_vars PROVE IInv'
    OBVIOUS
  <1>. USE DEF IInv
  <1>1. ASSUME NEW ok \in BOOLEAN, Connect(ok) PROVE IInv'
    <2>1. call.job = 0 /\ call.result = ""
      <3>1. call = NoCall
        BY <1>1 DEF Connect, TypeOK
      <3>. QED
        BY <3>1 DEF NoCall
    <2>2. UNCHANGED <<call, units, jobs, signals, log>> /\ pc' = "idle"
      BY <1>1 DEF Connect
    <2>. QED
      BY <2>1, <2>2 DEF InstalledInv, SignalsInv, CallInv, WakeupInv, JobReported
  <1>2. ASSUME NEW c \in Calls, Unavailable(c) PROVE IInv'
    <2>. DEFINE e == Returned(c.action, c.name, "unavailable", 0)
    <2>1. c.action \in Actions /\ c.name \in Name
      BY CallsAssumption
    <2>2. e \in Entry
      BY <2>1, ReturnedTyped
    <2>3. e.job = 0
      BY DEF Returned
    <2>4. log' = Append(log, e) /\ UNCHANGED <<bus, pc, call, units, jobs, signals>>
      BY <1>2 DEF Unavailable
    <2>. HIDE DEF e
    <2>5. JobReported'
      BY <2>2, <2>3, <2>4, LogKeeps
    <2>. QED
      BY <2>4, <2>5 DEF InstalledInv, SignalsInv, CallInv, WakeupInv
  <1>3. ASSUME NEW c \in Calls, Call(c) PROVE IInv'
    <2>1. call'.job = 0 /\ call'.result = "" /\ pc' = "request"
      BY <1>3 DEF Call
    <2>2. UNCHANGED <<units, jobs, signals, log>>
      BY <1>3 DEF Call
    <2>. QED
      BY <2>1, <2>2 DEF InstalledInv, SignalsInv, CallInv, WakeupInv, JobReported
  <1>4. CASE CallFails
    BY <1>4, ReturnKeeps DEF CallFails
  <1>5. CASE Answer
    BY <1>5, ReturnKeeps DEF Answer
  <1>6. CASE Receive
    <2>1. call.job \in Nat
      BY <1>6 DEF Receive, TypeOK, CallRec
    <2>. QED
      BY <1>6, <2>1, ReturnKeeps DEF Receive
  <1>7. CASE Reloaded
    BY <1>7, ReturnKeeps DEF Reloaded
  <1>8. CASE JobQueued \/ FilesChanged
    <2>1. UNCHANGED <<bus, call, units, jobs, signals, log>>
      BY <1>8 DEF JobQueued, FilesChanged
    <2>2. CallInv'
      BY <1>8, <2>1 DEF JobQueued, FilesChanged, CallInv, FileActions, JobActions
    <2>. QED
      BY <2>1, <2>2 DEF InstalledInv, SignalsInv, WakeupInv, JobReported
  <1>9. ASSUME NEW u \in Units, NEW target \in Targets, OtherJob(u, target) PROVE IInv'
    BY <1>9, InstallKeeps, JobsKeep DEF OtherJob
  <1>10. ASSUME NEW u \in Units, NEW result \in {"done", "failed"}, JobEnds(u, result)
         PROVE  IInv'
    <2>1. UNCHANGED <<bus, pc, call, log>>
      BY <1>10 DEF JobEnds
    <2>2. Kept /\ Announced /\ SignalsInv' /\ InstalledInv'
      BY <1>10, JobEndsKeeps
    <2>. QED
      BY <2>1, <2>2, JobsKeep
  <1>11. CASE QueueJob
    <2>. DEFINE u      == ensureServiceSuffix(call.name)
                target == Target(call.action)
    <2>1. u \in Units /\ target \in Targets
      BY <1>11, TargetTyped DEF QueueJob, Exists
    <2>2. Install(u, target)
      BY <1>11 DEF QueueJob
    <2>3. /\ Kept /\ Announced /\ SignalsInv' /\ InstalledInv'
          /\ units'[u].job # 0 /\ jobs'[units'[u].job].target = target
      BY <2>1, <2>2, InstallKeeps
    <2>4. JobReported'
      BY <1>11, <2>3, KeptReported DEF QueueJob
    <2>5. /\ units'[u].job \in DOMAIN jobs'
          /\ jobs'[units'[u].job].unit = u /\ jobs'[units'[u].job].result = ""
      BY <2>1, <2>3 DEF InstalledInv
    <2>6. call.result = "" /\ call \in CallRec
      BY <1>11 DEF QueueJob, CallInv, TypeOK
    <2>7. /\ call'.job = units'[u].job /\ call'.result = ""
          /\ call'.action = call.action /\ call'.name = call.name
      BY <1>11, <2>6 DEF QueueJob, CallRec
    <2>8. pc' = "replied" /\ call.action \in JobActions
      BY <1>11 DEF QueueJob
    <2>9. CallInv' /\ WakeupInv'
      BY <2>3, <2>5, <2>7, <2>8 DEF CallInv, WakeupInv
    <2>. QED
      BY <2>3, <2>4, <2>9
  <1>12. CASE ChangeFiles
    <2>1. /\ UNCHANGED <<bus, call, jobs, signals, log>>
          /\ pc = "request" /\ pc' = "replied" /\ call.action \in FileActions
      BY <1>12 DEF ChangeFiles
    <2>2. \A u \in Units : units'[u].job = units[u].job
      <3>1. \/ units' = units
            \/ \E v, file : units' = [units EXCEPT ![v].file = file]
        BY <1>12, Zenon DEF ChangeFiles
      <3>2. units \in [Units -> UnitRec]
        BY DEF TypeOK
      <3>. QED
        BY <3>1, <3>2 DEF UnitRec
    <2>3. CallInv'
      BY <2>1 DEF CallInv, FileActions, JobActions
    <2>4. InstalledInv'
      BY <2>1, <2>2 DEF InstalledInv
    <2>. QED
      BY <2>1, <2>3, <2>4 DEF SignalsInv, WakeupInv, JobReported
  <1>13. CASE DeliverSignal
    <2>1. /\ signals # <<>> /\ ~Locked /\ signals' = Tail(signals)
          /\ UNCHANGED <<bus, pc, units, jobs, log>>
      BY <1>13 DEF DeliverSignal
    <2>2. /\ Len(signals) \in Nat /\ signals \in Seq(Signal) /\ Len(signals) > 0
          /\ DOMAIN signals = 1..Len(signals)
      BY <2>1, LenProperties DEF TypeOK
    <2>3. /\ DOMAIN signals' = 1..(Len(signals) - 1) /\ 1 \in DOMAIN signals
          /\ \A k \in DOMAIN signals' : k + 1 \in DOMAIN signals /\ signals'[k] = signals[k + 1]
          /\ \A k \in DOMAIN signals : k # 1 =>
               k - 1 \in DOMAIN signals' /\ signals'[k - 1] = signals[k]
          /\ Head(signals) = signals[1]
      BY <2>1, <2>2
    <2>4. SignalsInv'
      BY <2>1, <2>3 DEF SignalsInv
    <2>5. InstalledInv' /\ JobReported'
      BY <2>1 DEF InstalledInv, JobReported
    <2>6. CASE pc = "waiting" /\ call.job = Head(signals).job /\ call.result = ""
      <3>1. call \in CallRec /\ call.job # 0
        BY <2>6 DEF TypeOK, CallInv
      <3>2. /\ call'.result = Head(signals).result
            /\ call'.job = call.job /\ call'.name = call.name /\ call'.action = call.action
        BY <1>13, <2>6, <3>1 DEF DeliverSignal, CallRec
      <3>3. jobs[call.job].result = call'.result
        <4>1. jobs[signals[1].job].result = signals[1].result
          BY <2>3 DEF SignalsInv
        <4>. QED
          BY <2>3, <2>6, <3>2, <4>1
      <3>4. call'.result # ""
        <4>1. signals[1] \in Signal
          BY <2>2, <2>3
        <4>. QED
          BY <2>3, <3>2, <4>1 DEF Signal, Results
      <3>5. CallInv' /\ WakeupInv'
        BY <2>1, <2>6, <3>1, <3>2, <3>3, <3>4 DEF CallInv, WakeupInv
      <3>. QED
        BY <2>4, <2>5, <3>5
    <2>7. CASE ~(pc = "waiting" /\ call.job = Head(signals).job /\ call.result = "")
      <3>1. call' = call
        BY <1>13, <2>7 DEF DeliverSignal
      <3>2. CallInv'
        BY <2>1, <3>1 DEF CallInv
      <3>3. WakeupInv'
        <4>. SUFFICES ASSUME call.job # 0, bus = "live", call.result = "",
                             jobs[call.job].result # ""
                      PROVE  \E k \in DOMAIN signals' : signals'[k].job = call.job
          BY <2>1, <3>1 DEF WakeupInv
        <4>1. pc = "waiting"
          BY <2>1 DEF CallInv, Locked
        <4>2. PICK k \in DOMAIN signals : signals[k].job = call.job
          BY DEF WakeupInv
        <4>3. k # 1
          BY <2>3, <2>7, <4>1, <4>2
        <4>. QED
          BY <2>3, <4>2, <4>3
      <3>. QED
        BY <2>4, <2>5, <3>2, <3>3
    <2>. QED
      BY <2>6, <2>7
  <1>14. CASE Lose
    <2>1. /\ bus' = "lost" /\ signals' = <<>>
          /\ UNCHANGED <<pc, call, units, jobs, log>>
      BY <1>14 DEF Lose
    <2>2. SignalsInv'
      BY <2>1 DEF SignalsInv
    <2>3. WakeupInv'
      BY <2>1 DEF WakeupInv
    <2>4. InstalledInv' /\ CallInv' /\ JobReported'
      BY <2>1 DEF InstalledInv, CallInv, JobReported
    <2>. QED
      BY <2>2, <2>3, <2>4
  <1>15. CASE Cancel \/ UNCHANGED vars
    <2>1. UNCHANGED <<bus, pc, call, units, jobs, signals, log>>
      BY <1>15 DEF Cancel, vars
    <2>. QED
      BY <2>1 DEF InstalledInv, SignalsInv, CallInv, WakeupInv, JobReported
  <1>. HIDE DEF IInv
  <1>. QED
    BY <1>1, <1>2, <1>3, <1>4, <1>5, <1>6, <1>7, <1>8, <1>9, <1>10, <1>11, <1>12,
       <1>13, <1>14, <1>15 DEF Next, InCall, Systemd

\* The agent starts with no call, no job and no signal.
LEMMA IInvInit == Init => IInv
  <1>. SUFFICES ASSUME Init PROVE IInv
    OBVIOUS
  <1>1. /\ call.job = 0 /\ call.result = "" /\ pc = "start"
        /\ jobs = <<>> /\ signals = <<>> /\ log = <<>>
    BY DEF Init, NoCall
  <1>2. \A u \in Units : units[u].job = 0
    BY DEF Init
  <1>3. DOMAIN signals = {} /\ DOMAIN log = {}
    <2>1. \A s : s = <<>> => DOMAIN s = {}
      OBVIOUS
    <2>. QED
      BY <1>1, <2>1, Zenon
  <1>4. SignalsInv /\ JobReported
    BY <1>3 DEF SignalsInv, JobReported
  <1>5. InstalledInv /\ CallInv /\ WakeupInv
    BY <1>1, <1>2 DEF InstalledInv, CallInv, WakeupInv
  <1>. QED
    BY <1>4, <1>5 DEF IInv

\* IInv is an invariant of the manager.
LEMMA IInvAlways == Spec => []IInv
  BY IInvInit, IInvStep, TypeCorrect, PTL DEF Spec

\* JobReported: a call that had a job queued reports success exactly when that
\* very job ended as done.
THEOREM JobReportedAlways == Spec => []JobReported
  <1>1. IInv => JobReported
    BY DEF IInv
  <1>. QED
    BY <1>1, IInvAlways, PTL

\* NoLostWakeup: the result that a waiting call needs cannot be missed while
\* the connection lives.
THEOREM NoLostWakeupAlways == Spec => []NoLostWakeup
  <1>1. IInv => NoLostWakeup
    BY DEF IInv, CallInv, WakeupInv, NoLostWakeup
  <1>. QED
    BY <1>1, IInvAlways, PTL

-----------------------------------------------------------------------------
(* The unit files. *)

\* What the call at hand has done to the file of its unit, and what the calls
\* that returned have left.
FileInv ==
  /\ pc = "waiting" => call.action \in JobActions
  /\ pc = "reload" => call.action \in FileActions
  /\ pc \in {"replied", "reload"} /\ call.action \in FileActions =>
       /\ ensureServiceSuffix(call.name) \in Units
       /\ units[ensureServiceSuffix(call.name)].file \in {"static", Asked(call.action)}
  /\ \A i \in DOMAIN log :
       log[i].action \in FileActions /\ log[i].err = "none" =>
         ensureServiceSuffix(log[i].name) \in Units
  /\ EnabledAsAsked

\* Jobs do not change unit files.
FilesKept == \A v \in Units : units'[v].file = units[v].file

LEMMA JobKeepsFile ==
  ASSUME units \in [Units -> UnitRec], NEW u \in Units, NEW id \in Nat,
         units' = [units EXCEPT ![u].job = id]
  PROVE  FilesKept
  <1>. SUFFICES ASSUME NEW v \in Units PROVE units'[v].file = units[v].file
    BY DEF FilesKept
  <1>1. CASE v = u
    <2>1. units'[v] = [units[u] EXCEPT !.job = id]
      BY <1>1
    <2>2. units[u] \in UnitRec
      OBVIOUS
    <2>. QED
      BY <1>1, <2>1, <2>2 DEF UnitRec
  <1>2. CASE v # u
    BY <1>2
  <1>. QED
    BY <1>1, <1>2

LEMMA InstallKeepsFiles ==
  ASSUME TypeOK, NEW u \in Units, NEW target \in Targets, Install(u, target)
  PROVE  FilesKept
  <1>1. CASE Merges(u, target)
    BY <1>1 DEF Install, FilesKept
  <1>2. CASE ~Merges(u, target)
    <2>1. Len(jobs) + 1 \in Nat
      BY LenProperties DEF TypeOK
    <2>2. units' = [units EXCEPT ![u].job = Len(jobs) + 1]
      BY <1>2, Zenon DEF Install
    <2>. QED
      BY <2>1, <2>2, JobKeepsFile DEF TypeOK
  <1>. QED
    BY <1>1, <1>2

\* A step that leaves files, calls and history alone.
LEMMA FilesQuiet ==
  ASSUME FileInv, FilesKept, log' = log,
         call'.action = call.action, call'.name = call.name,
         pc' = pc \/ (pc' \in {"replied", "waiting"} /\ call.action \in JobActions)
                  \/ (pc = "replied" /\ pc' = "reload" /\ call.action \in FileActions),
         pc = "idle" => pc' = "idle"
  PROVE  FileInv'
  <1>1. JobActions \cap FileActions = {}
    BY DEF JobActions, FileActions
  <1>2. EnabledAsAsked'
    <2>. SUFFICES ASSUME NEW i \in DOMAIN log,
                         log[i].action \in FileActions /\ log[i].err = "none",
                         \A j \in DOMAIN log : j > i =>
                           ~ChangesFiles(j, ensureServiceSuffix(log[i].name)),
                         \/ pc' = "idle" \/ call.action \notin FileActions
                         \/ ensureServiceSuffix(call.name) # ensureServiceSuffix(log[i].name)
                  PROVE  units'[ensureServiceSuffix(log[i].name)].file
                           \in {"static", Asked(log[i].action)}
      BY DEF EnabledAsAsked, SettledBy, ChangesFiles
    <2>1. pc' = "idle" => pc = "idle"
      OBVIOUS
    <2>2. units[ensureServiceSuffix(log[i].name)].file \in {"static", Asked(log[i].action)}
      BY <2>1 DEF FileInv, EnabledAsAsked, SettledBy, ChangesFiles
    <2>3. ensureServiceSuffix(log[i].name) \in Units
      BY DEF FileInv
    <2>. QED
      BY <2>2, <2>3 DEF FilesKept
  <1>3. pc' = "waiting" => call.action \in JobActions
    BY DEF FileInv
  <1>4. pc' = "reload" => call.action \in FileActions
    BY DEF FileInv
  <1>5. ASSUME pc' \in {"replied", "reload"}, call.action \in FileActions
        PROVE  /\ ensureServiceSuffix(call.name) \in Units
               /\ units'[ensureServiceSuffix(call.name)].file \in {"static", Asked(call.action)}
    <2>1. pc \in {"replied", "reload"}
      BY <1>1, <1>5
    <2>2. /\ ensureServiceSuffix(call.name) \in Units
          /\ units[ensureServiceSuffix(call.name)].file \in {"static", Asked(call.action)}
      BY <1>5, <2>1 DEF FileInv
    <2>. QED
      BY <2>2 DEF FilesKept
  <1>6. \A i \in DOMAIN log' : log'[i].action \in FileActions /\ log'[i].err = "none"
                                  => ensureServiceSuffix(log'[i].name) \in Units
    BY DEF FileInv
  <1>. QED
    BY <1>2, <1>3, <1>4, <1>5, <1>6 DEF FileInv

\* A call returns: it succeeded in changing a file, or it did not touch one, or
\* it failed, and then the file of its unit is nobody's any more.
LEMMA ReturnKeepsFiles ==
  ASSUME TypeOK, FileInv, NEW e \in Entry, log' = Append(log, e),
         units' = units, pc' = "idle", call' = NoCall,
         e.action \in FileActions =>
           \/ e.err # "none"
           \/ /\ ensureServiceSuffix(e.name) \in Units
              /\ units[ensureServiceSuffix(e.name)].file \in {"static", Asked(e.action)},
         \/ pc = "idle" \/ call.action \notin FileActions
         \/ e.action = call.action /\ e.name = call.name
  PROVE  FileInv'
  <1>1. log \in Seq(Entry)
    BY DEF TypeOK
  <1>2. /\ Len(log') = Len(log) + 1 /\ log'[Len(log) + 1] = e
        /\ \A j \in 1..Len(log) : log'[j] = log[j]
        /\ log' \in Seq(Entry)
    BY <1>1, AppendProperties
  <1>3. /\ Len(log) \in Nat /\ DOMAIN log = 1..Len(log)
        /\ DOMAIN log' = 1..(Len(log) + 1)
    BY <1>1, <1>2, LenProperties
  <1>4. \A i \in DOMAIN log' : (i \in DOMAIN log /\ log'[i] = log[i]) \/ log'[i] = e
    BY LogGrows, Zenon
  <1>5. \A i \in DOMAIN log' : log'[i].action \in FileActions /\ log'[i].err = "none"
                                  => ensureServiceSuffix(log'[i].name) \in Units
    BY <1>4 DEF FileInv
  <1>6. EnabledAsAsked'
    <2>. SUFFICES ASSUME NEW i \in DOMAIN log',
                         log'[i].action \in FileActions /\ log'[i].err = "none",
                         \A j \in DOMAIN log' : j > i =>
                           ~(log'[j].action \in FileActions
                             /\ ensureServiceSuffix(log'[j].name) = ensureServiceSuffix(log'[i].name))
                  PROVE  units[ensureServiceSuffix(log'[i].name)].file
                           \in {"static", Asked(log'[i].action)}
      BY DEF EnabledAsAsked, SettledBy, ChangesFiles
    <2>1. CASE log'[i] = e
      BY <2>1
    <2>2. CASE i \in DOMAIN log /\ log'[i] = log[i]
      <3>. DEFINE u == ensureServiceSuffix(log[i].name)
      <3>1. \A j \in DOMAIN log : j > i => ~ChangesFiles(j, u)
        <4>. SUFFICES ASSUME NEW j \in DOMAIN log, j > i PROVE ~ChangesFiles(j, u)
          OBVIOUS
        <4>1. j \in DOMAIN log' /\ log'[j] = log[j]
          BY <1>2, <1>3
        <4>2. ~(/\ log'[j].action \in FileActions
                /\ ensureServiceSuffix(log'[j].name) = ensureServiceSuffix(log'[i].name))
          BY <4>1
        <4>. QED
          BY <2>2, <4>1, <4>2 DEF ChangesFiles
      <3>2. ~(e.action \in FileActions /\ ensureServiceSuffix(e.name) = u)
        <4>1. Len(log) + 1 \in DOMAIN log' /\ Len(log) + 1 > i
          BY <1>3, <2>2
        <4>2. ~(/\ e.action \in FileActions
                /\ ensureServiceSuffix(e.name) = ensureServiceSuffix(log'[i].name))
          BY <1>2, <4>1
        <4>. QED
          BY <2>2, <4>2
      <3>3. pc = "idle" \/ call.action \notin FileActions \/ ensureServiceSuffix(call.name) # u
        BY <3>2
      <3>. QED
        BY <2>2, <3>1, <3>3 DEF FileInv, EnabledAsAsked, SettledBy, ChangesFiles
    <2>. QED
      BY <1>4, <2>1, <2>2
  <1>. QED
    BY <1>5, <1>6 DEF FileInv

LEMMA CallReturnsFiles ==
  ASSUME TypeOK, FileInv, NEW err \in {"none", "call", "job", "notfound"}, NEW job \in Nat,
         pc \notin {"start", "idle"}, Return(err, job),
         err # "none" \/ call.action \notin FileActions \/ pc = "reload"
  PROVE  FileInv'
  <1>1. call.action \in Actions /\ call.name \in Name
    BY DEF TypeOK, CallRec
  <1>. DEFINE e == Returned(call.action, call.name, err, job)
  <1>2. e \in Entry
    BY <1>1, ReturnedTyped
  <1>3. e.action = call.action /\ e.name = call.name /\ e.err = err
    BY DEF Returned
  <1>4. log' = Append(log, e) /\ units' = units /\ pc' = "idle" /\ call' = NoCall
    BY DEF Return
  <1>. HIDE DEF e
  <1>5. e.action \in FileActions =>
          \/ e.err # "none"
          \/ /\ ensureServiceSuffix(e.name) \in Units
             /\ units[ensureServiceSuffix(e.name)].file \in {"static", Asked(e.action)}
    BY <1>3 DEF FileInv
  <1>. QED
    BY <1>2, <1>3, <1>4, <1>5, ReturnKeepsFiles

LEMMA FileStep == ASSUME TypeOK, FileInv, [Next]_vars PROVE FileInv'
  <1>0. JobActions \cap FileActions = {} /\ Queries \cap FileActions = {}
    BY DEF JobActions, FileActions, Queries
  <1>1. ASSUME NEW ok \in BOOLEAN, Connect(ok) PROVE FileInv'
    <2>1. pc = "start" /\ pc' = "idle" /\ UNCHANGED <<call, units, log>> /\ call = NoCall
      BY <1>1 DEF Connect, TypeOK
    <2>2. NoCall.action \notin FileActions
      BY DEF NoCall, FileActions
    <2>. QED
      BY <2>1, <2>2 DEF FileInv, EnabledAsAsked, SettledBy, ChangesFiles
  <1>2. ASSUME NEW c \in Calls, Unavailable(c) PROVE FileInv'
    <2>. DEFINE e == Returned(c.action, c.name, "unavailable", 0)
    <2>1. c.action \in Actions /\ c.name \in Name
      BY CallsAssumption
    <2>2. e \in Entry
      BY <2>1, ReturnedTyped
    <2>3. e.err # "none"
      BY DEF Returned
    <2>4. log' = Append(log, e) /\ UNCHANGED <<pc, call, units>> /\ pc = "idle"
      BY <1>2 DEF Unavailable
    <2>5. call' = NoCall
      BY <2>4 DEF TypeOK
    <2>. HIDE DEF e
    <2>. QED
      BY <2>2, <2>3, <2>4, <2>5, ReturnKeepsFiles
  <1>3. ASSUME NEW c \in Calls, Call(c) PROVE FileInv'
    <2>1. pc = "idle" /\ pc' = "request" /\ UNCHANGED <<units, log>>
      BY <1>3 DEF Call
    <2>. QED
      BY <2>1 DEF FileInv, EnabledAsAsked, SettledBy, ChangesFiles
  <1>4. CASE CallFails
    <2>1. pc \notin {"start", "idle"} /\ Return("call", 0)
      BY <1>4 DEF CallFails
    <2>. QED
      BY <2>1, CallReturnsFiles
  <1>5. CASE Answer
    <2>1. PICK err \in {"none", "notfound"} : Return(err, 0)
      BY <1>5 DEF Answer
    <2>2. pc \notin {"start", "idle"} /\ call.action \notin FileActions
      BY <1>0, <1>5 DEF Answer
    <2>. QED
      BY <2>1, <2>2, CallReturnsFiles
  <1>6. CASE JobQueued
    BY <1>6, FilesQuiet DEF JobQueued, FilesKept
  <1>7. CASE Receive
    <2>1. PICK err \in {"none", "job"} : Return(err, call.job)
      BY <1>7 DEF Receive
    <2>2. pc \notin {"start", "idle"} /\ call.action \notin FileActions
      BY <1>0, <1>7 DEF Receive, FileInv
    <2>3. call.job \in Nat
      BY <2>2 DEF TypeOK, CallRec
    <2>. QED
      BY <2>1, <2>2, <2>3, CallReturnsFiles
  <1>8. CASE FilesChanged
    BY <1>8, FilesQuiet DEF FilesChanged, FilesKept
  <1>9. CASE Reloaded
    <2>1. pc = "reload" /\ Return("none", 0)
      BY <1>9 DEF Reloaded
    <2>. QED
      BY <2>1, CallReturnsFiles
  <1>10. ASSUME NEW u \in Units, NEW target \in Targets, OtherJob(u, target) PROVE FileInv'
    <2>1. FilesKept
      BY <1>10, InstallKeepsFiles DEF OtherJob
    <2>. QED
      BY <1>10, <2>1, FilesQuiet DEF OtherJob
  <1>11. ASSUME NEW u \in Units, NEW result \in {"done", "failed"}, JobEnds(u, result)
         PROVE FileInv'
    <2>1. FilesKept
      BY <1>11, JobKeepsFile DEF JobEnds, TypeOK
    <2>. QED
      BY <1>11, <2>1, FilesQuiet DEF JobEnds
  <1>12. CASE QueueJob
    <2>1. ensureServiceSuffix(call.name) \in Units /\ Target(call.action) \in Targets
      BY <1>12, TargetTyped DEF QueueJob, Exists
    <2>2. FilesKept
      BY <1>12, <2>1, InstallKeepsFiles DEF QueueJob
    <2>3. call \in CallRec
      BY <1>12 DEF QueueJob, TypeOK
    <2>4. call'.action = call.action /\ call'.name = call.name
      BY <1>12, <2>3 DEF QueueJob, CallRec
    <2>. QED
      BY <1>12, <2>2, <2>4, FilesQuiet DEF QueueJob
  <1>13. CASE ChangeFiles
    <2>. DEFINE u == ensureServiceSuffix(call.name)
    <2>1. /\ u \in Units /\ call.action \in FileActions /\ pc = "request"
          /\ pc' = "replied" /\ UNCHANGED <<call, log>>
          /\ \/ units[u].file = "static" /\ units' = units
             \/ units' = [units EXCEPT ![u].file = Asked(call.action)]
      BY <1>13 DEF ChangeFiles, Exists
    <2>. HIDE DEF u
    <2>3. /\ units'[u].file \in {"static", Asked(call.action)}
          /\ \A v \in Units : v # u => units'[v] = units[v]
      <3>1. units[u] \in UnitRec /\ units \in [Units -> UnitRec]
        BY <2>1 DEF TypeOK
      <3>. QED
        BY <2>1, <3>1 DEF UnitRec
    <2>4. EnabledAsAsked'
      <3>. SUFFICES ASSUME NEW i \in DOMAIN log,
                           log[i].action \in FileActions /\ log[i].err = "none",
                           \A j \in DOMAIN log : j > i =>
                             ~ChangesFiles(j, ensureServiceSuffix(log[i].name)),
                           u # ensureServiceSuffix(log[i].name)
                    PROVE  units'[ensureServiceSuffix(log[i].name)].file
                             \in {"static", Asked(log[i].action)}
        BY <2>1 DEF EnabledAsAsked, SettledBy, ChangesFiles, u
      <3>1. units[ensureServiceSuffix(log[i].name)].file \in {"static", Asked(log[i].action)}
        BY DEF FileInv, EnabledAsAsked, SettledBy, ChangesFiles, u
      <3>2. ensureServiceSuffix(log[i].name) \in Units
        BY DEF FileInv
      <3>. QED
        BY <2>3, <3>1, <3>2
    <2>. QED
      BY <2>1, <2>3, <2>4 DEF FileInv, u
  <1>14. CASE DeliverSignal
    <2>1. call'.action = call.action /\ call'.name = call.name
      <3>1. CASE pc = "waiting" /\ call' = [call EXCEPT !.result = Head(signals).result]
        <4>1. call \in CallRec
          BY <3>1 DEF TypeOK
        <4>. QED
          BY <3>1, <4>1 DEF CallRec
      <3>2. CASE call' = call
        BY <3>2
      <3>. QED
        BY <1>14, <3>1, <3>2 DEF DeliverSignal
    <2>. QED
      BY <1>14, <2>1, FilesQuiet DEF DeliverSignal, FilesKept
  <1>15. CASE Lose \/ Cancel
    BY <1>15, FilesQuiet DEF Lose, Cancel, FilesKept
  <1>16. CASE UNCHANGED vars
    BY <1>16, FilesQuiet DEF vars, FilesKept
  <1>. QED
    BY <1>1, <1>2, <1>3, <1>4, <1>5, <1>6, <1>7, <1>8, <1>9, <1>10, <1>11, <1>12,
       <1>13, <1>14, <1>15, <1>16 DEF Next, InCall, Systemd

\* EnabledAsAsked: whatever fails or is lost between the request, its reply and
\* the reload, and whatever jobs come and go, a successful enable or disable
\* has left the file as asked.
THEOREM EnabledAsAskedAlways == Spec => []EnabledAsAsked
  <1>1. Init => FileInv
    <2>. SUFFICES ASSUME Init PROVE FileInv
      OBVIOUS
    <2>1. pc = "start" /\ log = <<>>
      BY DEF Init
    <2>2. DOMAIN log = {}
      <3>1. \A s : s = <<>> => DOMAIN s = {}
        OBVIOUS
      <3>. QED
        BY <2>1, <3>1, Zenon
    <2>. QED
      BY <2>1, <2>2 DEF FileInv, EnabledAsAsked, SettledBy, ChangesFiles
  <1>2. FileInv => EnabledAsAsked
    BY DEF FileInv
  <1>. QED
    BY <1>1, <1>2, FileStep, TypeCorrect, PTL DEF Spec

=============================================================================
