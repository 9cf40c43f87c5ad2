--------------------------- MODULE DispatcherProofs ---------------------------
(***************************************************************************)
(* Proofs about Dispatcher, for every set of messages, every allowlist,    *)
(* every pending limit and any number of deliveries.                       *)
(***************************************************************************)
EXTENDS Dispatcher, SequenceTheorems, TLAPS

\* TypeOK needs one fact more: a busy handler has a command.
Typed == TypeOK /\ (pc # "idle" => handled # <<>>)

LEMMA CurrentIsMessage ==
  ASSUME TypeOK, handled # <<>>
  PROVE  /\ Len(handled) \in DOMAIN handled
         /\ Current \in Messages
         /\ Current \in Message
BY MessagesAssumption DEF TypeOK, Current

\* The end of an effect changes nothing of it but done.
LEMMA EndedKeeps ==
  ASSUME TypeOK, NEW ok \in BOOLEAN
  PROVE  /\ Ended(ok) \in Seq(Effect) /\ Len(Ended(ok)) = Len(effects)
         /\ \A j \in 1..Len(effects) : /\ Ended(ok)[j].n = effects[j].n
                                       /\ Ended(ok)[j].what = effects[j].what
<1> DEFINE last == Len(effects)
           ended == [effects[last] EXCEPT !.done = IF ok THEN "ok" ELSE "failed"]
<1>1. effects \in Seq(Effect) /\ last \in Nat
  BY DEF TypeOK
<1>2. CASE last = 0
  <2>1. Ended(ok) = effects
    BY <1>1, <1>2 DEF Ended
  <2>2. QED
    BY <1>1, <2>1
<1>3. CASE last # 0
  <2>1. last \in 1..Len(effects) /\ effects[last] \in Effect
    BY <1>1, <1>3
  <2>2. /\ ended \in Effect
        /\ ended.n = effects[last].n /\ ended.what = effects[last].what
    BY <2>1 DEF Effect
  <2>3. Ended(ok) = [effects EXCEPT ![last] = ended]
    BY <2>1 DEF Ended
  <2>4. QED
    BY <1>1, <2>1, <2>2, <2>3, ExceptSeq
<1>4. QED
  BY <1>2, <1>3

\* run appends an effect of the current command.
LEMMA AppendEffect ==
  ASSUME TypeOK, NEW es \in Seq(Effect), NEW what \in Works,
         NEW done \in {"no", "ok", "failed"}
  PROVE  /\ ForCurrent(what, done) \in Effect
         /\ Append(es, ForCurrent(what, done)) \in Seq(Effect)
BY DEF TypeOK, Effect, ForCurrent

LEMMA ReturnTyped ==
  ASSUME Typed, pc # "idle", NEW status \in Statuses, NEW success \in BOOLEAN,
         Return(status, success), effects' \in Seq(Effect)
  PROVE  Typed'
<1>1. result' \in Result
  BY Zenon DEF Return, Result
<1>2. QED
  BY <1>1 DEF Return, Typed, TypeOK

LEMMA BeginTyped ==
  ASSUME Typed, pc # "idle", NEW what \in Works, NEW next \in {"exec"} \cup Waiting,
         Begin(what, next)
  PROVE  Typed'
<1>1. effects' \in Seq(Effect)
  BY AppendEffect DEF Begin, Typed, TypeOK
<1>2. QED
  BY <1>1 DEF Begin, Typed, TypeOK, Waiting

LEMMA TypedStep == ASSUME Typed, [Next]_vars PROVE Typed'
<1>0. TypeOK /\ effects \in Seq(Effect)
  BY DEF Typed, TypeOK
<1>1. ASSUME NEW m \in Messages, Deliver(m) \/ Overflow(m)
      PROVE  Typed'
  <2>1. CASE Deliver(m)
    <3>1. inbox' \in Seq(Messages) /\ Len(inbox') = Len(inbox) + 1 /\ Len(inbox) \in Nat
      BY <1>0, <2>1, AppendProperties DEF Deliver, TypeOK
    <3>2. QED
      BY <2>1, <3>1, BoundsAssumption DEF Deliver, Typed, TypeOK
  <2>2. CASE Overflow(m)
    BY <2>2, BoundsAssumption DEF Overflow, Typed, TypeOK
  <2>3. QED
    BY <1>1, <2>1, <2>2
<1>2. CASE Drop
  BY <1>2, HeadTailProperties, BoundsAssumption DEF Drop, Typed, TypeOK
<1>3. CASE Handle
  <2>1. Head(inbox) \in Messages /\ Tail(inbox) \in Seq(Messages)
    BY <1>3, HeadTailProperties DEF Handle, Typed, TypeOK
  <2>2. handled' \in Seq(Messages) /\ handled' # <<>>
    BY <1>3, <2>1, AppendProperties DEF Handle, Typed, TypeOK
  <2>3. Len(inbox') <= PendingLimit
    BY <1>3, HeadTailProperties, BoundsAssumption DEF Handle, Typed, TypeOK
  <2>4. QED
    BY <1>3, <2>1, <2>2, <2>3 DEF Handle, Typed, TypeOK
<1>4. CASE Accept
  BY <1>4 DEF Accept, Typed, TypeOK
<1>5. CASE Reject \/ BadInterval \/ CommandNotAllowed \/ UnknownOperation
             \/ UpdateUnsupported \/ ServiceUnavailable
  BY <1>0, <1>5, ReturnTyped
     DEF Reject, BadInterval, CommandNotAllowed, UnknownOperation,
         UpdateUnsupported, ServiceUnavailable, Running, Statuses
<1>6. ASSUME NEW ok \in BOOLEAN, Query(ok)
      PROVE  Typed'
  BY <1>0, <1>6, ReturnTyped DEF Query, ReturnErr, Running, Statuses
<1>7. ASSUME NEW ok \in BOOLEAN, ServiceDone(ok) \/ ExecDone(ok)
      PROVE  Typed'
  BY <1>0, <1>7, EndedKeeps, ReturnTyped DEF End, ServiceDone, ExecDone, ReturnErr, Statuses
<1>8. CASE UpdateFailed \/ SetIntervalDone
  BY <1>0, <1>8, EndedKeeps, ReturnTyped DEF End, UpdateFailed, SetIntervalDone, Statuses
<1>9. CASE ServiceCall \/ PowerCall \/ UpdateCall \/ SetIntervalCall \/ ExecCall
  <2>1. pc = "run"
    BY <1>9 DEF ServiceCall, PowerCall, UpdateCall, SetIntervalCall, ExecCall, Running
  <2>2. CASE ServiceCall
    BY <2>1, <2>2, BeginTyped DEF ServiceCall, Running, Works, Waiting
  <2>3. CASE PowerCall
    BY <2>1, <2>3, BeginTyped DEF PowerCall, Running, Works, Waiting
  <2>4. CASE UpdateCall
    BY <2>1, <2>4, BeginTyped DEF UpdateCall, Works, Waiting
  <2>5. CASE SetIntervalCall
    BY <2>1, <2>5, BeginTyped DEF SetIntervalCall, Works, Waiting
  <2>6. CASE ExecCall
    BY <2>1, <2>6, BeginTyped DEF ExecCall, Works, Waiting
  <2>7. QED
    BY <1>9, <2>2, <2>3, <2>4, <2>5, <2>6
<1>10. CASE UpgradeCall
  <2>1. Ended(TRUE) \in Seq(Effect)
    BY <1>0, EndedKeeps
  <2>2. effects' \in Seq(Effect)
    BY <1>0, <1>10, <2>1, AppendEffect DEF UpgradeCall, Works
  <2>3. QED
    BY <1>10, <2>2 DEF UpgradeCall, Typed, TypeOK, Waiting
<1>11. ASSUME NEW ok \in BOOLEAN, SendCapabilities(ok)
       PROVE  Typed'
  <2>1. (IF ok THEN "ok" ELSE "failed") \in {"no", "ok", "failed"}
    OBVIOUS
  <2>2. effects' \in Seq(Effect)
    BY <1>0, <1>11, <2>1, AppendEffect DEF SendCapabilities, Works
  <2>3. QED
    BY <1>11, <2>2, ReturnTyped DEF SendCapabilities, Running, Statuses
<1>12. ASSUME NEW sent \in BOOLEAN, Publish(sent)
       PROVE  Typed'
  <2>1. Current \in Messages
    BY <1>0, <1>12, CurrentIsMessage DEF Publish, Typed
  <2>2. /\ ReplySubject(Current) \in {ReplySubject(m) : m \in Messages}
        /\ Current.id \in {m.id : m \in Messages}
    BY <2>1
  <2>3. [command_id |-> Current.id, status |-> result.status,
         success |-> result.success, subject |-> ReplySubject(Current),
         sent |-> sent] \in Answer
    BY <1>0, <2>2, Zenon DEF TypeOK, Result, Answer
  <2>4. answers' \in Seq(Answer)
    BY <1>0, <1>12, <2>3, AppendProperties DEF Publish, TypeOK
  <2>5. QED
    BY <1>12, <2>4 DEF Publish, Typed, TypeOK
<1>13. CASE UNCHANGED vars
  BY <1>13 DEF vars, Typed, TypeOK
<1>14. QED
  BY <1>1, <1>2, <1>3, <1>4, <1>5, <1>6, <1>7, <1>8, <1>9, <1>10, <1>11, <1>12, <1>13
     DEF Next, Handler, RunStep, CallReturns

LEMMA TypedAlways == Spec => []Typed
<1>1. Init => Typed
  <2>1. [status |-> "failed", success |-> FALSE] \in Result
    BY Zenon DEF Result, Statuses
  <2>2. QED
    BY <2>1, BoundsAssumption DEF Init, Typed, TypeOK
<1>2. Typed /\ [Next]_vars => Typed'
  BY TypedStep
<1>3. QED
  BY <1>1, <1>2, PTL DEF Spec

\* TypeOK is an invariant of Dispatcher.
THEOREM TypeCorrect == Spec => []TypeOK
<1>1. Typed => TypeOK
  BY DEF Typed
<1>2. QED
  BY <1>1, TypedAlways, PTL

-----------------------------------------------------------------------------

\* "It always returns a valid result": whatever arrives, commands are answered
\* one by one, in order, to the right subject.
THEOREM AnswersInOrder == Spec => []OneAnswerPerCommand
<1> DEFINE Busy == IF pc = "idle" THEN 0 ELSE 1
<1>1. Init => OneAnswerPerCommand
  BY DEF Init, OneAnswerPerCommand
<1>2. Typed /\ OneAnswerPerCommand /\ [Next]_vars => OneAnswerPerCommand'
  <2> SUFFICES ASSUME Typed, OneAnswerPerCommand, [Next]_vars
               PROVE  OneAnswerPerCommand'
    OBVIOUS
  <2>0. TypeOK /\ handled \in Seq(Messages) /\ answers \in Seq(Answer)
    BY DEF Typed, TypeOK
  <2>1. CASE Handle
    <3>1. Head(inbox) \in Messages
      BY <2>1, HeadTailProperties DEF Handle, Typed, TypeOK
    <3>2. /\ Len(handled') = Len(handled) + 1
          /\ \A i \in 1..Len(handled) : handled'[i] = handled[i]
      BY <2>0, <2>1, <3>1, AppendProperties DEF Handle
    <3>3. Len(handled) = Len(answers)
      BY <2>1 DEF Handle, OneAnswerPerCommand
    <3>4. QED
      BY <2>0, <2>1, <3>2, <3>3 DEF Handle, OneAnswerPerCommand
  <2>2. ASSUME NEW sent \in BOOLEAN, Publish(sent)
        PROVE  OneAnswerPerCommand'
    <3> DEFINE a == [command_id |-> Current.id, status |-> result.status,
                     success |-> result.success, subject |-> ReplySubject(Current),
                     sent |-> sent]
    <3>1. a \in Answer
      <4>1. Current \in Messages
        BY <2>0, <2>2, CurrentIsMessage DEF Publish, Typed
      <4>2. QED
        BY <2>0, <4>1, Zenon DEF TypeOK, Result, Answer
    <3>2. /\ Len(answers') = Len(answers) + 1
          /\ \A i \in 1..Len(answers) : answers'[i] = answers[i]
          /\ answers'[Len(answers) + 1] = a
      BY <2>0, <2>2, <3>1, AppendProperties DEF Publish
    <3>3. Len(handled) = Len(answers) + 1 /\ handled' = handled /\ pc' = "idle"
      BY <2>2 DEF Publish, OneAnswerPerCommand
    <3>4. a.command_id = Current.id /\ a.subject = ReplySubject(Current)
      OBVIOUS
    <3>5. a.command_id = handled[Len(answers) + 1].id
          /\ a.subject = ReplySubject(handled[Len(answers) + 1])
      BY <3>3, <3>4 DEF Current
    <3>6. \A i \in 1..(Len(answers) + 1) :
            /\ answers'[i].command_id = handled[i].id
            /\ answers'[i].subject = ReplySubject(handled[i])
      BY <2>0, <3>2, <3>5 DEF OneAnswerPerCommand
    <3>7. DOMAIN answers' = 1..(Len(answers) + 1)
      BY <2>0, <2>2, <3>1, AppendProperties, LenProperties DEF Publish
    <3>8. QED
      BY <2>0, <3>2, <3>3, <3>6, <3>7 DEF OneAnswerPerCommand
  <2>3. CASE UNCHANGED <<handled, answers>> /\ (pc' = "idle" <=> pc = "idle")
    BY <2>3 DEF OneAnswerPerCommand
  <2>4. \A m \in Messages : Deliver(m) \/ Overflow(m) => UNCHANGED <<handled, answers, pc>>
    BY DEF Deliver, Overflow
  <2>5. Drop \/ UNCHANGED vars => UNCHANGED <<handled, answers, pc>>
    BY DEF Drop, vars
  <2>6. Reject \/ Accept \/ RunStep \/ CallReturns =>
          UNCHANGED <<handled, answers>> /\ pc # "idle" /\ pc' # "idle"
    BY DEF Reject, Accept, RunStep, CallReturns, Query, SendCapabilities,
           ServiceUnavailable, ServiceCall, PowerCall, UpdateUnsupported, UpdateCall,
           BadInterval, SetIntervalCall, CommandNotAllowed, ExecCall, UnknownOperation,
           ServiceDone, ExecDone, UpdateFailed, UpgradeCall, SetIntervalDone,
           Running, Begin, Return, ReturnErr
  <2>7. QED
    BY <2>1, <2>2, <2>3, <2>4, <2>5, <2>6 DEF Next, Handler
<1>3. QED
  BY <1>1, <1>2, TypedAlways, PTL DEF Spec

-----------------------------------------------------------------------------

\* What the reasons for a rejection come to.
Permitted(m) == Valid(m) /\ m.op \in AllowedOperations

LEMMA RefusedMeans ==
  ASSUME NEW m \in Message
  PROVE  Refused(m) <=> ~Permitted(m)
BY DEF Message, RawParams, Refused, Permitted, Valid, emptyParams, Decodes

\* What the handler knows of the command it is working on.
CurrentInv ==
  /\ pc \in {"run"} \cup Waiting => Permitted(Current)
  /\ pc = "update" => Current.op = "system.update"
  /\ pc = "publish" => (result.status = "rejected" <=> ~Permitted(Current))

\* A step that comes back to Dispatch with a result that is no rejection.
LEMMA ReturnKnown ==
  ASSUME CurrentInv, pc \in {"run"} \cup Waiting,
         NEW status \in {"completed", "failed"}, NEW success,
         Return(status, success)
  PROVE  CurrentInv'
<1>1. result'.status = status /\ pc' = "publish" /\ Current' = Current
  BY DEF Return, Current
<1>2. Permitted(Current)
  BY DEF CurrentInv
<1>3. QED
  BY <1>1, <1>2 DEF CurrentInv, Waiting

LEMMA CurrentKnown == Spec => []CurrentInv
<1>1. Init => CurrentInv
  BY DEF Init, CurrentInv, Waiting
<1>2. Typed /\ CurrentInv /\ [Next]_vars => CurrentInv'
  <2> SUFFICES ASSUME Typed, CurrentInv, [Next]_vars
               PROVE  CurrentInv'
    OBVIOUS
  <2>0. pc # "idle" => Current \in Message
    BY CurrentIsMessage DEF Typed
  <2>1. CASE UNCHANGED <<pc, result, handled>>
    BY <2>1 DEF CurrentInv, Current
  <2>2. \A m \in Messages : Deliver(m) \/ Overflow(m) => UNCHANGED <<pc, result, handled>>
    BY DEF Deliver, Overflow
  <2>3. Drop \/ UNCHANGED vars => UNCHANGED <<pc, result, handled>>
    BY DEF Drop, vars
  <2>4. CASE Handle
    BY <2>4 DEF Handle, CurrentInv, Waiting
  <2>5. CASE Reject
    <3>1. ~Permitted(Current) /\ Current' = Current
      BY <2>0, <2>5, RefusedMeans DEF Reject, Return, Current
    <3>2. result'.status = "rejected" /\ pc' = "publish"
      BY <2>5 DEF Reject, Return
    <3>3. QED
      BY <3>1, <3>2 DEF CurrentInv, Waiting
  <2>6. CASE Accept
    <3>1. Permitted(Current) /\ Current' = Current /\ pc' = "run"
      BY <2>0, <2>6, RefusedMeans DEF Accept, Current
    <3>2. QED
      BY <3>1 DEF CurrentInv, Waiting
  <2>7. CASE BadInterval \/ CommandNotAllowed \/ UnknownOperation
               \/ UpdateUnsupported \/ ServiceUnavailable
    BY <2>7, ReturnKnown DEF BadInterval, CommandNotAllowed, UnknownOperation,
         UpdateUnsupported, ServiceUnavailable, Running
  <2>8. ASSUME NEW ok \in BOOLEAN, Query(ok) \/ SendCapabilities(ok)
        PROVE  CurrentInv'
    BY <2>8, ReturnKnown DEF Query, SendCapabilities, ReturnErr, Running
  <2>9. ASSUME NEW ok \in BOOLEAN, ServiceDone(ok) \/ ExecDone(ok)
        PROVE  CurrentInv'
    BY <2>9, ReturnKnown DEF ServiceDone, ExecDone, ReturnErr, Waiting
  <2>10. CASE UpdateFailed \/ SetIntervalDone
    BY <2>10, ReturnKnown DEF UpdateFailed, SetIntervalDone, Waiting
  <2>11. CASE ServiceCall \/ PowerCall \/ UpdateCall \/ SetIntervalCall \/ ExecCall
    <3>1. Permitted(Current)
      BY <2>11 DEF ServiceCall, PowerCall, UpdateCall, SetIntervalCall, ExecCall,
                   Running, CurrentInv
    <3>2. Current' = Current /\ pc' \in Waiting
      BY <2>11 DEF ServiceCall, PowerCall, UpdateCall, SetIntervalCall, ExecCall,
                   Begin, Current, Waiting
    <3>3. pc' = "update" => Current.op = "system.update"
      BY <2>11 DEF ServiceCall, PowerCall, UpdateCall, SetIntervalCall, ExecCall,
                   Begin, Running
    <3>4. QED
      BY <3>1, <3>2, <3>3 DEF CurrentInv, Waiting
  <2>12. CASE UpgradeCall
    <3>1. Permitted(Current) /\ Current' = Current /\ pc' = "exec"
      BY <2>12 DEF UpgradeCall, CurrentInv, Current, Waiting
    <3>2. QED
      BY <3>1 DEF CurrentInv, Waiting
  <2>13. ASSUME NEW sent \in BOOLEAN, Publish(sent)
         PROVE  CurrentInv'
    BY <2>13 DEF Publish, CurrentInv, Waiting
  <2>14. QED
    BY <2>1, <2>2, <2>3, <2>4, <2>5, <2>6, <2>7, <2>8, <2>9, <2>10, <2>11, <2>12, <2>13
       DEF Next, Handler, RunStep, CallReturns
<1>3. QED
  BY <1>1, <1>2, TypedAlways, PTL DEF Spec

\* Exactly what does not pass the gate is rejected.
GateRejects ==
  \A i \in DOMAIN answers : answers[i].status = "rejected" <=> ~Permitted(handled[i])

LEMMA GateRejectsAlways == Spec => []GateRejects
<1>1. Init => GateRejects
  BY DEF Init, GateRejects
<1>2. /\ Typed /\ CurrentInv /\ OneAnswerPerCommand /\ GateRejects
      /\ [Next]_vars
      => GateRejects'
  <2> SUFFICES ASSUME Typed, CurrentInv, OneAnswerPerCommand, GateRejects,
                      [Next]_vars
               PROVE  GateRejects'
    OBVIOUS
  <2>0. TypeOK /\ handled \in Seq(Messages) /\ answers \in Seq(Answer)
    BY DEF Typed, TypeOK
  <2>1. CASE Handle
    <3>1. Head(inbox) \in Messages
      BY <2>1, HeadTailProperties DEF Handle, Typed, TypeOK
    <3>2. \A i \in 1..Len(handled) : handled'[i] = handled[i]
      BY <2>0, <2>1, <3>1, AppendProperties DEF Handle
    <3>3. Len(handled) = Len(answers) /\ answers' = answers
      BY <2>1 DEF Handle, OneAnswerPerCommand
    <3>4. QED
      BY <2>0, <3>2, <3>3 DEF GateRejects
  <2>2. ASSUME NEW sent \in BOOLEAN, Publish(sent)
        PROVE  GateRejects'
    <3> DEFINE a == [command_id |-> Current.id, status |-> result.status,
                     success |-> result.success, subject |-> ReplySubject(Current),
                     sent |-> sent]
    <3>1. a \in Answer
      <4>1. Current \in Messages
        BY <2>0, <2>2, CurrentIsMessage DEF Publish, Typed
      <4>2. QED
        BY <2>0, <4>1, Zenon DEF TypeOK, Result, Answer
    <3>2. /\ \A i \in 1..Len(answers) : answers'[i] = answers[i]
          /\ answers'[Len(answers) + 1] = a
          /\ DOMAIN answers' = 1..(Len(answers) + 1)
      BY <2>0, <2>2, <3>1, AppendProperties, LenProperties DEF Publish
    <3>3. Len(handled) = Len(answers) + 1 /\ handled' = handled
      BY <2>2 DEF Publish, OneAnswerPerCommand
    <3>4. a.status = "rejected" <=> ~Permitted(handled[Len(answers) + 1])
      BY <2>2, <3>3 DEF Publish, CurrentInv, Current
    <3>5. QED
      BY <2>0, <3>2, <3>3, <3>4 DEF GateRejects, Permitted
  <2>3. CASE UNCHANGED <<handled, answers>>
    BY <2>3 DEF GateRejects
  <2>4. \A m \in Messages : Deliver(m) \/ Overflow(m) => UNCHANGED <<handled, answers>>
    BY DEF Deliver, Overflow
  <2>5. Drop \/ UNCHANGED vars => UNCHANGED <<handled, answers>>
    BY DEF Drop, vars
  <2>6. Reject \/ Accept \/ RunStep \/ CallReturns => UNCHANGED <<handled, answers>>
    BY DEF Reject, Accept, RunStep, CallReturns, Query, SendCapabilities,
           ServiceUnavailable, ServiceCall, PowerCall, UpdateUnsupported, UpdateCall,
           BadInterval, SetIntervalCall, CommandNotAllowed, ExecCall, UnknownOperation,
           ServiceDone, ExecDone, UpdateFailed, UpgradeCall, SetIntervalDone,
           Running, Begin, Return, ReturnErr
  <2>7. QED
    BY <2>1, <2>2, <2>3, <2>4, <2>5, <2>6 DEF Next, Handler
<1>3. QED
  BY <1>1, <1>2, TypedAlways, CurrentKnown, AnswersInOrder, PTL DEF Spec

-----------------------------------------------------------------------------

\* GateHolds on any list of effects and of commands.
GateFor(es, hs) ==
  \A j \in 1..Len(es) : es[j].n \in 1..Len(hs) /\ Authorized(hs[es[j].n], es[j].what)

LEMMA GateForState == ASSUME TypeOK PROVE GateHolds <=> GateFor(effects, handled)
BY LenProperties DEF TypeOK, GateHolds, GateFor

\* An effect of the current command, which is permitted, may be appended.
LEMMA GateAppend ==
  ASSUME TypeOK, handled # <<>>, NEW es \in Seq(Effect), GateFor(es, handled),
         NEW what \in Works, NEW done \in {"no", "ok", "failed"},
         Authorized(Current, what)
  PROVE  GateFor(Append(es, ForCurrent(what, done)), handled)
<1> DEFINE e == ForCurrent(what, done)
<1>1. e \in Effect /\ e.n = Len(handled) /\ e.what = what
  BY AppendEffect DEF ForCurrent
<1>2. /\ Len(Append(es, e)) = Len(es) + 1
      /\ \A j \in 1..Len(es) : Append(es, e)[j] = es[j]
      /\ Append(es, e)[Len(es) + 1] = e
  BY <1>1, AppendProperties
<1>3. Len(handled) \in 1..Len(handled)
  BY DEF TypeOK
<1>4. e.n \in 1..Len(handled) /\ Authorized(handled[e.n], e.what)
  BY <1>1, <1>3 DEF Current
<1>5. QED
  BY <1>2, <1>4 DEF GateFor

LEMMA GateEnded ==
  ASSUME TypeOK, GateFor(effects, handled), NEW ok \in BOOLEAN
  PROVE  GateFor(Ended(ok), handled)
BY EndedKeeps DEF GateFor

\* The hard gate: nothing is ever started for a command that is not valid or
\* not in allowed_operations, and no binary outside allowed_commands.
THEOREM GateAlwaysHolds == Spec => []GateHolds
<1>1. Init => GateHolds
  BY DEF Init, GateHolds
<1>2. Typed /\ CurrentInv /\ GateHolds /\ [Next]_vars => GateHolds'
  <2> SUFFICES ASSUME Typed, CurrentInv, GateHolds, [Next]_vars, Typed'
               PROVE  GateFor(effects', handled')
    BY GateForState, TypedStep DEF Typed, GateHolds, GateFor
  <2>0. TypeOK /\ effects \in Seq(Effect) /\ GateFor(effects, handled)
    BY GateForState DEF Typed, TypeOK
  <2>1. CASE Handle
    <3>1. Head(inbox) \in Messages
      BY <2>1, HeadTailProperties DEF Handle, Typed, TypeOK
    <3>2. /\ Len(handled') = Len(handled) + 1 /\ Len(handled) \in Nat
          /\ \A i \in 1..Len(handled) : handled'[i] = handled[i]
      BY <2>0, <2>1, <3>1, AppendProperties DEF Handle, TypeOK
    <3>3. QED
      BY <2>0, <2>1, <3>2 DEF Handle, GateFor
  <2>2. CASE UNCHANGED <<handled, effects>>
    BY <2>0, <2>2
  <2>3. ASSUME NEW what \in Works, NEW done \in {"no", "ok", "failed"}, pc = "run",
               Current.op = "exec" => what \in AllowedCommands,
               handled' = handled, effects' = Append(effects, ForCurrent(what, done))
        PROVE  GateFor(effects', handled')
    <3>1. Authorized(Current, what)
      BY <2>3 DEF CurrentInv, Permitted, Authorized
    <3>2. QED
      BY <2>0, <2>3, <3>1, GateAppend DEF Typed
  <2>4. CASE ServiceCall
    BY <2>3, <2>4 DEF ServiceCall, Running, Begin, Works, ServiceActions
  <2>5. CASE PowerCall
    BY <2>3, <2>5 DEF PowerCall, Running, Begin, Works, PowerOps
  <2>6. CASE UpdateCall \/ SetIntervalCall
    BY <2>3, <2>6 DEF UpdateCall, SetIntervalCall, Running, Begin, Works
  <2>7. CASE ExecCall
    BY <2>3, <2>7 DEF ExecCall, Running, Begin, Works
  <2>8. ASSUME NEW ok \in BOOLEAN, SendCapabilities(ok)
        PROVE  GateFor(effects', handled')
    <3>1. (IF ok THEN "ok" ELSE "failed") \in {"no", "ok", "failed"}
      OBVIOUS
    <3>2. QED
      BY <2>3, <2>8, <3>1 DEF SendCapabilities, Running, Return, Works
  <2>9. ASSUME NEW ok \in BOOLEAN, effects' = Ended(ok), handled' = handled
        PROVE  GateFor(effects', handled')
    BY <2>0, <2>9, GateEnded
  <2>10. ASSUME NEW ok \in BOOLEAN, ServiceDone(ok) \/ ExecDone(ok)
         PROVE  GateFor(effects', handled')
    BY <2>9, <2>10 DEF ServiceDone, ExecDone, End, Return, ReturnErr
  <2>11. CASE UpdateFailed \/ SetIntervalDone
    BY <2>9, <2>11 DEF UpdateFailed, SetIntervalDone, End, Return
  <2>12. CASE UpgradeCall
    <3>1. Authorized(Current, "apt_get_upgrade")
      BY <2>12 DEF UpgradeCall, CurrentInv, Permitted, Authorized, Waiting
    <3>2. Ended(TRUE) \in Seq(Effect) /\ GateFor(Ended(TRUE), handled)
      BY <2>0, EndedKeeps, GateEnded
    <3>3. QED
      BY <2>0, <2>12, <3>1, <3>2, GateAppend DEF UpgradeCall, Typed, Works
  <2>13. \A m \in Messages : Deliver(m) \/ Overflow(m) => UNCHANGED <<handled, effects>>
    BY DEF Deliver, Overflow
  <2>14. \A b \in BOOLEAN : Publish(b) \/ Query(b) => UNCHANGED <<handled, effects>>
    BY DEF Publish, Query, Return, ReturnErr
  <2>15. Drop \/ Reject \/ Accept \/ BadInterval \/ CommandNotAllowed \/ UnknownOperation
           \/ UpdateUnsupported \/ ServiceUnavailable \/ UNCHANGED vars
           => UNCHANGED <<handled, effects>>
    BY DEF Drop, Reject, Accept, BadInterval, CommandNotAllowed, UnknownOperation,
           UpdateUnsupported, ServiceUnavailable, vars, Return
  <2>16. QED
    BY <2>1, <2>2, <2>4, <2>5, <2>6, <2>7, <2>8, <2>10, <2>11, <2>12, <2>13, <2>14, <2>15
       DEF Next, Handler, RunStep, CallReturns
<1>3. QED
  BY <1>1, <1>2, TypedAlways, CurrentKnown, PTL DEF Spec

\* Whatever the handler did before and after, a command is answered "rejected"
\* if it is not allowed, never if it is allowed and supported, and nothing has
\* been done for it then: the gate that rejects and the one that lets works
\* begin are the same.
THEOREM RejectedForCauseAlways == Spec => []RejectedForCause
<1>1. GateRejects /\ GateHolds => RejectedForCause
  <2> SUFFICES ASSUME GateRejects, GateHolds, NEW i \in DOMAIN answers
               PROVE  LET m == handled[i]
                          allowed == Valid(m) /\ m.op \in AllowedOperations
                      IN /\ ~allowed => answers[i].status = "rejected"
                         /\ allowed /\ Supported(m) => answers[i].status # "rejected"
                         /\ answers[i].status = "rejected" =>
                              \A j \in DOMAIN effects : effects[j].n # i
    BY DEF RejectedForCause
  <2>1. answers[i].status = "rejected" <=> ~Permitted(handled[i])
    BY DEF GateRejects
  <2>2. ASSUME answers[i].status = "rejected", NEW j \in DOMAIN effects
        PROVE  effects[j].n # i
    <3>1. Authorized(handled[effects[j].n], effects[j].what)
      BY DEF GateHolds
    <3>2. Permitted(handled[effects[j].n])
      BY <3>1 DEF Authorized, Permitted
    <3>3. QED
      BY <2>1, <2>2, <3>2
  <2>3. QED
    BY <2>1, <2>2 DEF Permitted
<1>2. QED
  BY <1>1, GateRejectsAlways, GateAlwaysHolds, PTL

-----------------------------------------------------------------------------

\* The refinement mapping follows an append and does not see the end of an
\* effect.
LEMMA WorksAppend ==
  ASSUME NEW es \in Seq(Effect), NEW e \in Effect
  PROVE  WorksOf(Append(es, e)) = Append(WorksOf(es), <<e.n, e.what>>)
<1> DEFINE T == Nat \X Works
           w == WorksOf(es)
           x == <<e.n, e.what>>
           v == WorksOf(Append(es, e))
<1>1. /\ Append(es, e) \in Seq(Effect) /\ Len(Append(es, e)) = Len(es) + 1
      /\ \A j \in 1..Len(es) : Append(es, e)[j] = es[j]
      /\ Append(es, e)[Len(es) + 1] = e
      /\ Len(es) \in Nat /\ DOMAIN es = 1..Len(es)
      /\ DOMAIN Append(es, e) = 1..(Len(es) + 1)
  BY AppendProperties, LenProperties
<1>2. x \in T
  BY DEF Effect
<1>3. ASSUME NEW j \in 1..Len(es)
      PROVE  <<es[j].n, es[j].what>> \in T
  <2>1. es[j] \in Effect
    BY <1>1
  <2>2. QED
    BY <2>1 DEF Effect
<1>4. w \in Seq(T) /\ Len(w) = Len(es)
  BY <1>1, <1>3 DEF WorksOf
<1>5. v \in Seq(T) /\ Len(v) = Len(es) + 1
  BY <1>1, <1>2, <1>3 DEF WorksOf
<1>6. \A j \in 1..Len(es) : v[j] = w[j]
  BY <1>1 DEF WorksOf
<1>7. v[Len(es) + 1] = x
  BY <1>1 DEF WorksOf
<1> HIDE DEF w, x, v, T
<1>8. v = Append(w, x)
  BY <1>1, <1>2, <1>4, <1>5, <1>6, <1>7
<1>9. QED
  BY <1>8 DEF w, x, v

LEMMA AnswersAppend ==
  ASSUME NEW rs \in Seq(Answer), NEW a \in Answer
  PROVE  AnswersOf(Append(rs, a)) = Append(AnswersOf(rs), Seen(a))
<1> DEFINE T == {Seen(y) : y \in Answer}
           w == AnswersOf(rs)
           v == AnswersOf(Append(rs, a))
<1>1. /\ Append(rs, a) \in Seq(Answer) /\ Len(Append(rs, a)) = Len(rs) + 1
      /\ \A j \in 1..Len(rs) : Append(rs, a)[j] = rs[j]
      /\ Append(rs, a)[Len(rs) + 1] = a
      /\ Len(rs) \in Nat /\ DOMAIN rs = 1..Len(rs)
      /\ DOMAIN Append(rs, a) = 1..(Len(rs) + 1)
  BY AppendProperties, LenProperties
<1>2. Seen(a) \in T /\ \A j \in 1..Len(rs) : Seen(rs[j]) \in T
  BY <1>1
<1>3. /\ w \in Seq(T) /\ Len(w) = Len(rs)
      /\ v \in Seq(T) /\ Len(v) = Len(rs) + 1
  <2> HIDE DEF T
  <2>1. QED
    BY <1>1, <1>2 DEF AnswersOf
<1>4. (\A j \in 1..Len(rs) : v[j] = w[j]) /\ v[Len(rs) + 1] = Seen(a)
  BY <1>1 DEF AnswersOf
<1> HIDE DEF w, v, T
<1>5. v = Append(w, Seen(a))
  BY <1>1, <1>2, <1>3, <1>4
<1>6. QED
  BY <1>5 DEF w, v

LEMMA WorksEnded ==
  ASSUME TypeOK, NEW ok \in BOOLEAN
  PROVE  WorksOf(Ended(ok)) = WorksOf(effects)
<1>1. /\ Ended(ok) \in Seq(Effect) /\ Len(Ended(ok)) = Len(effects)
      /\ \A j \in 1..Len(effects) : /\ Ended(ok)[j].n = effects[j].n
                                    /\ Ended(ok)[j].what = effects[j].what
  BY EndedKeeps
<1>2. /\ effects \in Seq(Effect)
      /\ DOMAIN effects = 1..Len(effects) /\ DOMAIN Ended(ok) = 1..Len(effects)
  BY <1>1, LenProperties DEF TypeOK
<1>3. QED
  BY <1>1, <1>2 DEF WorksOf

LEMMA AnswersCounted ==
  ASSUME TypeOK
  PROVE  Len(AnswersOf(answers)) = Len(answers)
BY LenProperties DEF TypeOK, AnswersOf

-----------------------------------------------------------------------------

\* The command path implements the abstract service, for every configuration
\* and every sequence of messages.
THEOREM Implementation == Spec => ImplementsService
<1>1. Init => Service!Init
  BY DEF Init, Service!Init, WorksOf, AnswersOf
<1>2. Typed /\ CurrentInv /\ OneAnswerPerCommand /\ [Next]_vars => [Service!Next]_Service!vars
  <2> SUFFICES ASSUME Typed, CurrentInv, OneAnswerPerCommand, [Next]_vars
               PROVE  [Service!Next]_Service!vars
    OBVIOUS
  <2>0. TypeOK /\ effects \in Seq(Effect) /\ answers \in Seq(Answer)
    BY DEF Typed, TypeOK
  <2>1. /\ Len(AnswersOf(answers)) = Len(answers)
        /\ pc = "idle" => Service!Idle
        /\ pc # "idle" => Service!Busy /\ Current \in Messages
    BY <2>0, AnswersCounted, CurrentIsMessage
       DEF Typed, OneAnswerPerCommand, Service!Idle, Service!Busy
  <2>2. CASE UNCHANGED <<handled, effects, answers>>
    BY <2>2 DEF Service!vars
  <2>3. CASE Handle
    <3>1. Head(inbox) \in Messages
      BY <2>3, HeadTailProperties DEF Handle, Typed, TypeOK
    <3>2. Service!Take(Head(inbox))
      BY <2>1, <2>3 DEF Handle, Service!Take
    <3>3. QED
      BY <3>1, <3>2 DEF Service!Next
  <2>4. ASSUME NEW ok \in BOOLEAN, effects' = Ended(ok), UNCHANGED <<handled, answers>>
        PROVE  [Service!Next]_Service!vars
    BY <2>0, <2>4, WorksEnded DEF Service!vars
  <2>5. ASSUME NEW es \in Seq(Effect), WorksOf(es) = WorksOf(effects),
               NEW what \in Works, NEW done \in {"no", "ok", "failed"},
               pc \in {"run", "update"}, Current.op = "exec" => what \in AllowedCommands,
               effects' = Append(es, ForCurrent(what, done)), UNCHANGED <<handled, answers>>
        PROVE  [Service!Next]_Service!vars
    <3>1. Permitted(Current) /\ Current \in Messages /\ Service!Busy
      BY <2>1, <2>5 DEF CurrentInv, Waiting
    <3>2. Authorized(Current, what)
      BY <2>5, <3>1 DEF Permitted, Authorized
    <3>3. WorksOf(effects') = Append(WorksOf(effects), <<Len(handled), what>>)
      <4>1. /\ ForCurrent(what, done) \in Effect
            /\ ForCurrent(what, done).n = Len(handled)
            /\ ForCurrent(what, done).what = what
        BY <2>0, AppendEffect DEF ForCurrent
      <4>2. QED
        BY <2>5, <4>1, WorksAppend
    <3>4. Service!Work(what)
      BY <2>5, <3>1, <3>2, <3>3 DEF Service!Work, Current, Permitted
    <3>5. QED
      BY <3>4 DEF Service!Next
  <2>6. CASE ServiceCall
    BY <2>0, <2>5, <2>6 DEF ServiceCall, Running, Begin, Works, ServiceActions
  <2>7. CASE PowerCall
    BY <2>0, <2>5, <2>7 DEF PowerCall, Running, Begin, Works, PowerOps
  <2>8. CASE UpdateCall \/ SetIntervalCall
    BY <2>0, <2>5, <2>8 DEF UpdateCall, SetIntervalCall, Running, Begin, Works
  <2>9. CASE ExecCall
    BY <2>0, <2>5, <2>9 DEF ExecCall, Running, Begin, Works
  <2>10. ASSUME NEW ok \in BOOLEAN, SendCapabilities(ok)
         PROVE  [Service!Next]_Service!vars
    <3>1. (IF ok THEN "ok" ELSE "failed") \in {"no", "ok", "failed"}
      OBVIOUS
    <3>2. QED
      BY <2>0, <2>5, <2>10, <3>1 DEF SendCapabilities, Running, Return, Works
  <2>11. CASE UpgradeCall
    <3>1. Current.op # "exec" /\ Ended(TRUE) \in Seq(Effect)
      BY <2>0, <2>11, EndedKeeps DEF UpgradeCall, CurrentInv
    <3>2. WorksOf(Ended(TRUE)) = WorksOf(effects)
      BY <2>0, WorksEnded
    <3>3. QED
      BY <2>5, <2>11, <3>1, <3>2 DEF UpgradeCall, Works
  <2>12. ASSUME NEW ok \in BOOLEAN, ServiceDone(ok) \/ ExecDone(ok)
         PROVE  [Service!Next]_Service!vars
    BY <2>4, <2>12 DEF ServiceDone, ExecDone, End, Return, ReturnErr
  <2>13. CASE UpdateFailed \/ SetIntervalDone
    BY <2>4, <2>13 DEF UpdateFailed, SetIntervalDone, End, Return
  <2>14. ASSUME NEW sent \in BOOLEAN, Publish(sent)
         PROVE  [Service!Next]_Service!vars
    <3> DEFINE a == [command_id |-> Current.id, status |-> result.status,
                     success |-> result.success, subject |-> ReplySubject(Current),
                     sent |-> sent]
    <3>1. Current \in Messages /\ Service!Busy
      BY <2>1, <2>14 DEF Publish
    <3>2. a \in Answer
      BY <2>0, <3>1, Zenon DEF TypeOK, Result, Answer
    <3>3. AnswersOf(answers') =
            Append(AnswersOf(answers), <<<<Current.id, ReplySubject(Current)>>, result.status>>)
      <4>1. AnswersOf(answers') = Append(AnswersOf(answers), Seen(a))
        BY <2>0, <2>14, <3>2, AnswersAppend DEF Publish
      <4>2. QED
        BY <4>1 DEF Seen
    <3>4. result.status = "rejected" <=> ~Permitted(Current)
      BY <2>14 DEF Publish, CurrentInv
    <3>5. Service!Answer(result.status)
      BY <2>14, <3>1, <3>3, <3>4 DEF Publish, Service!Answer, Current, Permitted
    <3>6. result.status \in {"completed", "failed", "rejected"}
      BY <2>0, Zenon DEF TypeOK, Result, Statuses
    <3>7. QED
      BY <3>5, <3>6 DEF Service!Next
  <2>15. \A m \in Messages : Deliver(m) \/ Overflow(m) => UNCHANGED <<handled, effects, answers>>
    BY DEF Deliver, Overflow
  <2>16. \A ok \in BOOLEAN : Query(ok) => UNCHANGED <<handled, effects, answers>>
    BY DEF Query, Return, ReturnErr
  <2>17. Drop \/ Reject \/ Accept \/ BadInterval \/ CommandNotAllowed \/ UnknownOperation
           \/ UpdateUnsupported \/ ServiceUnavailable \/ UNCHANGED vars
           => UNCHANGED <<handled, effects, answers>>
    BY DEF Drop, Reject, Accept, BadInterval, CommandNotAllowed, UnknownOperation,
           UpdateUnsupported, ServiceUnavailable, vars, Return
  <2>18. QED
    BY <2>2, <2>3, <2>6, <2>7, <2>8, <2>9, <2>10, <2>11, <2>12, <2>13, <2>14, <2>15,
       <2>16, <2>17
       DEF Next, Handler, RunStep, CallReturns
<1>3. QED
  BY <1>1, <1>2, TypedAlways, CurrentKnown, AnswersInOrder, PTL
     DEF Spec, ImplementsService, Service!Spec

-----------------------------------------------------------------------------
(* What a step can be as far as the order of the work is concerned.  The   *)
(* three proofs that follow go through these kinds, not through the actions.*)

Quiet     == UNCHANGED <<pc, result, handled, answers, effects>>
Taken     == /\ pc = "idle" /\ pc' = "dispatch"
             /\ \E m \in Messages : handled' = Append(handled, m)
             /\ UNCHANGED <<answers, effects>>
Admitted  == /\ pc = "dispatch" /\ pc' = "run"
             /\ UNCHANGED <<handled, answers, effects>>
Returned  == /\ pc \in {"dispatch", "run"} /\ pc' = "publish"
             /\ pc = "dispatch" => result'.status = "rejected"
             /\ UNCHANGED <<handled, answers, effects>>
Started   == /\ pc = "run" /\ pc' \in Waiting
             /\ \E what \in Works :
                  /\ effects' = Append(effects, ForCurrent(what, "no"))
                  /\ pc' = "update" => what = "apt_get_update"
             /\ pc' = "service" => Current.op \in ServiceActions
             /\ UNCHANGED <<handled, answers>>
Announced == /\ pc = "run" /\ pc' = "publish"
             /\ Current.op = "agent.allowed_operations"
             /\ \E done \in {"ok", "failed"} :
                  effects' = Append(effects, ForCurrent("capabilities", done))
             /\ UNCHANGED <<handled, answers>>
Finished  == /\ pc \in Waiting /\ pc' = "publish"
             /\ \E ok \in BOOLEAN :
                  /\ effects' = Ended(ok)
                  /\ pc = "service"
                       \/ result'.status = (IF ok THEN "completed" ELSE "failed")
             /\ UNCHANGED <<handled, answers>>
Published == /\ pc = "publish" /\ pc' = "idle"
             /\ \E a \in Answer :
                  a.status = result.status /\ answers' = Append(answers, a)
             /\ UNCHANGED <<handled, effects>>

LEMMA StepKinds ==
  ASSUME Typed, [Next]_vars
  PROVE  Quiet \/ Taken \/ Admitted \/ Returned \/ Started \/ Announced
           \/ Finished \/ UpgradeCall \/ Published
<1>1. \A m \in Messages : Deliver(m) \/ Overflow(m) => Quiet
  BY DEF Deliver, Overflow, Quiet
<1>2. Drop \/ UNCHANGED vars => Quiet
  BY DEF Drop, vars, Quiet
<1>3. Handle => Taken
  <2> SUFFICES ASSUME Handle PROVE Taken
    OBVIOUS
  <2>1. Head(inbox) \in Messages
    BY HeadTailProperties DEF Handle, Typed, TypeOK
  <2>2. QED
    BY <2>1 DEF Handle, Taken
<1>4. Accept => Admitted
  BY DEF Accept, Admitted
<1>5. Reject \/ BadInterval \/ CommandNotAllowed \/ UnknownOperation
        \/ UpdateUnsupported \/ ServiceUnavailable => Returned
  BY DEF Reject, BadInterval, CommandNotAllowed, UnknownOperation,
         UpdateUnsupported, ServiceUnavailable, Running, Return, Returned
<1>6. \A ok \in BOOLEAN : Query(ok) => Returned
  BY DEF Query, Running, Return, ReturnErr, Returned
<1>7. ServiceCall => Started
  BY DEF ServiceCall, Running, Begin, Started, Works, ServiceActions, Waiting
<1>8. PowerCall => Started
  BY DEF PowerCall, Running, Begin, Started, Works, PowerOps, Waiting
<1>9. UpdateCall \/ SetIntervalCall => Started
  BY DEF UpdateCall, SetIntervalCall, Running, Begin, Started, Works, Waiting
<1>10. ExecCall => Started
  BY DEF ExecCall, Running, Begin, Started, Works, Waiting
<1>11. ASSUME NEW ok \in BOOLEAN, SendCapabilities(ok)
       PROVE  Announced
  <2>1. (IF ok THEN "ok" ELSE "failed") \in {"ok", "failed"}
    OBVIOUS
  <2>2. QED
    BY <1>11, <2>1 DEF SendCapabilities, Running, Return, Announced
<1>12. ASSUME NEW ok \in BOOLEAN, ServiceDone(ok) \/ ExecDone(ok)
       PROVE  Finished
  BY <1>12 DEF ServiceDone, ExecDone, End, Return, ReturnErr, Finished, Waiting
<1>13. UpdateFailed \/ SetIntervalDone => Finished
  <2>1. ASSUME UpdateFailed PROVE Finished
    <3>1. effects' = Ended(FALSE) /\ result'.status = "failed"
      BY <2>1 DEF UpdateFailed, End, Return
    <3>2. QED
      BY <2>1, <3>1 DEF UpdateFailed, Return, Finished, Waiting
  <2>2. ASSUME SetIntervalDone PROVE Finished
    <3>1. effects' = Ended(TRUE) /\ result'.status = "completed"
      BY <2>2 DEF SetIntervalDone, End, Return
    <3>2. QED
      BY <2>2, <3>1 DEF SetIntervalDone, Return, Finished, Waiting
  <2>3. QED
    BY <2>1, <2>2
<1>14. ASSUME NEW sent \in BOOLEAN, Publish(sent)
       PROVE  Published
  <2> DEFINE a == [command_id |-> Current.id, status |-> result.status,
                   success |-> result.success, subject |-> ReplySubject(Current),
                   sent |-> sent]
  <2>1. Current \in Messages
    BY <1>14, CurrentIsMessage DEF Publish, Typed
  <2>2. a \in Answer
    BY <2>1, Zenon DEF Typed, TypeOK, Result, Answer
  <2>3. a.status = result.status
    OBVIOUS
  <2>4. QED
    BY <1>14, <2>2, <2>3 DEF Publish, Published
<1>15. QED
  BY <1>1, <1>2, <1>3, <1>4, <1>5, <1>6, <1>7, <1>8, <1>9, <1>10, <1>11, <1>12, <1>13, <1>14
     DEF Next, Handler, RunStep, CallReturns

\* The end of an effect is recorded in the last one and nowhere else.
LEMMA EndedDone ==
  ASSUME TypeOK, NEW ok \in BOOLEAN
  PROVE  /\ \A j \in 1..Len(effects) : j # Len(effects) => Ended(ok)[j] = effects[j]
         /\ effects # <<>> =>
              Ended(ok)[Len(effects)].done = (IF ok THEN "ok" ELSE "failed")
<1> DEFINE last == Len(effects)
           ended == [effects[last] EXCEPT !.done = IF ok THEN "ok" ELSE "failed"]
<1>1. effects \in Seq(Effect) /\ last \in Nat
  BY DEF TypeOK
<1>2. CASE effects = <<>>
  <2>1. Len(effects) = 0
    BY <1>2, EmptySeq
  <2>2. QED
    BY <1>2, <2>1
<1>3. CASE effects # <<>>
  <2>1. last \in 1..Len(effects)
    BY <1>1, <1>3, EmptySeq
  <2>2. effects[last] \in Effect
    BY <1>1, <2>1
  <2>3. ended \in Effect /\ ended.done = (IF ok THEN "ok" ELSE "failed")
    BY <2>2 DEF Effect
  <2>4. Ended(ok) = [effects EXCEPT ![last] = ended]
    BY <2>1 DEF Ended
  <2>5. QED
    BY <1>1, <2>1, <2>3, <2>4, ExceptSeq
<1>4. QED
  BY <1>2, <1>3

LEMMA EffectAppended ==
  ASSUME TypeOK, NEW es \in Seq(Effect), NEW what \in Works,
         NEW done \in {"no", "ok", "failed"}
  PROVE  /\ Len(es) \in Nat
         /\ Len(Append(es, ForCurrent(what, done))) = Len(es) + 1
         /\ Append(es, ForCurrent(what, done)) # <<>>
         /\ \A j \in 1..Len(es) : Append(es, ForCurrent(what, done))[j] = es[j]
         /\ Append(es, ForCurrent(what, done))[Len(es) + 1].n = Len(handled)
         /\ Append(es, ForCurrent(what, done))[Len(es) + 1].what = what
         /\ Append(es, ForCurrent(what, done))[Len(es) + 1].done = done
<1>1. ForCurrent(what, done) \in Effect
  BY AppendEffect
<1>2. /\ ForCurrent(what, done).n = Len(handled)
      /\ ForCurrent(what, done).what = what /\ ForCurrent(what, done).done = done
  BY DEF ForCurrent
<1>3. QED
  BY <1>1, <1>2, AppendProperties, EmptySeq, LenProperties

LEMMA EndedAll ==
  ASSUME TypeOK, NEW ok \in BOOLEAN, NEW fs, fs = Ended(ok)
  PROVE  /\ fs \in Seq(Effect) /\ Len(fs) = Len(effects) /\ Len(fs) \in Nat
         /\ fs = <<>> <=> effects = <<>>
         /\ \A j \in 1..Len(effects) : fs[j].n = effects[j].n /\ fs[j].what = effects[j].what
         /\ \A j \in 1..Len(effects) : j # Len(effects) => fs[j] = effects[j]
         /\ effects # <<>> => /\ Len(effects) \in 1..Len(effects)
                              /\ fs[Len(effects)].done = (IF ok THEN "ok" ELSE "failed")
<1>1. /\ fs \in Seq(Effect) /\ Len(fs) = Len(effects) /\ Len(fs) \in Nat
      /\ \A j \in 1..Len(effects) : fs[j].n = effects[j].n /\ fs[j].what = effects[j].what
  BY EndedKeeps, LenProperties
<1>2. /\ \A j \in 1..Len(effects) : j # Len(effects) => fs[j] = effects[j]
      /\ effects # <<>> => fs[Len(effects)].done = (IF ok THEN "ok" ELSE "failed")
  BY EndedDone
<1>3. effects \in Seq(Effect)
  BY DEF TypeOK
<1>4. QED
  BY <1>1, <1>2, <1>3, EmptySeq

LEMMA HandledAppended ==
  ASSUME TypeOK, NEW m \in Messages, handled' = Append(handled, m)
  PROVE  /\ Len(handled) \in Nat /\ Len(handled') = Len(handled) + 1
         /\ \A i \in 1..Len(handled) : handled'[i] = handled[i]
BY AppendProperties, LenProperties DEF TypeOK

\* The numbers of the effects never run ahead of the commands; a command that
\* has not begun its work has none, and one that is waited for has the last.
WorkInv ==
  /\ \A j \in 1..Len(effects) : effects[j].n <= Len(handled)
  /\ pc \in {"dispatch", "run"} => \A j \in 1..Len(effects) : effects[j].n < Len(handled)
  /\ pc \in Waiting => effects # <<>> /\ effects[Len(effects)].n = Len(handled)
  /\ pc = "update" =>
       /\ effects[Len(effects)].what = "apt_get_update"
       /\ \A j \in 1..Len(effects) : j # Len(effects) => effects[j].n < Len(handled)
  /\ pc = "service" => Current.op \in ServiceActions

LEMMA WorkKnown == Spec => []WorkInv
<1>1. Init => WorkInv
  <2> SUFFICES ASSUME Init PROVE WorkInv
    OBVIOUS
  <2>1. Len(effects) = 0
    BY EmptySeq DEF Init
  <2>2. QED
    BY <2>1 DEF Init, WorkInv, Waiting
<1>2. Typed /\ WorkInv /\ [Next]_vars => WorkInv'
  <2> SUFFICES ASSUME Typed, WorkInv, [Next]_vars
               PROVE  WorkInv'
    OBVIOUS
  <2>0. /\ TypeOK /\ effects \in Seq(Effect)
        /\ Len(effects) \in Nat /\ Len(handled) \in Nat
        /\ \A j \in 1..Len(effects) : effects[j].n \in Nat
    <3>1. TypeOK /\ effects \in Seq(Effect) /\ handled \in Seq(Messages)
      BY DEF Typed, TypeOK
    <3>2. \A j \in 1..Len(effects) : effects[j] \in Effect
      BY <3>1
    <3>3. QED
      BY <3>1, <3>2, LenProperties DEF Effect
  <2>1. CASE Quiet
    BY <2>1 DEF Quiet, WorkInv, Current
  <2>2. CASE Taken
    <3>1. PICK m \in Messages : handled' = Append(handled, m)
      BY <2>2 DEF Taken
    <3>2. Len(handled') = Len(handled) + 1 /\ effects' = effects /\ pc' = "dispatch"
      BY <2>0, <2>2, <3>1, HandledAppended DEF Taken
    <3>3. \A j \in 1..Len(effects') :
            effects'[j].n < Len(handled') /\ effects'[j].n <= Len(handled')
      BY <2>0, <3>2 DEF WorkInv
    <3>4. QED
      BY <3>2, <3>3 DEF WorkInv, Waiting
  <2>3. CASE Admitted
    BY <2>3 DEF Admitted, WorkInv, Waiting
  <2>4. CASE Returned \/ Published
    BY <2>4 DEF Returned, Published, WorkInv, Waiting
  <2>5. CASE Started
    <3>1. PICK what \in Works : /\ effects' = Append(effects, ForCurrent(what, "no"))
                                /\ pc' = "update" => what = "apt_get_update"
      BY <2>5 DEF Started
    <3>2. /\ Len(effects') = Len(effects) + 1 /\ effects' # <<>>
          /\ \A j \in 1..Len(effects) : effects'[j] = effects[j]
          /\ effects'[Len(effects) + 1].n = Len(handled)
          /\ effects'[Len(effects) + 1].what = what
      BY <2>0, <3>1, EffectAppended
    <3>3. handled' = handled /\ Current' = Current /\ pc = "run" /\ pc' \in Waiting
          /\ (pc' = "service" => Current.op \in ServiceActions)
      BY <2>5 DEF Started, Current
    <3>4. \A j \in 1..Len(effects) : effects[j].n < Len(handled)
      BY <3>3 DEF WorkInv
    <3>5. \A j \in 1..Len(effects') :
            effects'[j].n <= Len(handled) /\ (j # Len(effects') => effects'[j].n < Len(handled))
      BY <2>0, <3>2, <3>4
    <3>6. QED
      BY <2>0, <3>1, <3>2, <3>3, <3>5 DEF WorkInv, Waiting
  <2>6. CASE Announced
    <3>1. PICK done \in {"ok", "failed"} :
            effects' = Append(effects, ForCurrent("capabilities", done))
      BY <2>6 DEF Announced
    <3>2. /\ Len(effects') = Len(effects) + 1
          /\ \A j \in 1..Len(effects) : effects'[j] = effects[j]
          /\ effects'[Len(effects) + 1].n = Len(handled)
      BY <2>0, <3>1, EffectAppended DEF Works
    <3>3. handled' = handled /\ pc' = "publish"
      BY <2>6 DEF Announced
    <3>4. QED
      BY <2>0, <3>2, <3>3 DEF WorkInv, Waiting
  <2>7. CASE Finished
    <3>1. PICK ok \in BOOLEAN : effects' = Ended(ok)
      BY <2>7 DEF Finished
    <3>2. /\ Len(effects') = Len(effects)
          /\ \A j \in 1..Len(effects) : effects'[j].n = effects[j].n
      BY <2>0, <3>1, EndedAll
    <3>3. handled' = handled /\ pc' = "publish"
      BY <2>7 DEF Finished
    <3>4. QED
      BY <2>0, <3>2, <3>3 DEF WorkInv, Waiting
  <2>8. CASE UpgradeCall
    <3> DEFINE es == Ended(TRUE)
    <3>1. /\ es \in Seq(Effect) /\ Len(es) = Len(effects)
          /\ \A j \in 1..Len(effects) : es[j].n = effects[j].n
      BY <2>0, EndedAll
    <3> HIDE DEF es
    <3>2. effects' = Append(es, ForCurrent("apt_get_upgrade", "no"))
      BY <2>8 DEF UpgradeCall, es
    <3>3. /\ Len(effects') = Len(effects) + 1 /\ effects' # <<>>
          /\ \A j \in 1..Len(effects) : effects'[j] = es[j]
          /\ effects'[Len(effects) + 1].n = Len(handled)
      BY <2>0, <3>1, <3>2, EffectAppended DEF Works
    <3>4. handled' = handled /\ pc' = "exec"
      BY <2>8 DEF UpgradeCall
    <3>5. QED
      BY <2>0, <3>1, <3>3, <3>4 DEF WorkInv, Waiting
  <2>9. QED
    BY <2>1, <2>2, <2>3, <2>4, <2>5, <2>6, <2>7, <2>8, StepKinds
<1>3. QED
  BY <1>1, <1>2, TypedAlways, PTL DEF Spec

-----------------------------------------------------------------------------

\* The three invariants on any list of effects.
RunningFor(es, waiting) ==
  \A j \in 1..Len(es) : es[j].done = "no" <=> j = Len(es) /\ waiting
OrderFor(es) ==
  \A j, k \in 1..Len(es) : j < k =>
    /\ es[j].n <= es[k].n
    /\ es[j].n = es[k].n =>
         /\ es[j].what = "apt_get_update" /\ es[j].done = "ok"
         /\ es[k].what = "apt_get_upgrade" /\ k = j + 1

LEMMA RunningForState ==
  ASSUME TypeOK PROVE NothingLeftRunning <=> RunningFor(effects, pc \in Waiting)
BY LenProperties DEF TypeOK, NothingLeftRunning, RunningFor

LEMMA OrderForState == ASSUME TypeOK PROVE EffectsInOrder <=> OrderFor(effects)
BY LenProperties DEF TypeOK, EffectsInOrder, OrderFor

\* What is appended after effects that have all ended.
LEMMA RunningAppend ==
  ASSUME TypeOK, NEW es \in Seq(Effect), RunningFor(es, FALSE), NEW what \in Works,
         NEW done \in {"no", "ok", "failed"}, NEW waiting \in BOOLEAN,
         waiting <=> done = "no"
  PROVE  RunningFor(Append(es, ForCurrent(what, done)), waiting)
BY EffectAppended DEF RunningFor

\* Once the last effect has ended, nothing is running any more.
LEMMA RunningEnds ==
  ASSUME TypeOK, NEW waiting \in BOOLEAN, RunningFor(effects, waiting), NEW ok \in BOOLEAN
  PROVE  RunningFor(Ended(ok), FALSE)
<1> DEFINE fs == Ended(ok)
<1>1. /\ Len(fs) = Len(effects)
      /\ \A j \in 1..Len(effects) : j # Len(effects) => fs[j] = effects[j]
      /\ effects # <<>> => fs[Len(effects)].done = (IF ok THEN "ok" ELSE "failed")
  BY EndedAll
<1>2. effects \in Seq(Effect) /\ (effects = <<>> => Len(effects) = 0)
  BY EmptySeq DEF TypeOK
<1> HIDE DEF fs
<1>3. QED
  BY <1>1, <1>2 DEF RunningFor, fs

\* While something is running the handler waits for it and starts nothing else.
THEOREM NothingLeftRunningAlways == Spec => []NothingLeftRunning
<1>1. Init => NothingLeftRunning
  BY DEF Init, NothingLeftRunning
<1>2. Typed /\ NothingLeftRunning /\ [Next]_vars => NothingLeftRunning'
  <2> SUFFICES ASSUME Typed, NothingLeftRunning, [Next]_vars, Typed'
               PROVE  RunningFor(effects', pc' \in Waiting)
    BY RunningForState, TypedStep DEF Typed, NothingLeftRunning, RunningFor
  <2>0. TypeOK /\ effects \in Seq(Effect) /\ RunningFor(effects, pc \in Waiting)
    BY RunningForState DEF Typed, TypeOK
  <2>1. CASE Quiet
    BY <2>0, <2>1 DEF Quiet
  <2>2. CASE Taken \/ Admitted \/ Returned \/ Published
    <3>1. effects' = effects /\ pc \notin Waiting /\ pc' \notin Waiting
      BY <2>2 DEF Taken, Admitted, Returned, Published, Waiting
    <3>2. QED
      BY <2>0, <3>1 DEF RunningFor
  <2>3. CASE Started
    <3>1. PICK what \in Works : effects' = Append(effects, ForCurrent(what, "no"))
      BY <2>3 DEF Started
    <3>2. pc \notin Waiting /\ pc' \in Waiting
      BY <2>3 DEF Started, Waiting
    <3>3. RunningFor(effects, FALSE)
      BY <2>0, <3>2 DEF RunningFor
    <3>4. RunningFor(effects', TRUE)
      BY <2>0, <3>1, <3>3, RunningAppend
    <3>5. QED
      BY <3>2, <3>4 DEF RunningFor
  <2>4. CASE Announced
    <3>1. PICK done \in {"ok", "failed"} :
            effects' = Append(effects, ForCurrent("capabilities", done))
      BY <2>4 DEF Announced
    <3>2. pc \notin Waiting /\ pc' \notin Waiting
      BY <2>4 DEF Announced, Waiting
    <3>3. RunningFor(effects, FALSE)
      BY <2>0, <3>2 DEF RunningFor
    <3>4. "capabilities" \in Works /\ done # "no"
      BY DEF Works
    <3>5. RunningFor(effects', FALSE)
      BY <2>0, <3>1, <3>3, <3>4, RunningAppend
    <3>6. QED
      BY <3>2, <3>5 DEF RunningFor
  <2>5. CASE Finished
    <3>1. PICK ok \in BOOLEAN : effects' = Ended(ok)
      BY <2>5 DEF Finished
    <3>2. RunningFor(effects, TRUE) /\ pc' \notin Waiting
      BY <2>0, <2>5 DEF Finished, RunningFor, Waiting
    <3>3. RunningFor(effects', FALSE)
      BY <2>0, <3>1, <3>2, RunningEnds
    <3>4. QED
      BY <3>2, <3>3 DEF RunningFor
  <2>6. CASE UpgradeCall
    <3>1. effects' = Append(Ended(TRUE), ForCurrent("apt_get_upgrade", "no"))
      BY <2>6 DEF UpgradeCall
    <3>2. RunningFor(effects, TRUE) /\ pc' \in Waiting
      BY <2>0, <2>6 DEF UpgradeCall, RunningFor, Waiting
    <3>3. RunningFor(Ended(TRUE), FALSE) /\ Ended(TRUE) \in Seq(Effect)
      BY <2>0, <3>2, RunningEnds, EndedAll
    <3>4. RunningFor(effects', TRUE)
      BY <2>0, <3>1, <3>3, RunningAppend DEF Works
    <3>5. QED
      BY <3>2, <3>4 DEF RunningFor
  <2>7. QED
    BY <2>1, <2>2, <2>3, <2>4, <2>5, <2>6, StepKinds
<1>3. QED
  BY <1>1, <1>2, TypedAlways, PTL DEF Spec

-----------------------------------------------------------------------------

LEMMA EffectsTyped ==
  ASSUME TypeOK
  PROVE  /\ effects \in Seq(Effect) /\ Len(effects) \in Nat /\ Len(handled) \in Nat
         /\ \A j \in 1..Len(effects) : effects[j].n \in Nat
<1>1. effects \in Seq(Effect) /\ handled \in Seq(Messages)
  BY DEF TypeOK
<1>2. \A j \in 1..Len(effects) : effects[j] \in Effect
  BY <1>1
<1>3. QED
  BY <1>1, <1>2, LenProperties DEF Effect

\* A command whose work has not begun may get a first effect.
LEMMA OrderAppend ==
  ASSUME TypeOK, OrderFor(effects), NEW what \in Works, NEW done \in {"no", "ok", "failed"},
         \A j \in 1..Len(effects) : effects[j].n < Len(handled)
  PROVE  OrderFor(Append(effects, ForCurrent(what, done)))
<1> DEFINE fs == Append(effects, ForCurrent(what, done))
<1>1. /\ effects \in Seq(Effect) /\ Len(effects) \in Nat /\ Len(handled) \in Nat
      /\ \A j \in 1..Len(effects) : effects[j].n \in Nat
  BY EffectsTyped
<1>2. /\ Len(fs) = Len(effects) + 1
      /\ \A j \in 1..Len(effects) : fs[j] = effects[j]
      /\ fs[Len(effects) + 1].n = Len(handled)
  BY <1>1, EffectAppended
<1> HIDE DEF fs
<1>3. \A j \in 1..Len(effects) : fs[j].n < fs[Len(effects) + 1].n
  BY <1>1, <1>2
<1>4. \A j, k \in 1..Len(fs) : j < k => j \in 1..Len(effects)
                                    /\ (k \in 1..Len(effects) \/ k = Len(effects) + 1)
  BY <1>1, <1>2
<1>5. OrderFor(fs)
  BY <1>1, <1>2, <1>3, <1>4 DEF OrderFor
<1>6. QED
  BY <1>5 DEF fs

\* Only the last effect changes when it ends, and no pair depends on how.
LEMMA OrderEnded ==
  ASSUME TypeOK, OrderFor(effects), NEW ok \in BOOLEAN
  PROVE  OrderFor(Ended(ok))
<1> DEFINE fs == Ended(ok)
<1>1. /\ Len(fs) = Len(effects)
      /\ \A j \in 1..Len(effects) : fs[j].n = effects[j].n /\ fs[j].what = effects[j].what
      /\ \A j \in 1..Len(effects) : j # Len(effects) => fs[j] = effects[j]
  BY EndedAll
<1> HIDE DEF fs
<1>2. OrderFor(fs)
  BY <1>1, EffectsTyped DEF OrderFor
<1>3. QED
  BY <1>2 DEF fs

\* Commands act on the machine one after the other.
THEOREM EffectsInOrderAlways == Spec => []EffectsInOrder
<1>1. Init => EffectsInOrder
  BY DEF Init, EffectsInOrder
<1>2. Typed /\ WorkInv /\ EffectsInOrder /\ [Next]_vars => EffectsInOrder'
  <2> SUFFICES ASSUME Typed, WorkInv, EffectsInOrder, [Next]_vars, Typed'
               PROVE  OrderFor(effects')
    <3>1. ASSUME Typed' PROVE DOMAIN effects' = 1..Len(effects')
      BY <3>1, LenProperties DEF Typed, TypeOK
    <3>2. QED
      BY <3>1, TypedStep DEF EffectsInOrder, OrderFor
  <2>0. TypeOK /\ OrderFor(effects)
    BY OrderForState DEF Typed
  <2>1. CASE Quiet \/ Taken \/ Admitted \/ Returned \/ Published
    <3>1. effects' = effects
      BY <2>1, Zenon DEF Quiet, Taken, Admitted, Returned, Published
    <3>2. QED
      BY <2>0, <3>1 DEF OrderFor
  <2>2. CASE Started
    <3>1. PICK what \in Works : effects' = Append(effects, ForCurrent(what, "no"))
      BY <2>2 DEF Started
    <3>2. \A j \in 1..Len(effects) : effects[j].n < Len(handled)
      BY <2>2 DEF Started, WorkInv
    <3>3. QED
      BY <2>0, <3>1, <3>2, OrderAppend
  <2>3. CASE Announced
    <3>1. PICK done \in {"ok", "failed"} :
            effects' = Append(effects, ForCurrent("capabilities", done))
      BY <2>3 DEF Announced
    <3>2. \A j \in 1..Len(effects) : effects[j].n < Len(handled)
      BY <2>3 DEF Announced, WorkInv
    <3>3. "capabilities" \in Works
      BY DEF Works
    <3>4. QED
      BY <2>0, <3>1, <3>2, <3>3, OrderAppend
  <2>4. CASE Finished
    BY <2>0, <2>4, OrderEnded DEF Finished
  <2>5. CASE UpgradeCall
    <3> DEFINE fs == Ended(TRUE)
               last == Len(effects)
    <3>1. /\ fs \in Seq(Effect) /\ Len(fs) = last
          /\ \A j \in 1..last : fs[j].n = effects[j].n /\ fs[j].what = effects[j].what
          /\ effects # <<>> => last \in 1..last /\ fs[last].done = "ok"
      BY <2>0, EndedAll
    <3>2. OrderFor(fs)
      BY <2>0, OrderEnded
    <3> HIDE DEF fs
    <3>3. effects' = Append(fs, ForCurrent("apt_get_upgrade", "no"))
      BY <2>5 DEF UpgradeCall, fs
    <3>4. /\ Len(effects') = last + 1
          /\ \A j \in 1..last : effects'[j] = fs[j]
          /\ effects'[last + 1].n = Len(handled)
          /\ effects'[last + 1].what = "apt_get_upgrade"
      BY <2>0, <3>1, <3>3, EffectAppended DEF Works
    <3>5. /\ effects # <<>> /\ effects[last].n = Len(handled)
          /\ effects[last].what = "apt_get_update"
          /\ \A j \in 1..last : j # last => effects[j].n < Len(handled)
      BY <2>5 DEF UpgradeCall, WorkInv, Waiting
    <3>6. \A j \in 1..last :
            /\ effects'[j].n <= Len(handled)
            /\ effects'[j].n = Len(handled) =>
                 effects'[j].what = "apt_get_update" /\ effects'[j].done = "ok" /\ j = last
      BY <2>0, <3>1, <3>4, <3>5, EffectsTyped
    <3>7. last \in Nat
      BY <2>0, EffectsTyped
    <3>8. ASSUME NEW j \in 1..Len(effects'), NEW k \in 1..Len(effects'), j < k
          PROVE  /\ effects'[j].n <= effects'[k].n
                 /\ effects'[j].n = effects'[k].n =>
                      /\ effects'[j].what = "apt_get_update" /\ effects'[j].done = "ok"
                      /\ effects'[k].what = "apt_get_upgrade" /\ k = j + 1
      <4>1. CASE k = last + 1
        BY <3>4, <3>6, <3>7, <3>8, <4>1
      <4>2. CASE k # last + 1
        <5>1. j \in 1..last /\ k \in 1..last /\ effects'[j] = fs[j] /\ effects'[k] = fs[k]
          BY <3>4, <3>7, <3>8, <4>2
        <5>2. QED
          BY <3>1, <3>2, <3>8, <5>1 DEF OrderFor
      <4>3. QED
        BY <4>1, <4>2
    <3>9. QED
      BY <3>8 DEF OrderFor
  <2>6. QED
    BY <2>1, <2>2, <2>3, <2>4, <2>5, StepKinds
<1>3. QED
  BY <1>1, <1>2, TypedAlways, WorkKnown, PTL DEF Spec

-----------------------------------------------------------------------------

\* A status that fits what was done for the command with number i.
Fits(i, status, es) ==
  /\ status = "completed" => \A j \in 1..Len(es) : es[j].n = i => es[j].done = "ok"
  /\ status = "failed" =>
       \A j \in 1..Len(es) : es[j].n = i /\ es[j].done = "ok" =>
         \E k \in 1..Len(es) : es[k].n = i /\ es[k].done = "failed"

AnswersFit ==
  \A i \in 1..Len(answers) :
    handled[i].op \notin BestEffort => Fits(i, answers[i].status, effects)
ResultFits ==
  pc = "publish" /\ Current.op \notin BestEffort =>
    Fits(Len(handled), result.status, effects)

LEMMA FitsAppend ==
  ASSUME TypeOK, NEW es \in Seq(Effect), NEW what \in Works,
         NEW done \in {"no", "ok", "failed"}, NEW i \in Nat, i # Len(handled),
         NEW status, Fits(i, status, es)
  PROVE  Fits(i, status, Append(es, ForCurrent(what, done)))
<1> DEFINE fs == Append(es, ForCurrent(what, done))
<1>1. /\ Len(es) \in Nat /\ Len(fs) = Len(es) + 1
      /\ \A j \in 1..Len(es) : fs[j] = es[j]
      /\ fs[Len(es) + 1].n = Len(handled)
  BY EffectAppended
<1> HIDE DEF fs
<1>2. /\ \A j \in 1..Len(fs) : fs[j].n = i => j \in 1..Len(es) /\ fs[j] = es[j]
      /\ \A j \in 1..Len(es) : j \in 1..Len(fs) /\ fs[j] = es[j]
  BY <1>1
<1>3. Fits(i, status, fs)
  BY <1>2 DEF Fits
<1>4. QED
  BY <1>3 DEF fs

LEMMA FitsEnded ==
  ASSUME TypeOK, effects # <<>>, NEW ok \in BOOLEAN,
         NEW i \in Nat, i # effects[Len(effects)].n,
         NEW status, Fits(i, status, effects)
  PROVE  Fits(i, status, Ended(ok))
<1> DEFINE fs == Ended(ok)
<1>1. /\ Len(fs) = Len(effects)
      /\ \A j \in 1..Len(effects) : fs[j].n = effects[j].n
      /\ \A j \in 1..Len(effects) : j # Len(effects) => fs[j] = effects[j]
  BY EndedAll
<1> HIDE DEF fs
<1>2. \A j \in 1..Len(effects) :
        fs[j].n = i \/ effects[j].n = i => fs[j] = effects[j]
  BY <1>1
<1>3. Fits(i, status, fs)
  BY <1>1, <1>2 DEF Fits
<1>4. QED
  BY <1>3 DEF fs

\* A step that leaves the answers alone and the numbered effects fitting.
LEMMA ResultKept ==
  ASSUME Typed, WorkInv, OrderFor(effects), ResultFits, [Next]_vars
  PROVE  ResultFits'
<1>0. /\ TypeOK /\ effects \in Seq(Effect) /\ Len(effects) \in Nat /\ Len(handled) \in Nat
  BY EffectsTyped DEF Typed
<1>1. CASE Quiet
  BY <1>1 DEF Quiet, ResultFits, Current
<1>2. CASE Taken \/ Admitted \/ Started \/ UpgradeCall \/ Published
  BY <1>2 DEF Taken, Admitted, Started, UpgradeCall, Published, ResultFits, Waiting
<1>3. CASE Announced
  BY <1>3 DEF Announced, ResultFits, Current, BestEffort
<1>4. CASE Returned
  <2>1. \A j \in 1..Len(effects) : effects[j].n < Len(handled) /\ effects[j].n \in Nat
    BY <1>0, <1>4, EffectsTyped DEF Returned, WorkInv
  <2>2. \A j \in 1..Len(effects) : effects[j].n # Len(handled)
    BY <1>0, <2>1
  <2>3. effects' = effects /\ handled' = handled
    BY <1>4 DEF Returned
  <2>4. QED
    BY <2>2, <2>3 DEF ResultFits, Fits
<1>5. CASE Finished
  <2> DEFINE last == Len(effects)
  <2>1. PICK ok \in BOOLEAN :
          /\ effects' = Ended(ok)
          /\ pc = "service" \/ result'.status = (IF ok THEN "completed" ELSE "failed")
    BY <1>5 DEF Finished
  <2>2. /\ pc \in Waiting /\ handled' = handled /\ Current' = Current
    BY <1>5 DEF Finished, Current
  <2>3. /\ Len(effects') = last
        /\ \A j \in 1..last : effects'[j].n = effects[j].n
        /\ \A j \in 1..last : j # last => effects'[j] = effects[j]
        /\ effects # <<>> => last \in 1..last
                             /\ effects'[last].done = (IF ok THEN "ok" ELSE "failed")
    BY <1>0, <2>1, EndedAll
  <2>4. effects # <<>> /\ effects[last].n = Len(handled)
    BY <2>2 DEF WorkInv
  <2>5. CASE pc = "service"
    BY <2>2, <2>5 DEF WorkInv, ResultFits, BestEffort
  <2>6. CASE pc # "service"
    <3>1. \A j \in 1..last : j # last /\ effects[j].n = Len(handled) => effects[j].done = "ok"
      BY <1>0, <2>3, <2>4 DEF OrderFor
    <3>2. CASE ok = TRUE
      <4>1. \A j \in 1..Len(effects') : effects'[j].n = Len(handled) => effects'[j].done = "ok"
        BY <2>3, <2>4, <3>1, <3>2
      <4>2. result'.status = "completed"
        BY <2>1, <2>6, <3>2
      <4>3. QED
        BY <2>2, <4>1, <4>2 DEF ResultFits, Fits
    <3>3. CASE ok = FALSE
      <4>1. last \in 1..Len(effects') /\ effects'[last].n = Len(handled)
            /\ effects'[last].done = "failed"
        BY <2>3, <2>4, <3>3
      <4>2. result'.status = "failed"
        BY <2>1, <2>6, <3>3
      <4>3. QED
        BY <2>2, <4>1, <4>2 DEF ResultFits, Fits
    <3>4. QED
      BY <3>2, <3>3
  <2>7. QED
    BY <2>5, <2>6
<1>6. QED
  BY <1>1, <1>2, <1>3, <1>4, <1>5, StepKinds

\* The answers given so far keep fitting: what a step does belongs to the
\* command in hand, which has no answer yet.
LEMMA AnswersKept ==
  ASSUME Typed, WorkInv, OneAnswerPerCommand, ResultFits, AnswersFit, [Next]_vars
  PROVE  AnswersFit'
<1>0. /\ TypeOK /\ effects \in Seq(Effect) /\ Len(effects) \in Nat /\ Len(handled) \in Nat
      /\ answers \in Seq(Answer) /\ Len(answers) \in Nat
      /\ Len(handled) = Len(answers) + (IF pc = "idle" THEN 0 ELSE 1)
  BY EffectsTyped, LenProperties DEF Typed, TypeOK, OneAnswerPerCommand
<1>1. CASE Quiet \/ Admitted \/ Returned
  BY <1>1 DEF Quiet, Admitted, Returned, AnswersFit
<1>2. CASE Taken
  <2>1. \A i \in 1..Len(answers) : handled'[i] = handled[i]
    BY <1>0, <1>2, HandledAppended DEF Taken
  <2>2. effects' = effects /\ answers' = answers
    BY <1>2 DEF Taken
  <2>3. QED
    BY <2>1, <2>2 DEF AnswersFit
<1>3. ASSUME answers' = answers, handled' = handled,
             \A i \in 1..Len(answers) :
               Fits(i, answers[i].status, effects) => Fits(i, answers[i].status, effects')
      PROVE  AnswersFit'
  BY <1>3 DEF AnswersFit
<1>4. CASE Started \/ Announced
  <2>1. PICK what \in Works, done \in {"no", "ok", "failed"} :
          effects' = Append(effects, ForCurrent(what, done))
    BY <1>4 DEF Started, Announced, Works
  <2>2. \A i \in 1..Len(answers) : i \in Nat /\ i # Len(handled)
    BY <1>0, <1>4 DEF Started, Announced
  <2>3. \A i \in 1..Len(answers) :
          Fits(i, answers[i].status, effects) => Fits(i, answers[i].status, effects')
    BY <1>0, <2>1, <2>2, FitsAppend
  <2>4. answers' = answers /\ handled' = handled
    BY <1>4 DEF Started, Announced
  <2>5. QED
    BY <1>3, <2>3, <2>4
<1>5. CASE Finished \/ UpgradeCall
  <2>1. /\ pc \in Waiting /\ answers' = answers /\ handled' = handled
    BY <1>5 DEF Finished, UpgradeCall, Waiting
  <2>2. effects # <<>> /\ effects[Len(effects)].n = Len(handled)
    BY <2>1 DEF WorkInv
  <2>3. \A i \in 1..Len(answers) :
          i \in Nat /\ i # Len(handled) /\ i # effects[Len(effects)].n
    BY <1>0, <2>1, <2>2 DEF Waiting
  <2>4. \A ok \in BOOLEAN : \A i \in 1..Len(answers) :
          Fits(i, answers[i].status, effects) => Fits(i, answers[i].status, Ended(ok))
    BY <1>0, <2>2, <2>3, FitsEnded
  <2>5. CASE Finished
    <3>1. PICK ok \in BOOLEAN : effects' = Ended(ok)
      BY <2>5 DEF Finished
    <3>2. QED
      BY <1>3, <2>1, <2>4, <3>1
  <2>6. CASE UpgradeCall
    <3>1. effects' = Append(Ended(TRUE), ForCurrent("apt_get_upgrade", "no"))
      BY <2>6 DEF UpgradeCall
    <3>2. Ended(TRUE) \in Seq(Effect) /\ "apt_get_upgrade" \in Works
      BY <1>0, EndedAll DEF Works
    <3>3. \A i \in 1..Len(answers) :
            Fits(i, answers[i].status, effects) => Fits(i, answers[i].status, effects')
      BY <1>0, <2>3, <2>4, <3>1, <3>2, FitsAppend
    <3>4. QED
      BY <1>3, <2>1, <3>3
  <2>7. QED
    BY <1>5, <2>5, <2>6
<1>6. CASE Published
  <2>1. PICK a \in Answer : a.status = result.status /\ answers' = Append(answers, a)
    BY <1>6 DEF Published
  <2>2. /\ Len(answers') = Len(answers) + 1
        /\ \A i \in 1..Len(answers) : answers'[i] = answers[i]
        /\ answers'[Len(answers) + 1] = a
    BY <1>0, <2>1, AppendProperties
  <2>3. /\ effects' = effects /\ handled' = handled /\ Len(handled) = Len(answers) + 1
    BY <1>0, <1>6 DEF Published
  <2>4. handled[Len(handled)].op \notin BestEffort =>
          Fits(Len(handled), result.status, effects)
    BY <1>6 DEF Published, ResultFits, Current
  <2>5. ASSUME NEW i \in 1..Len(answers'), handled'[i].op \notin BestEffort
        PROVE  Fits(i, answers'[i].status, effects')
    <3>1. CASE i \in 1..Len(answers)
      BY <2>2, <2>3, <2>5, <3>1 DEF AnswersFit
    <3>2. CASE i = Len(answers) + 1
      BY <2>1, <2>2, <2>3, <2>4, <2>5, <3>2
    <3>3. QED
      BY <1>0, <2>2, <3>1, <3>2
  <2>6. QED
    BY <2>3, <2>5 DEF AnswersFit, Fits
<1>7. QED
  BY <1>1, <1>2, <1>4, <1>5, <1>6, StepKinds

\* A status tells what was done for the command, whatever is done afterwards.
THEOREM StatusMatchesEffectsAlways == Spec => []StatusMatchesEffects
<1> DEFINE Inv == AnswersFit /\ ResultFits
<1>1. Init => Inv
  <2> SUFFICES ASSUME Init PROVE Inv
    OBVIOUS
  <2>1. Len(answers) = 0
    BY EmptySeq DEF Init
  <2>2. QED
    BY <2>1 DEF Init, AnswersFit, ResultFits
<1>2. Typed /\ WorkInv /\ EffectsInOrder /\ OneAnswerPerCommand /\ Inv /\ [Next]_vars => Inv'
  <2>1. Typed /\ EffectsInOrder => OrderFor(effects)
    BY OrderForState DEF Typed
  <2>2. QED
    BY <2>1, AnswersKept, ResultKept
<1>3. Typed /\ Inv => StatusMatchesEffects
  <2> SUFFICES ASSUME Typed, Inv PROVE StatusMatchesEffects
    OBVIOUS
  <2>1. DOMAIN answers = 1..Len(answers) /\ DOMAIN effects = 1..Len(effects)
    BY LenProperties DEF Typed, TypeOK
  <2>2. QED
    BY <2>1 DEF StatusMatchesEffects, AnswersFit, Fits
<1>4. QED
  BY <1>1, <1>2, <1>3, TypedAlways, WorkKnown, EffectsInOrderAlways, AnswersInOrder, PTL DEF Spec

-----------------------------------------------------------------------------
(* The handler seen from outside, by the kinds of steps. *)

LEMMA StepSeenOf ==
  ASSUME TypeOK
  PROVE  /\ pc = "idle" <=> StepSeen = "idle"
         /\ pc = "dispatch" <=> StepSeen = "taken"
         /\ pc = "publish" <=> StepSeen = "answer"
         /\ pc \in {"run"} \cup Waiting <=> StepSeen = "working"
BY DEF TypeOK, Waiting, StepSeen

\* Within a command the copy in hand stays the same.
LEMMA HandKept ==
  ASSUME handled' = handled, pc # "idle", pc' # "idle"
  PROVE  HandSeen' = HandSeen
BY DEF HandSeen, Current

\* For any messages and any configuration, the command path is the handler that
\* Agent puts among its surroundings.
THEOREM HandlerImplemented == Spec => ImplementsHandler
<1>1. Init => Outside!HandlerInit
  BY DEF Init, StepSeen, HandSeen, StatusSeen,
         Outside!HandlerInit, Outside!NoCopy, Outside!NoStatus
<1>2. Typed /\ Typed' /\ [Next]_vars => [Outside!HandlerNext]_Outside!handlerVars
  <2> SUFFICES ASSUME Typed, Typed', [Next]_vars
               PROVE  [Outside!HandlerNext]_Outside!handlerVars
    OBVIOUS
  <2>0. TypeOK /\ TypeOK'
    BY DEF Typed
  <2>1. /\ pc = "idle" <=> StepSeen = "idle"
        /\ pc = "dispatch" <=> StepSeen = "taken"
        /\ pc = "publish" <=> StepSeen = "answer"
        /\ pc \in {"run"} \cup Waiting <=> StepSeen = "working"
    BY <2>0, StepSeenOf
  <2>2. /\ pc' = "idle" <=> StepSeen' = "idle"
        /\ pc' = "dispatch" <=> StepSeen' = "taken"
        /\ pc' = "publish" <=> StepSeen' = "answer"
        /\ pc' \in {"run"} \cup Waiting <=> StepSeen' = "working"
    BY <2>0 DEF TypeOK, Waiting, StepSeen
  <2>3. /\ pc # "publish" => StatusSeen = "none"
        /\ pc' # "publish" => StatusSeen' = "none"
        /\ StatusSeen' \in {"completed", "failed", "none"}
        /\ pc' = "publish" => StatusSeen' \in {"completed", "failed"}
        /\ pc' = "publish" /\ result'.status = "rejected" => StatusSeen' = "failed"
    BY DEF StatusSeen
  <2>4. CASE Quiet
    BY <2>4 DEF Quiet, StepSeen, HandSeen, StatusSeen, Current, Outside!handlerVars
  <2>5. CASE Taken
    <3>1. PICK m \in Messages : handled' = Append(handled, m)
      BY <2>5 DEF Taken
    <3>2. /\ Len(handled') = Len(handled) + 1 /\ Len(handled) \in Nat
          /\ handled'[Len(handled')] = m
      BY <2>0, <3>1, AppendProperties, LenProperties DEF TypeOK
    <3>3. HandSeen' = << m.id, Len(handled) + 1 >>
      BY <2>5, <3>2 DEF Taken, HandSeen, Current
    <3>4. HandSeen' \in {x.id : x \in Messages} \X (Nat \ {0})
      BY <3>2, <3>3
    <3>5. Outside!Take
      BY <2>1, <2>2, <2>3, <2>5, <3>4 DEF Taken, Outside!Take
    <3>6. QED
      BY <3>5 DEF Outside!HandlerNext
  <2>6. CASE Admitted
    <3>1. Outside!Begin
      BY <2>1, <2>2, <2>3, <2>6, HandKept DEF Admitted, Outside!Begin
    <3>2. QED
      BY <3>1 DEF Outside!HandlerNext
  <2>7. CASE Returned
    <3>1. HandSeen' = HandSeen
      BY <2>7, HandKept DEF Returned
    <3>2. CASE pc = "dispatch"
      <4>1. Outside!TurnDown
        BY <2>1, <2>2, <2>3, <2>7, <3>1, <3>2
           DEF Returned, Outside!TurnDown, Outside!Return
      <4>2. QED
        BY <4>1 DEF Outside!HandlerNext
    <3>3. CASE pc = "run"
      <4>1. Outside!WorkEnds(StatusSeen') /\ StatusSeen' \in Outside!Statuses
        BY <2>1, <2>2, <2>3, <2>7, <3>1, <3>3
           DEF Returned, Outside!WorkEnds, Outside!Return, Outside!Statuses
      <4>2. QED
        BY <4>1 DEF Outside!HandlerNext
    <3>4. QED
      BY <2>7, <3>2, <3>3 DEF Returned
  <2>8. CASE Started \/ UpgradeCall
    <3>1. /\ pc \in {"run"} \cup Waiting /\ pc' \in {"run"} \cup Waiting
          /\ handled' = handled
      BY <2>8 DEF Started, UpgradeCall, Waiting
    <3>2. pc # "idle" /\ pc' # "idle" /\ pc # "publish" /\ pc' # "publish"
      BY <3>1 DEF Waiting
    <3>3. QED
      BY <2>1, <2>2, <2>3, <3>1, <3>2, HandKept DEF Outside!handlerVars
  <2>9. CASE Announced \/ Finished
    <3>1. pc \in {"run"} \cup Waiting /\ pc' = "publish" /\ handled' = handled
      BY <2>9 DEF Announced, Finished
    <3>2. pc # "idle" /\ pc' # "idle"
      BY <3>1 DEF Waiting
    <3>3. Outside!WorkEnds(StatusSeen') /\ StatusSeen' \in Outside!Statuses
      BY <2>1, <2>2, <2>3, <3>1, <3>2, HandKept
         DEF Outside!WorkEnds, Outside!Return, Outside!Statuses
    <3>4. QED
      BY <3>3 DEF Outside!HandlerNext
  <2>10. CASE Published
    <3>1. Outside!Publish
      BY <2>1, <2>2, <2>3, <2>10
         DEF Published, HandSeen, Outside!Publish, Outside!Idle,
             Outside!NoCopy, Outside!NoStatus
    <3>2. QED
      BY <3>1 DEF Outside!HandlerNext
  <2>11. QED
    BY <2>4, <2>5, <2>6, <2>7, <2>8, <2>9, <2>10, StepKinds
<1>3. QED
  BY <1>1, <1>2, TypedAlways, PTL DEF Spec, ImplementsHandler, Outside!HandlerSpec

=============================================================================
