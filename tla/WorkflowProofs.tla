--------------------------- MODULE WorkflowProofs ---------------------------
(***************************************************************************)
(* Proofs about Workflow for every set of steps, every definition (whether *)
(* its graph has cycles or not), every number of workers and every way the *)
(* attempts and the cancellation go.                                       *)
(***************************************************************************)
EXTENDS Workflow, FiniteSetTheorems, TLAPS

\* The dependencies of s that have not ended.
Open(s) == {d \in DependsOn(s) : state[d] \notin Final}

\* What the engine keeps about dependencies while it loops.
Counts ==
  /\ \A s \in Steps : inDegree[s] = Cardinality(Open(s))
  /\ \A s \in ready : state[s] = "pending" /\ inDegree[s] = 0
  /\ \A s \in Steps : state[s] # "pending" => inDegree[s] = 0
  /\ ~ cancelled => \A s \in Steps : state[s] = "pending" /\ inDegree[s] = 0 => s \in ready

\* The engine's view of a step and what the pool makes of it.
Views ==
  /\ \A s \in Steps : state[s] = "pending" => future[s] = "none"
  /\ \A s \in Steps : state[s] = "running" <=> s \in submitted
  /\ \A s \in Steps : future[s] \notin {"none", "ended"} => s \in submitted
  /\ \A s \in Steps : future[s] = "ended" => verdict[s] # "none"
  /\ \A s \in batch : future[s] = "ended"

\* The dependencies of a step that was given to the pool.
WellEnded ==
  \A s \in Steps : future[s] # "none" => \A d \in DependsOn(s) : state[d] \in {"done", "skipped"}

\* Submitted steps occupy their session fields, each alone.
Alone ==
  /\ \A s \in submitted : Session(s) # NoText => Session(s) \in busy
  /\ \A s, t \in submitted : s # t /\ Session(s) = Session(t) => Session(s) = NoText

Inv ==
  /\ TypeOK
  /\ Views
  /\ Alone
  /\ pc \in Looping => Counts
  /\ WellEnded
-----------------------------------------------------------------------------
\* What TypeOK says of the definition and the sets drawn from it.
LEMMA DefinitionFacts ==
  ASSUME TypeOK
  PROVE  /\ \A s \in Steps : DependsOn(s) \subseteq Steps
         /\ \A s \in Steps : OnError(s) \in Policies
         /\ \A s \in Steps : Session(s) \in Texts \cup {NoText}
BY DEF TypeOK, DefinitionType, DependsOn, OnError, Session

\* The sets of open dependencies are finite.
LEMMA OpenFinite ==
  ASSUME TypeOK, NEW s \in Steps
  PROVE  IsFiniteSet(Open(s)) /\ Cardinality(Open(s)) \in Nat /\ (Cardinality(Open(s)) = 0 <=> Open(s) = {})
<1>1. Open(s) \subseteq Steps
  BY DefinitionFacts DEF Open
<1>2. IsFiniteSet(Open(s))
  BY <1>1, FS_Subset, WorkflowAssumption
<1> QED BY <1>2, FS_CardinalityType, FS_EmptySet

\* When a step without open dependencies ends, the counts stay right.
LEMMA SettleKeepsCounts ==
  ASSUME TypeOK, Counts, NEW s \in Steps, NEW st \in Final,
         state[s] \notin Final, inDegree[s] = 0, Settle(s, st),
         cancelled' = cancelled, definition' = definition
  PROVE  Counts' /\ inDegree' \in [Steps -> Nat] /\ ready' \subseteq Steps
<1>1. /\ state' = [state EXCEPT ![s] = st]
      /\ inDegree' = [t \in Steps |-> IF s \in DependsOn(t) THEN inDegree[t] - 1 ELSE inDegree[t]]
      /\ ready' = (ready \ {s}) \cup {t \in Steps : s \in DependsOn(t) /\ inDegree[t] = 1}
  BY DEF Settle
<1>2. \A t \in Steps : DependsOn(t) \subseteq Steps /\ DependsOn(t)' = DependsOn(t)
  BY DefinitionFacts DEF DependsOn
<1>3. state \in [Steps -> {"pending", "running"} \cup Final] /\ ready \subseteq Steps
  BY DEF TypeOK
<1>4. \A t \in Steps : Open(t)' = Open(t) \ {s}
  BY <1>1, <1>2, <1>3 DEF Open
<1>5. \A t \in Steps : s \in DependsOn(t) <=> s \in Open(t)
  BY DEF Open
<1>6. ASSUME NEW t \in Steps
      PROVE  /\ inDegree[t] \in Nat
             /\ inDegree'[t] = Cardinality(Open(t)')
             /\ inDegree'[t] \in Nat
             /\ inDegree[t] = 0 => s \notin Open(t)
  <2>1. inDegree[t] = Cardinality(Open(t)) /\ Cardinality(Open(t)) \in Nat /\ IsFiniteSet(Open(t))
        /\ (Cardinality(Open(t)) = 0 <=> Open(t) = {})
    BY OpenFinite DEF Counts
  <2>2. CASE s \in Open(t)
    <3>1. Cardinality(Open(t) \ {s}) = Cardinality(Open(t)) - 1
      BY <2>1, <2>2, FS_RemoveElement
    <3>2. Cardinality(Open(t) \ {s}) \in Nat
      BY <2>1, FS_RemoveElement, FS_CardinalityType
    <3> QED BY <1>1, <1>4, <1>5, <2>1, <2>2, <3>1, <3>2
  <2>3. CASE s \notin Open(t)
    <3>1. Open(t) \ {s} = Open(t)
      BY <2>3
    <3> QED BY <1>1, <1>4, <1>5, <2>1, <2>3, <3>1
  <2> QED BY <2>2, <2>3
<1>7. \A t \in Steps : inDegree[t] = 0 => inDegree'[t] = 0
  BY <1>1, <1>5, <1>6
<1>8. s \notin ready'
  BY <1>1
<1>9. \A t \in ready' : state'[t] = "pending" /\ inDegree'[t] = 0
  <2>1. ASSUME NEW t \in ready' PROVE state'[t] = "pending" /\ inDegree'[t] = 0
    <3>1. t \in Steps /\ t # s
      BY <1>1, <1>3, <1>8
    <3>2. state[t] = "pending" /\ (inDegree[t] = 0 \/ (s \in DependsOn(t) /\ inDegree[t] = 1))
      BY <1>1, <3>1 DEF Counts
    <3> QED BY <1>1, <1>3, <1>7, <3>1, <3>2
  <2> QED BY <2>1
<1>10. \A t \in Steps : state'[t] # "pending" => inDegree'[t] = 0
  BY <1>1, <1>3, <1>7 DEF Counts
<1>11. ~ cancelled' => \A t \in Steps : state'[t] = "pending" /\ inDegree'[t] = 0 => t \in ready'
  <2>1. ASSUME ~ cancelled', NEW t \in Steps, state'[t] = "pending", inDegree'[t] = 0
        PROVE  t \in ready'
    <3>1. t # s /\ state[t] = "pending"
      BY <1>1, <1>3, <2>1 DEF Final
    <3>2. CASE s \in DependsOn(t)
      BY <1>1, <1>6, <2>1, <3>2
    <3>3. CASE s \notin DependsOn(t)
      BY <1>1, <2>1, <3>1, <3>3 DEF Counts
    <3> QED BY <3>2, <3>3
  <2> QED BY <2>1
<1>12. inDegree' \in [Steps -> Nat] /\ ready' \subseteq Steps
  BY <1>1, <1>3, <1>6
<1> QED BY <1>6, <1>9, <1>10, <1>11, <1>12 DEF Counts
-----------------------------------------------------------------------------
\* The invariant holds when the run starts.
LEMMA InitInv == Init => Inv
<1> SUFFICES ASSUME Init PROVE Inv
  OBVIOUS
<1>1. definition \in DefinitionType
  BY WorkflowAssumption DEF Init
<1>2. \A s \in Steps : DependsOn(s) \subseteq Steps
  BY <1>1 DEF DefinitionType, DependsOn
<1>3. \A s \in Steps : IsFiniteSet(DependsOn(s)) /\ Cardinality(DependsOn(s)) \in Nat
                       /\ (Cardinality(DependsOn(s)) = 0 <=> DependsOn(s) = {})
  BY <1>2, FS_Subset, FS_CardinalityType, FS_EmptySet, WorkflowAssumption
<1>4. TypeOK
  BY <1>1, <1>3 DEF Init, TypeOK, EnginePcs, DependsOn
<1>5. \A s \in Steps : Open(s) = DependsOn(s)
  BY <1>2 DEF Init, Open, Final
<1>6. Counts
  BY <1>3, <1>5 DEF Init, Counts
<1>7. Views /\ Alone /\ WellEnded
  BY DEF Init, Views, Alone, WellEnded
<1> QED BY <1>4, <1>6, <1>7 DEF Inv

\* A step of the engine that only moves it leaves what it keeps alone.
LEMMA MoveKeepsInv ==
  ASSUME Inv, TypeOK', pc' \in Looping => pc \in Looping,
         UNCHANGED <<definition, engineVars, poolVars, cancelled>>
  PROVE  Inv'
<1>1. Counts => Counts'
  BY DEF engineVars, Counts, Open, DependsOn
<1>2. Views' /\ Alone' /\ WellEnded'
  BY DEF engineVars, poolVars, Inv, Views, Alone, WellEnded, Session, DependsOn
<1> QED BY <1>1, <1>2 DEF Inv

\* Skipping what was never submitted on the way out of the loop.
LEMMA SkipPendingKeepsInv ==
  ASSUME Inv, SkipPending, pc' = "drain",
         UNCHANGED <<definition, inDegree, ready, submitted, busy, batch, fatal, poolVars,
                     cancelVars>>,
         status' \in {"running", "done", "failed", "cancelled"}
  PROVE  Inv'
<1>1. TypeOK'
  BY DEF Inv, TypeOK, SkipPending, Final, EnginePcs, poolVars, cancelVars
<1>2. Views'
  BY DEF Inv, TypeOK, Views, SkipPending, poolVars
<1>3. Alone'
  BY DEF Inv, Alone, Session
<1>4. WellEnded'
  BY DefinitionFacts DEF Inv, TypeOK, WellEnded, SkipPending, poolVars, DependsOn
<1> QED BY <1>1, <1>2, <1>3, <1>4 DEF Inv, Looping

\* A ready step that ends without having been submitted.
LEMMA DispatchSettleKeepsInv ==
  ASSUME Inv, NEW s \in ready, NEW st \in Final, pc = "dispatch",
         Settle(s, st), Show(s, st), fatal' \in BOOLEAN,
         UNCHANGED <<definition, pc, submitted, busy, batch, poolVars, cancelVars, status>>
  PROVE  Inv'
<1>1. pc \in Looping /\ pc' \in Looping
  BY DEF Looping
<1>2. TypeOK /\ Counts /\ s \in Steps
  BY <1>1 DEF Inv, TypeOK
<1>3. state[s] = "pending" /\ inDegree[s] = 0
  BY <1>2 DEF Counts
<1>4. Counts' /\ inDegree' \in [Steps -> Nat] /\ ready' \subseteq Steps
  BY <1>2, <1>3, SettleKeepsCounts DEF Final, cancelVars
<1>5. state' = [state EXCEPT ![s] = st]
  BY DEF Settle
<1>6. TypeOK'
  BY <1>2, <1>4, <1>5 DEF TypeOK, Show, poolVars, cancelVars
<1>7. Views'
  BY <1>2, <1>3, <1>5 DEF Inv, TypeOK, Views, poolVars, Final
<1>8. Alone'
  BY DEF Inv, Alone, Session
<1>9. WellEnded'
  BY <1>2, <1>3, <1>5, DefinitionFacts DEF Inv, TypeOK, WellEnded, poolVars, DependsOn
<1> QED BY <1>4, <1>6, <1>7, <1>8, <1>9 DEF Inv

\* A submitted step, with all its dependencies well ended and its session free.
LEMMA SubmitKeepsInv ==
  ASSUME Inv, NEW s \in Steps, Submit(s)
  PROVE  Inv'
<1> USE DEF Submit
<1>1. pc \in Looping /\ pc' \in Looping
  BY DEF Looping
<1>2. TypeOK /\ Counts /\ Views
  BY <1>1 DEF Inv
<1>3. state[s] = "pending" /\ inDegree[s] = 0 /\ future[s] = "none" /\ s \notin submitted
  BY <1>2 DEF Counts, Views
<1>4. state' = [state EXCEPT ![s] = "running"] /\ state \in [Steps -> {"pending", "running"} \cup Final]
  BY <1>2 DEF TypeOK
<1>5. \A t \in Steps : Open(t)' = Open(t)
  BY <1>2, <1>3, <1>4, DefinitionFacts DEF Open, DependsOn, Final
<1>6. Counts'
  BY <1>2, <1>3, <1>4, <1>5 DEF Counts, TypeOK, cancelVars
<1>7. TypeOK'
  BY <1>2, <1>4, DefinitionFacts DEF TypeOK, Show, cancelVars
<1>8. Views'
  BY <1>2, <1>3, <1>4 DEF TypeOK, Views
<1>9. Alone'
  BY <1>2 DEF Inv, Alone, Session, TypeOK
<1>10. WellEnded'
  <2>1. Open(s) = {}
    BY <1>2, <1>3, OpenFinite DEF Counts
  <2>2. \A d \in DependsOn(s) : state[d] \in {"done", "skipped"} /\ d # s
    BY <1>2, <1>3, <2>1, DefinitionFacts DEF Open, Bad, Final
  <2>3. \A t \in Steps : s \in DependsOn(t) => future[t] = "none"
    BY <1>3 DEF Inv, WellEnded
  <2>4. ASSUME NEW t \in Steps, future'[t] # "none", NEW d \in DependsOn(t)
        PROVE  state'[d] \in {"done", "skipped"}
    <3>1. CASE t = s
      BY <1>2, <1>4, <2>2, <2>4, <3>1, DefinitionFacts
    <3>2. CASE t # s
      <4>1. future[t] # "none" /\ d \in Steps
        BY <1>2, <2>4, <3>2, DefinitionFacts DEF TypeOK
      <4>2. d # s /\ state[d] \in {"done", "skipped"}
        BY <2>3, <2>4, <4>1 DEF Inv, WellEnded
      <4> QED BY <1>4, <4>1, <4>2
    <3> QED BY <3>1, <3>2
  <2> QED BY <2>4 DEF WellEnded, DependsOn
<1> QED BY <1>6, <1>7, <1>8, <1>9, <1>10 DEF Inv

\* A future that has ended settles its step and frees its session.
LEMMA ReapKeepsInv ==
  ASSUME Inv, NEW s \in Steps, Reap(s)
  PROVE  Inv'
<1>1. pc = "reap" /\ pc' = "reap" /\ pc \in Looping /\ s \in batch /\ s \in submitted
  BY DEF Reap, Looping, Inv, TypeOK
<1>2. TypeOK /\ Counts /\ Views
  BY <1>1 DEF Inv
<1>3. state[s] = "running" /\ inDegree[s] = 0 /\ future[s] = "ended"
      /\ verdict[s] \in {"done", "failed", "cancelled"}
  BY <1>1, <1>2 DEF Counts, Views, TypeOK
<1>4. PICK st \in Final : Settle(s, st)
  BY <1>3 DEF Reap, Final
<1>5. Counts' /\ inDegree' \in [Steps -> Nat] /\ ready' \subseteq Steps
  BY <1>2, <1>3, <1>4, SettleKeepsCounts DEF Reap, Final, cancelVars
<1>6. state' = [state EXCEPT ![s] = st]
  BY <1>4 DEF Settle
<1>7. shown' \in [Steps -> {"pending", "running"} \cup Final] /\ fatal' \in BOOLEAN
  BY <1>2 DEF Reap, TypeOK, Final
<1>8. TypeOK'
  BY <1>1, <1>2, <1>5, <1>6, <1>7 DEF Reap, TypeOK, poolVars, cancelVars
<1>9. Views'
  BY <1>2, <1>3, <1>6 DEF Reap, TypeOK, Views, poolVars, Final
<1>10. Alone'
  <2>1. busy' = busy \ {Session(s)} /\ submitted' = submitted \ {s} /\ definition' = definition
    BY DEF Reap
  <2>2. \A t \in submitted' : Session(t) # NoText => Session(t) \in busy /\ Session(t) # Session(s)
    BY <1>1, <2>1 DEF Inv, Alone
  <2> QED BY <2>1, <2>2 DEF Inv, Alone, Session
<1>11. WellEnded'
  BY <1>2, <1>3, <1>6, DefinitionFacts
  DEF Reap, Inv, TypeOK, WellEnded, poolVars, DependsOn
<1> QED BY <1>5, <1>8, <1>9, <1>10, <1>11 DEF Inv

\* Every other step of the engine.
LEMMA EngineKeepsInv == Inv /\ Engine => Inv'
<1> SUFFICES ASSUME Inv, Engine PROVE Inv'
  OBVIOUS
<1>1. CASE SeesCancel
  BY <1>1, SkipPendingKeepsInv DEF SeesCancel, Inv, TypeOK
<1>2. CASE SeesFatal
  BY <1>2, SkipPendingKeepsInv DEF SeesFatal, FinishRun, Inv, TypeOK
<1>3. CASE StartsDispatch
  <2>1. TypeOK'
    BY <1>3 DEF StartsDispatch, Inv, TypeOK, EnginePcs, engineVars, poolVars, cancelVars, recordVars
  <2> QED BY <1>3, <2>1, MoveKeepsInv DEF StartsDispatch, Looping, cancelVars
<1>4. ASSUME NEW s \in Steps, Dispatch(s) \/ Reap(s)
      PROVE  Inv'
  <2> DEFINE st == IF OnError(s) = "ignore" THEN "done" ELSE "failed"
  <2>1. CASE SkipDependent(s) \/ ConditionFalse(s)
    BY <2>1, DispatchSettleKeepsInv
    DEF SkipDependent, ConditionFalse, Skip, Final, Inv, TypeOK
  <2>2. CASE ConditionError(s)
    <3>1. st \in Final /\ fatal' \in BOOLEAN
      BY <2>2 DEF ConditionError, Final, Inv, TypeOK
    <3> QED BY <2>2, <3>1, DispatchSettleKeepsInv DEF ConditionError
  <2>3. CASE ConditionRaises(s)
    <3>1. TypeOK'
      BY <2>3 DEF ConditionRaises, Inv, TypeOK, EnginePcs, poolVars, cancelVars, recordVars
    <3>2. Views' /\ Alone' /\ WellEnded'
      BY <2>3
      DEF ConditionRaises, Inv, Views, Alone, WellEnded, Session, DependsOn, poolVars
    <3> QED BY <2>3, <3>1, <3>2 DEF ConditionRaises, Inv, Looping
  <2>4. CASE StopDispatch(s)
    <3>1. TypeOK'
      BY <2>4 DEF StopDispatch, Inv, TypeOK, EnginePcs, poolVars, cancelVars, recordVars
    <3>2. Views' /\ Alone' /\ WellEnded'
      BY <2>4 DEF StopDispatch, Inv, Views, Alone, WellEnded, Session, DependsOn, poolVars
    <3>3. Counts'
      BY <2>4 DEF StopDispatch, Inv, Looping, Counts, Open, DependsOn, cancelVars
    <3> QED BY <3>1, <3>2, <3>3 DEF Inv
  <2>5. CASE Defer(s)
    <3>1. TypeOK'
      BY <2>5 DEF Defer, Inv, TypeOK, EnginePcs, engineVars, poolVars, cancelVars, recordVars
    <3> QED BY <2>5, <3>1, MoveKeepsInv DEF Defer, Looping, cancelVars
  <2>6. CASE Submit(s)
    BY <2>6, SubmitKeepsInv
  <2>7. CASE Reap(s)
    BY <2>7, ReapKeepsInv
  <2> QED BY <1>4, <2>1, <2>2, <2>3, <2>4, <2>5, <2>6, <2>7 DEF Dispatch
<1>5. CASE EndDispatch
  <2>1. TypeOK'
    BY <1>5 DEF EndDispatch, Inv, TypeOK, EnginePcs, engineVars, poolVars, cancelVars, recordVars
  <2> QED BY <1>5, <2>1, MoveKeepsInv DEF EndDispatch, Looping, cancelVars
<1>6. CASE Check
  <2>1. CASE pc' = "drain"
    BY <1>6, <2>1, SkipPendingKeepsInv DEF Check, Inv, TypeOK
  <2>2. CASE pc' # "drain"
    <3>1. TypeOK'
      BY <1>6, <2>2 DEF Check, Inv, TypeOK, EnginePcs, poolVars, cancelVars
    <3> QED BY <1>6, <2>2, <3>1, MoveKeepsInv DEF Check, Looping, engineVars, cancelVars
  <2> QED BY <2>1, <2>2
<1>7. CASE WaitReturns
  <2>1. TypeOK'
    BY <1>7 DEF WaitReturns, Inv, TypeOK, EnginePcs, poolVars, cancelVars, recordVars
  <2>2. Views' /\ Alone' /\ WellEnded'
    BY <1>7 DEF WaitReturns, Inv, Views, Alone, WellEnded, Session, DependsOn, poolVars
  <2>3. Counts'
    BY <1>7 DEF WaitReturns, Inv, Looping, Counts, Open, DependsOn, cancelVars
  <2> QED BY <2>1, <2>2, <2>3 DEF Inv
<1>8. CASE EndReap
  <2>1. TypeOK'
    BY <1>8 DEF EndReap, Inv, TypeOK, EnginePcs, engineVars, poolVars, cancelVars, recordVars
  <2> QED BY <1>8, <2>1, MoveKeepsInv DEF EndReap, Looping, cancelVars
<1>9. CASE Drain
  <2>1. TypeOK'
    BY <1>9 DEF Drain, Inv, TypeOK, EnginePcs, engineVars, cancelVars, recordVars
  <2>2. \A s \in Steps : \/ future'[s] = future[s]
                         \/ future[s] = "queued" /\ future'[s] = "dropped"
    BY <1>9 DEF Drain
  <2>3. Views' /\ Alone' /\ WellEnded'
    BY <1>9, <2>2
    DEF Drain, Inv, TypeOK, Views, Alone, WellEnded, Session, DependsOn, engineVars
  <2> QED BY <1>9, <2>1, <2>3 DEF Drain, Inv, Looping
<1>10. CASE Decide
  <2>1. TypeOK'
    BY <1>10 DEF Decide, Inv, TypeOK, EnginePcs, engineVars, poolVars, cancelVars, recordVars
  <2> QED BY <1>10, <2>1, MoveKeepsInv DEF Decide, Looping, cancelVars
<1>11. CASE Finish
  <2>1. TypeOK'
    BY <1>11
    DEF Finish, FinishRun, Inv, TypeOK, EnginePcs, engineVars, poolVars, cancelVars
  <2> QED BY <1>11, <2>1, MoveKeepsInv DEF Finish, Looping, cancelVars
<1> QED BY <1>1, <1>2, <1>3, <1>4, <1>5, <1>6, <1>7, <1>8, <1>9, <1>10, <1>11 DEF Engine

\* A worker only ever moves the future of a step that was submitted.
LEMMA WorkerKeepsInv ==
  ASSUME Inv, NEW s \in Steps, Worker(s)
  PROVE  Inv'
<1>1. /\ UNCHANGED <<definition, pc, engineVars, cancelVars, status>>
      /\ future[s] \in {"queued", "executing", "retrying"}
  BY DEF Worker, BeginAttempt, Succeed, Fail, NoticeCancel
<1>2. \/ \E f \in {"executing", "retrying"} : future' = [future EXCEPT ![s] = f] /\ UNCHANGED <<verdict, shown>>
      \/ \E v \in {"done", "failed", "cancelled"} : End(s, v)
  BY DEF Worker, BeginAttempt, Succeed, Fail, NoticeCancel
<1>3. attempts' \in [Steps -> Nat]
  BY DEF Worker, BeginAttempt, Succeed, Fail, NoticeCancel, Inv, TypeOK
<1>4. TypeOK'
  BY <1>1, <1>2, <1>3 DEF Inv, TypeOK, End, Show, Final, engineVars, cancelVars
<1>5. Views'
  BY <1>1, <1>2 DEF Inv, TypeOK, Views, End, engineVars
<1>6. Alone' /\ (Counts => Counts')
  BY <1>1 DEF Inv, Alone, Session, Counts, Open, DependsOn, engineVars, cancelVars
<1>7. WellEnded'
  BY <1>1, <1>2 DEF Inv, TypeOK, WellEnded, DependsOn, End, engineVars
<1> QED BY <1>1, <1>4, <1>5, <1>6, <1>7 DEF Inv

\* The client that cancels writes the event and the status of the run.
LEMMA CancellerKeepsInv == Inv /\ Canceller => Inv'
<1> SUFFICES ASSUME Inv, Canceller PROVE Inv'
  OBVIOUS
<1>1. UNCHANGED <<definition, pc, engineVars, poolVars>> /\ (cancelled' = cancelled \/ cancelled')
  BY DEF Canceller, AskCancel, SetCancel, FinishCancel, recordVars
<1>2. TypeOK'
  BY DEF Canceller, AskCancel, SetCancel, FinishCancel, FinishRun, Inv, TypeOK, engineVars,
         poolVars, recordVars
<1>3. Views' /\ Alone' /\ WellEnded'
  BY <1>1
  DEF Inv, Views, Alone, WellEnded, Session, DependsOn, engineVars, poolVars
<1>4. Counts => Counts'
  BY <1>1 DEF Counts, Open, DependsOn, engineVars
<1> QED BY <1>1, <1>2, <1>3, <1>4 DEF Inv

\* The invariant is kept by every step of every thread.
LEMMA NextKeepsInv == Inv /\ [Next]_vars => Inv'
<1> SUFFICES ASSUME Inv, [Next]_vars PROVE Inv'
  OBVIOUS
<1>1. CASE UNCHANGED vars
  BY <1>1 DEF vars, Inv, TypeOK, Views, Alone, Counts, WellEnded, Open, Session,
              DependsOn, engineVars, poolVars, cancelVars, recordVars
<1>2. CASE AllOver
  BY <1>1, <1>2 DEF AllOver
<1> QED
  BY <1>1, <1>2, EngineKeepsInv, WorkerKeepsInv, CancellerKeepsInv DEF Next
-----------------------------------------------------------------------------
\* The invariant holds of every reachable state, for every definition.
THEOREM Invariance == Spec => []Inv
BY InitInv, NextKeepsInv, PTL DEF Spec

\* Type correctness of the whole state.
THEOREM TypeCorrect == Spec => []TypeOK
<1>1. Inv => TypeOK
  BY DEF Inv
<1> QED BY Invariance, <1>1, PTL

\* The counts of open dependencies never drift and no ready step is forgotten,
\* whatever order the futures end in (engine.py, _notify_dependents).
THEOREM CountsAreRight == Spec => []DependencyCounts
<1>1. Inv => DependencyCounts
  BY DEF Inv, Counts, DependencyCounts, Open, TypeOK
<1> QED BY Invariance, <1>1, PTL

\* No step is given to the pool before all its dependencies have ended, none of
\* them failed or cancelled, and every worker has left them.
THEOREM NoneStartsEarly == Spec => []DependenciesFirst
<1>1. Inv => DependenciesFirst
  <2> SUFFICES ASSUME Inv, NEW s \in Steps, future[s] # "none", NEW d \in DependsOn(s)
               PROVE  state[d] \in {"done", "skipped"} /\ future[d] \in {"none", "ended"}
    BY DEF DependenciesFirst
  <2>1. d \in Steps /\ state[d] \in {"done", "skipped"}
    BY DefinitionFacts DEF Inv, WellEnded
  <2> QED BY <2>1 DEF Inv, Views
<1> QED BY Invariance, <1>1, PTL

\* Steps in flight together work on one session only where the definition writes
\* its name in two ways, for any number of workers (engine.py, running_sessions).
THEOREM SessionsAreSerial == Spec => []OneStepPerSession
<1>1. Inv => OneStepPerSession
  BY DEF Inv, Views, Alone, OneStepPerSession, InFlight
<1> QED BY Invariance, <1>1, PTL

\* The session fields of a definition name a session in one way each.
OneTextEach ==
  \A s, t \in Steps :
    NoText \notin {Session(s), Session(t)} /\ Target(s) = Target(t) => Session(s) = Session(t)

\* What the engine says of running_sessions is true of the definitions in which
\* no two texts name one session: those without templates in session fields.
COROLLARY NeverSharedWithoutTemplates == Spec => [](OneTextEach => SessionsNeverShared)
<1>1. OneStepPerSession => (OneTextEach => SessionsNeverShared)
  BY DEF OneStepPerSession, OneTextEach, SessionsNeverShared
<1> QED BY SessionsAreSerial, <1>1, PTL

\* Settle is only called for a step that has not ended.
LEMMA SettledStep ==
  ASSUME Inv, [Next]_vars
  PROVE  \A s \in Steps : state[s] \in Final => state'[s] = state[s]
<1>1. \A s \in ready : pc = "dispatch" => state[s] = "pending"
  BY DEF Inv, Counts, Looping
<1>2. \A s \in batch : state[s] = "running"
  BY DEF Inv, TypeOK, Views
<1>3. ASSUME SkipPending
      PROVE  \A s \in Steps : state[s] \in Final => state'[s] = state[s]
  BY <1>3 DEF SkipPending, Final
<1>4. ASSUME NEW t \in Steps, state[t] \notin Final, NEW st \in Final,
             state' = [state EXCEPT ![t] = st] \/ state' = [state EXCEPT ![t] = "running"]
      PROVE  \A s \in Steps : state[s] \in Final => state'[s] = state[s]
  BY <1>4 DEF Inv, TypeOK
<1>5. CASE UNCHANGED state
  BY <1>5
<1>6. CASE SeesCancel \/ SeesFatal \/ Check
  BY <1>3, <1>6 DEF SeesCancel, SeesFatal, Check
<1>7. ASSUME NEW t \in Steps, Dispatch(t), ~ UNCHANGED state
      PROVE  \A s \in Steps : state[s] \in Final => state'[s] = state[s]
  <2>1. state[t] \notin Final
    BY <1>1, <1>7
    DEF Dispatch, SkipDependent, ConditionFalse, ConditionError, ConditionRaises, StopDispatch,
        Defer, Submit, Final
  <2>2. \E st \in Final : \/ state' = [state EXCEPT ![t] = st]
                          \/ state' = [state EXCEPT ![t] = "running"]
    BY <1>7
    DEF Dispatch, SkipDependent, ConditionFalse, ConditionError, ConditionRaises, StopDispatch,
        Defer, Submit, Skip, Settle, Final, engineVars
  <2> QED BY <1>4, <2>1, <2>2
<1>8. ASSUME NEW t \in Steps, Reap(t)
      PROVE  \A s \in Steps : state[s] \in Final => state'[s] = state[s]
  <2>1. state[t] \notin Final /\ verdict[t] \in {"done", "failed", "cancelled"}
    BY <1>2, <1>8 DEF Reap, Inv, TypeOK, Views, Final
  <2>2. \E st \in Final : state' = [state EXCEPT ![t] = st]
    BY <1>8, <2>1 DEF Reap, Settle, Final
  <2> QED BY <1>4, <2>1, <2>2
<1>9. \/ UNCHANGED state
      \/ SeesCancel \/ SeesFatal \/ Check
      \/ \E t \in Steps : Dispatch(t) \/ Reap(t)
  BY DEF Next, Engine, Worker, Canceller, AllOver, StartsDispatch, EndDispatch, WaitReturns,
         EndReap, Drain, Decide, Finish, BeginAttempt, Succeed, Fail, NoticeCancel, AskCancel,
         SetCancel, FinishCancel, vars, engineVars, recordVars
<1> QED BY <1>5, <1>6, <1>7, <1>8, <1>9

\* The status of the run is written once.
LEMMA StatusStep ==
  ASSUME [Next]_vars, status # "running"
  PROVE  status' = status
BY DEF Next, Engine, Dispatch, Worker, Canceller, AllOver, SeesCancel, SeesFatal, StartsDispatch,
       SkipDependent, ConditionFalse, ConditionError, ConditionRaises, StopDispatch, Defer, Submit,
       EndDispatch, Check, WaitReturns, Reap, EndReap, Drain, Decide, Finish, FinishRun,
       BeginAttempt, Succeed, Fail, NoticeCancel, AskCancel, SetCancel, FinishCancel, vars,
       recordVars

\* A step that ended and a run that ended stay as they ended, although three
\* threads write them (runner.py).
THEOREM EndsAreFinal == Spec => SettledStays
<1>1. Inv /\ [Next]_vars =>
        [/\ \A s \in Steps : state[s] \in Final => state'[s] = state[s]
         /\ status # "running" => status' = status]_vars
  BY SettledStep, StatusStep
<1> QED BY Invariance, <1>1, PTL DEF Spec, SettledStays
-----------------------------------------------------------------------------
(* The record that clients see and the way the engine leaves its loop: what *)
(* is needed to prove that a run reported as done is done.                  *)

\* A client sees a step as the engine does, except between the end of its
\* future and the engine's look at it.
Record ==
  /\ \A s \in submitted : future[s] # "none"
  /\ \A s \in Steps :
       shown[s] = IF s \in submitted /\ future[s] = "ended" THEN verdict[s] ELSE state[s]

\* Why a step failed or was cancelled, and who may have cancelled the run.
Causes ==
  /\ \A s \in Steps : state[s] = "failed" => OnError(s) = "continue" \/ fatal
  /\ ~ cancelled => \A s \in Steps : verdict[s] # "cancelled" /\ state[s] # "cancelled"
  /\ canceller = "set" \/ status = "cancelled" => cancelled

\* Every step has been dealt with, and none is in flight, was fatal or cancelled.
NonePending == \A s \in Steps : state[s] # "pending"
Quiet ==
  /\ submitted = {}
  /\ ~ fatal
  /\ \A s \in Steps : state[s] # "cancelled"

\* The step whose condition raised is left as it was.
Raised == \E t \in Steps : definition.condition[t] /\ state[t] = "pending"

Leaving ==
  /\ pc \in {"drain", "decide", "finish"} => NonePending
  /\ pc \in {"unwind", "crash"} => Raised
  /\ pc = "over" => NonePending \/ Raised
  /\ pc \in {"drain", "decide"} /\ ~ cancelled /\ status # "failed" => submitted = {} /\ ~ fatal
  /\ pc = "finish" => Quiet
  /\ status = "done" => pc = "over" /\ NonePending /\ Quiet

RunInv == Inv /\ Record /\ Causes /\ Leaving

\* The record and the exit conditions hold when the run starts.
LEMMA InitRunInv == Init => RunInv
<1> SUFFICES ASSUME Init PROVE RunInv
  OBVIOUS
<1>1. Record /\ Causes /\ Leaving
  BY DEF Init, Record, Causes, Leaving
<1> QED BY <1>1, InitInv DEF RunInv

\* A step that is dispatched was never submitted.
LEMMA ReadyFacts ==
  ASSUME Inv, pc = "dispatch", NEW s \in ready
  PROVE  s \in Steps /\ state[s] = "pending" /\ future[s] = "none" /\ s \notin submitted
BY DEF Inv, TypeOK, Counts, Views, Looping

\* A step whose future is looked at.
LEMMA BatchFacts ==
  ASSUME Inv, NEW s \in batch
  PROVE  /\ s \in Steps /\ s \in submitted /\ state[s] = "running" /\ future[s] = "ended"
         /\ verdict[s] \in {"done", "failed", "cancelled"}
BY DEF Inv, TypeOK, Views

\* What a dispatch that ends a step without submitting it does.
LEMMA DispatchEnds ==
  ASSUME Inv, NEW s \in Steps, SkipDependent(s) \/ ConditionFalse(s) \/ ConditionError(s)
  PROVE  /\ pc = "dispatch" /\ s \in ready
         /\ \E st \in {"done", "failed", "skipped"} :
              /\ state' = [state EXCEPT ![s] = st]
              /\ shown' = [shown EXCEPT ![s] = st]
              /\ st = "failed" => OnError(s) = "continue" \/ fatal'
         /\ fatal => fatal'
         /\ UNCHANGED <<definition, pc, submitted, poolVars, cancelVars, status>>
<1>1. OnError(s) \in {"fail", "continue", "ignore"}
  BY DefinitionFacts DEF Inv, Policies
<1>2. CASE SkipDependent(s) \/ ConditionFalse(s)
  BY <1>2 DEF SkipDependent, ConditionFalse, Skip, Settle, Show
<1>3. CASE ConditionError(s)
  <2>1. PICK st \in {"done", "failed"} :
          /\ state' = [state EXCEPT ![s] = st]
          /\ shown' = [shown EXCEPT ![s] = st]
          /\ st = "failed" => OnError(s) # "ignore"
    BY <1>3 DEF ConditionError, Settle, Show
  <2>2. /\ pc = "dispatch" /\ s \in ready
        /\ fatal' = (fatal \/ OnError(s) = "fail")
        /\ UNCHANGED <<definition, pc, submitted, poolVars, cancelVars, status>>
    BY <1>3 DEF ConditionError
  <2> QED BY <1>1, <2>1, <2>2
<1> QED BY <1>2, <1>3

\* The steps of the engine by what they do to the steps of the run.
LEMMA EngineCases ==
  ASSUME Inv, [Next]_vars
  PROVE  \/ SeesCancel \/ SeesFatal \/ Check \/ Drain
         \/ \E s \in Steps : SkipDependent(s) \/ ConditionFalse(s) \/ ConditionError(s)
         \/ \E s \in Steps : Submit(s) \/ Reap(s) \/ Worker(s)
         \/ UNCHANGED <<definition, state, submitted, fatal, poolVars, shown>>
BY DEF Next, Engine, Dispatch, Canceller, AllOver, StartsDispatch, ConditionRaises, StopDispatch,
       Defer, EndDispatch, WaitReturns, EndReap, Decide, Finish, AskCancel, SetCancel,
       FinishCancel, vars, engineVars, recordVars

\* What a worker does.
LEMMA WorkerFacts ==
  ASSUME NEW s \in Steps, Worker(s)
  PROVE  /\ UNCHANGED <<definition, pc, engineVars, cancelVars, status>>
         /\ future[s] \in {"queued", "executing", "retrying"}
         /\ \/ /\ \E f \in {"executing", "retrying"} : future' = [future EXCEPT ![s] = f]
               /\ UNCHANGED <<verdict, shown>>
            \/ \E v \in {"done", "failed", "cancelled"} : (v = "cancelled" => cancelled) /\ End(s, v)
BY DEF Worker, BeginAttempt, Succeed, Fail, NoticeCancel

\* No step of any thread makes the record of a step disagree with its state.
LEMMA RecordKept ==
  ASSUME Inv, Record, [Next]_vars
  PROVE  Record'
<1> USE DEF Record
<1>0. TypeOK /\ Views
  BY DEF Inv
<1>1. CASE SeesCancel \/ SeesFatal \/ Check
  <2>1. UNCHANGED <<submitted, poolVars>> /\ (SkipPending \/ UNCHANGED <<state, shown>>)
    BY <1>1 DEF SeesCancel, SeesFatal, Check
  <2>2. \A s \in Steps : state[s] = "pending" => s \notin submitted
    BY <1>0 DEF Views
  <2> QED BY <2>1, <2>2 DEF SkipPending, poolVars
<1>2. CASE Drain
  <2>1. UNCHANGED <<submitted, state, shown, verdict>>
    BY <1>2 DEF Drain, engineVars, recordVars
  <2>2. \A s \in Steps : \/ future'[s] = future[s]
                         \/ future[s] = "queued" /\ future'[s] = "dropped"
    BY <1>2 DEF Drain
  <2> QED BY <1>0, <2>1, <2>2 DEF TypeOK
<1>3. ASSUME NEW s \in Steps, SkipDependent(s) \/ ConditionFalse(s) \/ ConditionError(s)
      PROVE  Record'
  BY <1>0, <1>3, DispatchEnds, ReadyFacts DEF TypeOK, poolVars
<1>4. ASSUME NEW s \in Steps, Submit(s)
      PROVE  Record'
  <2>1. state[s] = "pending" /\ future[s] = "none" /\ s \notin submitted
    BY <1>4, ReadyFacts DEF Submit
  <2> QED BY <1>0, <1>4, <2>1 DEF Submit, Show, TypeOK
<1>5. ASSUME NEW s \in Steps, Reap(s)
      PROVE  Record'
  <2>1. s \in submitted /\ future[s] = "ended"
    BY <1>5, BatchFacts DEF Reap
  <2>2. PICK st : /\ state' = [state EXCEPT ![s] = st]
                  /\ \/ st = verdict[s] /\ shown' = shown
                     \/ shown' = [shown EXCEPT ![s] = st]
    BY <1>5 DEF Reap, Settle
  <2> QED BY <1>0, <1>5, <2>1, <2>2 DEF Reap, TypeOK, poolVars
<1>6. ASSUME NEW s \in Steps, Worker(s)
      PROVE  Record'
  <2>1. s \in submitted
    BY <1>0, <1>6, WorkerFacts DEF Views
  <2> QED BY <1>0, <1>6, <2>1, WorkerFacts DEF End, Show, TypeOK, engineVars
<1>7. CASE UNCHANGED <<definition, state, submitted, fatal, poolVars, shown>>
  BY <1>7 DEF poolVars
<1> QED BY <1>1, <1>2, <1>3, <1>4, <1>5, <1>6, <1>7, EngineCases

\* How the threads move the cancellation and the status of the run.
LEMMA CancelStep ==
  ASSUME Inv, Causes, [Next]_vars
  PROVE  /\ cancelled => cancelled'
         /\ canceller' = "set" \/ status' = "cancelled" => cancelled'
<1>1. CASE Canceller
  BY <1>1
  DEF Canceller, AskCancel, SetCancel, FinishCancel, FinishRun, Causes, recordVars, Inv, TypeOK
<1>2. CASE ~ Canceller
  <2>1. UNCHANGED cancelVars
    BY <1>2 DEF Next, Engine, Dispatch, Worker, AllOver, SeesCancel, SeesFatal, StartsDispatch,
       SkipDependent, ConditionFalse, ConditionError, ConditionRaises, StopDispatch, Defer, Submit,
       EndDispatch, Check, WaitReturns, Reap, EndReap, Drain, Decide, Finish,
       BeginAttempt, Succeed, Fail, NoticeCancel, vars
  <2>2. status' = status \/ status' \in {"done", "failed"}
    BY <1>2 DEF Next, Engine, Dispatch, Worker, AllOver, SeesCancel, SeesFatal, StartsDispatch,
       SkipDependent, ConditionFalse, ConditionError, ConditionRaises, StopDispatch, Defer, Submit,
       EndDispatch, Check, WaitReturns, Reap, EndReap, Drain, Decide, Finish, FinishRun,
       BeginAttempt, Succeed, Fail, NoticeCancel, vars, recordVars
  <2> QED BY <2>1, <2>2 DEF Causes, cancelVars
<1> QED BY <1>1, <1>2

\* Failures and cancellations keep their causes.
LEMMA CausesKept ==
  ASSUME Inv, Causes, [Next]_vars
  PROVE  Causes'
<1>0. TypeOK /\ (canceller' = "set" \/ status' = "cancelled" => cancelled')
      /\ (cancelled => cancelled')
  BY CancelStep DEF Inv
<1> SUFFICES /\ \A t \in Steps : state'[t] = "failed" => OnError(t)' = "continue" \/ fatal'
             /\ ~ cancelled' => \A t \in Steps : verdict'[t] # "cancelled" /\ state'[t] # "cancelled"
  BY <1>0 DEF Causes
<1> USE DEF Causes, OnError
<1>1. CASE SeesCancel \/ SeesFatal \/ Check
  <2>1. /\ UNCHANGED <<definition, fatal, verdict>>
        /\ \A t \in Steps : state'[t] = state[t] \/ state'[t] = "skipped"
    BY <1>1 DEF SeesCancel, SeesFatal, Check, SkipPending, poolVars
  <2> QED BY <1>0, <2>1
<1>2. CASE Drain
  <2>1. UNCHANGED <<definition, fatal, verdict, state>>
    BY <1>2 DEF Drain, engineVars
  <2> QED BY <1>0, <2>1
<1>3. ASSUME NEW s \in Steps, SkipDependent(s) \/ ConditionFalse(s) \/ ConditionError(s)
      PROVE  Causes'
  <2>1. PICK st \in {"done", "failed", "skipped"} :
          /\ state' = [state EXCEPT ![s] = st]
          /\ st = "failed" => OnError(s) = "continue" \/ fatal'
    BY <1>3, DispatchEnds
  <2>2. UNCHANGED <<definition, verdict>> /\ (fatal => fatal')
    BY <1>3, DispatchEnds DEF poolVars
  <2> QED BY <1>0, <2>1, <2>2 DEF TypeOK
<1>4. ASSUME NEW s \in Steps, Submit(s)
      PROVE  Causes'
  BY <1>0, <1>4 DEF Submit, TypeOK
<1>5. ASSUME NEW s \in Steps, Reap(s)
      PROVE  Causes'
  <2>1. OnError(s) \in {"fail", "continue", "ignore"}
    BY <1>0, DefinitionFacts DEF Policies
  <2>2. PICK st \in {"done", verdict[s]} :
          /\ state' = [state EXCEPT ![s] = st]
          /\ st = "failed" => OnError(s) = "continue" \/ fatal'
    BY <1>5, <2>1 DEF Reap, Settle
  <2>3. UNCHANGED <<definition, verdict>> /\ (fatal => fatal')
    BY <1>5 DEF Reap, poolVars
  <2> QED BY <1>0, <2>2, <2>3 DEF TypeOK
<1>6. ASSUME NEW s \in Steps, Worker(s)
      PROVE  Causes'
  <2>1. UNCHANGED <<definition, fatal, state, cancelled>>
    BY <1>6, WorkerFacts DEF engineVars, cancelVars
  <2>2. verdict' = verdict \/ \E v \in {"done", "failed", "cancelled"} :
          (v = "cancelled" => cancelled) /\ verdict' = [verdict EXCEPT ![s] = v]
    BY <1>6, WorkerFacts DEF End
  <2> QED BY <1>0, <2>1, <2>2 DEF TypeOK
<1>7. CASE UNCHANGED <<definition, state, submitted, fatal, poolVars, shown>>
  BY <1>0, <1>7 DEF poolVars
<1> QED BY <1>1, <1>2, <1>3, <1>4, <1>5, <1>6, <1>7, EngineCases

\* Outside its loop the engine neither submits nor settles a step.
LEMMA OutsideLoop ==
  ASSUME [Next]_vars, pc \notin Looping
  PROVE  UNCHANGED <<definition, state, submitted, fatal>> /\ pc' \notin Looping
BY DEF Looping, Next, Engine, Dispatch, Worker, Canceller, AllOver, SeesCancel, SeesFatal,
       StartsDispatch, SkipDependent, ConditionFalse, ConditionError, ConditionRaises,
       StopDispatch, Defer, Submit, EndDispatch, Check, WaitReturns, Reap, EndReap, Drain, Decide,
       Finish, BeginAttempt, Succeed, Fail, NoticeCancel, AskCancel, SetCancel, FinishCancel,
       vars, engineVars

\* The steps by which the engine moves, once it has left the loop.
LEMMA LeavingMoves ==
  ASSUME [Next]_vars, pc \notin Looping
  PROVE  \/ Drain \/ Decide \/ Finish
         \/ pc' = pc /\ (status' = status \/ (FinishCancel /\ status = "running"))
BY DEF Looping, Next, Engine, Dispatch, Worker, Canceller, AllOver, SeesCancel, SeesFatal,
       StartsDispatch, SkipDependent, ConditionFalse, ConditionError, ConditionRaises,
       StopDispatch, Defer, Submit, EndDispatch, Check, WaitReturns, Reap, EndReap,
       BeginAttempt, Succeed, Fail, NoticeCancel, AskCancel, SetCancel, FinishCancel, FinishRun,
       vars, recordVars

\* While the engine loops, only two ways lead out, and no run is done.
LEMMA LoopMoves ==
  ASSUME [Next]_vars, pc \in Looping
  PROVE  \/ SeesCancel \/ SeesFatal \/ Check
         \/ \E s \in Steps : ConditionRaises(s)
         \/ pc' \in Looping /\ (status' = "done" => status = "done")
BY DEF Looping, Next, Engine, Dispatch, Worker, Canceller, AllOver,
       StartsDispatch, SkipDependent, ConditionFalse, ConditionError,
       StopDispatch, Defer, Submit, EndDispatch, WaitReturns, Reap, EndReap, Drain, Decide, Finish,
       BeginAttempt, Succeed, Fail, NoticeCancel, AskCancel, SetCancel, FinishCancel, FinishRun,
       vars, recordVars

\* Nothing is pending after SkipPending.
LEMMA SkippedAll == SkipPending => NonePending'
BY DEF SkipPending, NonePending

\* What holds on the way out is established by each exit and kept after it.
LEMMA LeavingKept ==
  ASSUME Inv, Causes, Leaving, [Next]_vars
  PROVE  Leaving'
<1>0. TypeOK
  BY DEF Inv
<1>1. CASE pc \in Looping
  <2>0. status # "done" /\ pc \notin {"drain", "decide", "finish", "unwind", "crash", "over"}
    BY <1>1 DEF Leaving, Looping
  <2>1. CASE SeesCancel
    BY <2>0, <2>1, SkippedAll DEF SeesCancel, Leaving, cancelVars
  <2>2. CASE SeesFatal
    <3>1. NonePending' /\ pc' = "drain"
      BY <2>2, SkippedAll DEF SeesFatal
    <3>2. status' = "failed"
      BY <1>0, <2>0, <2>2 DEF SeesFatal, FinishRun, TypeOK, Causes
    <3> QED BY <3>1, <3>2 DEF Leaving
  <2>3. CASE Check
    <3>1. UNCHANGED <<submitted, fatal, status>>
      BY <2>3 DEF Check
    <3>2. CASE pc' = "drain"
      <4>1. NonePending' /\ submitted = {} /\ ~ fatal
        BY <2>3, <3>2, SkippedAll DEF Check
      <4> QED BY <2>0, <3>1, <3>2, <4>1 DEF Leaving
    <3>3. CASE pc' \in {"top", "wait"}
      BY <2>0, <3>1, <3>3 DEF Leaving
    <3> QED BY <2>3, <3>2, <3>3 DEF Check
  <2>4. ASSUME NEW s \in Steps, ConditionRaises(s)
        PROVE  Leaving'
    <3>1. state[s] = "pending"
      BY <2>4, ReadyFacts DEF ConditionRaises
    <3>2. Raised'
      BY <2>4, <3>1 DEF ConditionRaises, Raised
    <3> QED BY <2>0, <2>4, <3>2 DEF ConditionRaises, Leaving, recordVars
  <2>5. CASE pc' \in Looping /\ (status' = "done" => status = "done")
    BY <2>0, <2>5 DEF Leaving, Looping
  <2> QED BY <1>1, <2>1, <2>2, <2>3, <2>4, <2>5, LoopMoves
<1>2. CASE pc \notin Looping
  <2>0. /\ UNCHANGED <<definition, state, submitted, fatal>>
        /\ cancelled => cancelled'
    BY <1>2, OutsideLoop, CancelStep
  <2>1. /\ NonePending => NonePending'
        /\ Raised => Raised'
        /\ Quiet => Quiet'
    BY <2>0 DEF NonePending, Raised, Quiet
  <2>2. CASE Drain
    BY <2>0, <2>1, <2>2 DEF Drain, Leaving, recordVars, cancelVars
  <2>3. CASE Decide
    <3>1. UNCHANGED <<cancelled, status>> /\ pc = "decide" /\ NonePending
      BY <2>3 DEF Decide, Leaving, cancelVars, recordVars
    <3>2. CASE ~ cancelled /\ status # "failed"
      <4>1. Quiet
        BY <3>1, <3>2 DEF Leaving, Quiet, Causes
      <4> QED BY <2>1, <2>3, <3>1, <3>2, <4>1 DEF Decide, Leaving
    <3>3. CASE cancelled \/ status = "failed"
      BY <2>1, <2>3, <3>1, <3>3 DEF Decide, Leaving
    <3> QED BY <3>2, <3>3
  <2>4. CASE Finish
    BY <2>1, <2>4 DEF Finish, FinishRun, Leaving
  <2>5. CASE pc' = pc /\ (status' = status \/ (FinishCancel /\ status = "running"))
    BY <2>0, <2>1, <2>5 DEF FinishCancel, FinishRun, Leaving, Causes
  <2> QED BY <1>2, <2>2, <2>3, <2>4, <2>5, LeavingMoves
<1> QED BY <1>1, <1>2

\* The record, the causes and the exits hold of every reachable state.
THEOREM RunInvariance == Spec => []RunInv
<1>1. RunInv /\ [Next]_vars => RunInv'
  BY NextKeepsInv, RecordKept, CausesKept, LeavingKept DEF RunInv
<1> QED BY InitRunInv, <1>1, PTL DEF Spec

\* A run reported as done has every step settled, none of them cancelled, none
\* in flight and none failed except where the definition said to continue
\* (engine.py, run; runner.py, finish).
THEOREM DoneIsDone == Spec => []DoneMeansDone
<1>1. RunInv => DoneMeansDone
  <2> SUFFICES ASSUME RunInv, status = "done", NEW s \in Steps
               PROVE  /\ shown[s] \in {"done", "skipped", "failed"}
                      /\ shown[s] = "failed" => OnError(s) = "continue"
                      /\ future[s] \in {"none", "ended"}
    BY DEF DoneMeansDone
  <2>1. submitted = {} /\ ~ fatal /\ state[s] # "cancelled" /\ state[s] # "pending"
    BY DEF RunInv, Leaving, Quiet, NonePending
  <2>2. /\ state[s] \in {"done", "skipped", "failed"}
        /\ future[s] \in {"none", "ended"}
    BY <2>1 DEF RunInv, Inv, TypeOK, Views, Final
  <2>3. shown[s] = state[s]
    BY <2>1 DEF RunInv, Record
  <2> QED BY <2>1, <2>2, <2>3 DEF RunInv, Causes
<1> QED BY RunInvariance, <1>1, PTL

\* When the engine is through, clients see every step's final status, except
\* for steps it gave up on and those left by a condition that raised
\* (engine.py, run).
THEOREM StepsAccounted == Spec => []AllAccounted
<1>1. RunInv => AllAccounted
  <2> SUFFICES ASSUME RunInv, pc = "over", NEW s \in Steps
               PROVE  \/ shown[s] \in Final
                      \/ shown[s] = "running" /\ future[s] # "ended"
                      \/ shown[s] = "pending"
                         /\ \E t \in Steps : definition.condition[t] /\ shown[t] = "pending"
    BY DEF AllAccounted
  <2>1. /\ TypeOK /\ Views /\ Record
        /\ NonePending \/ Raised
    BY DEF RunInv, Inv, Leaving
  <2>2. CASE s \in submitted /\ future[s] = "ended"
    BY <2>1, <2>2 DEF TypeOK, Views, Record, Final
  <2>3. CASE ~ (s \in submitted /\ future[s] = "ended")
    <3>1. shown[s] = state[s]
      BY <2>1, <2>3 DEF Record
    <3>2. CASE state[s] = "pending"
      <4>1. PICK t \in Steps : definition.condition[t] /\ state[t] = "pending"
        BY <2>1, <3>2 DEF NonePending, Raised
      <4>2. shown[t] = "pending"
        BY <2>1, <4>1 DEF Views, Record
      <4> QED BY <3>1, <3>2, <4>1, <4>2
    <3>3. CASE state[s] = "running"
      BY <2>1, <2>3, <3>1, <3>3 DEF Views
    <3> QED BY <2>1, <3>1, <3>2, <3>3 DEF TypeOK
  <2> QED BY <2>2, <2>3
<1> QED BY RunInvariance, <1>1, PTL
=============================================================================
