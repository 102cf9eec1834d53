------------------------------ MODULE Workflow ------------------------------
(***************************************************************************)
(* One run of a workflow: the engine thread that schedules the steps of a  *)
(* dependency graph (workflow/engine.py), the workers of its thread pool   *)
(* that execute them with retries, a client that cancels the run, and the  *)
(* record of the run that clients look at (workflow/runner.py).            *)
(*                                                                         *)
(* The order of the ready deque and of the pool's queue is abstracted to a *)
(* set.  What a step does to its session is the subject of the session     *)
(* modules; here an attempt succeeds, fails or notices the cancellation.   *)
(***************************************************************************)
EXTENDS Integers, FiniteSets

CONSTANTS
  Steps,
  Texts,           \* what the session field of a step may say: a name, or {{...}}
  Sessions,        \* the sessions that such a text names when it is rendered
  Definitions,     \* parsed workflow definitions considered
  DrainMayTimeOut  \* the engine may give up on steps that take more than 30 s

NoText == "no session field"
Policies == {"fail", "continue", "ignore"}

\* What the definition of a run says of its steps, and of the workers of its pool;
\* and the session that each text of a session field stands for in this run.  A
\* text that cannot be rendered yet is an attempt that fails; what it renders to
\* does not change any more, because a result is recorded once.
DefinitionType ==
  [dependsOn : [Steps -> SUBSET Steps], onError : [Steps -> Policies], retry : [Steps -> Nat],
   session : [Steps -> Texts \cup {NoText}], names : [Texts -> Sessions],
   condition : [Steps -> BOOLEAN], maxParallel : Nat \ {0}]

ASSUME WorkflowAssumption ==
  /\ IsFiniteSet(Steps)
  /\ NoText \notin Texts
  /\ DrainMayTimeOut \in BOOLEAN
  /\ Definitions \subseteq DefinitionType

VARIABLES
  definition,  \* the definition of this run
  pc,          \* where the engine is
  state,       \* the engine's own view of each step
  inDegree,    \* dependencies of each step that have not ended
  ready,       \* steps to dispatch
  submitted,   \* steps whose futures the engine still has to look at
  busy,        \* the session fields of submitted steps (running_sessions)
  batch,       \* ended futures that the last wait returned
  fatal,       \* a step with on_error=fail has failed
  future,      \* what the pool makes of each step
  attempts,    \* attempts each step has begun
  verdict,     \* how its future ended
  cancelled,   \* cancel_event
  canceller,   \* where the client that cancels is
  status,      \* status of the run as clients see it
  shown        \* status of each step as clients see it

engineVars == <<state, inDegree, ready, submitted, busy, batch, fatal>>
poolVars == <<future, attempts, verdict>>
cancelVars == <<cancelled, canceller>>
recordVars == <<status, shown>>
vars == <<definition, pc, engineVars, poolVars, cancelVars, recordVars>>

Final == {"done", "failed", "skipped", "cancelled"}
DependsOn(s) == definition.dependsOn[s]
OnError(s) == definition.onError[s]
\* What running_sessions compares: the field as it is written ...
Session(s) == definition.session[s]
\* ... and the session that the step works on: the field as it is rendered.
Target(s) == definition.names[Session(s)]

Init ==
  /\ definition \in Definitions
  /\ pc = "top"
  /\ state = [s \in Steps |-> "pending"]
  /\ inDegree = [s \in Steps |-> Cardinality(DependsOn(s))]
  /\ ready = {s \in Steps : DependsOn(s) = {}}
  /\ submitted = {}
  /\ busy = {}
  /\ batch = {}
  /\ fatal = FALSE
  /\ future = [s \in Steps |-> "none"]
  /\ attempts = [s \in Steps |-> 0]
  /\ verdict = [s \in Steps |-> "none"]
  /\ cancelled = FALSE
  /\ canceller = "idle"
  /\ status = "running"
  /\ shown = [s \in Steps |-> "pending"]
-----------------------------------------------------------------------------
\* Mutant: the last writer decides.
FinishRunAgain(st) == status' = st

\* finish writes the status of the run once.
FinishRun(st) == status' = IF status = "running" THEN st ELSE status

Show(s, st) == shown' = [shown EXCEPT ![s] = st]

\* s ends as st: the steps that depend on it wait for one step less, and are
\* ready when that was the last one.
Settle(s, st) ==
  LET dependents == {t \in Steps : s \in DependsOn(t)} IN
  /\ state' = [state EXCEPT ![s] = st]
  /\ inDegree' = [t \in Steps |-> IF t \in dependents THEN inDegree[t] - 1 ELSE inDegree[t]]
  /\ ready' = (ready \ {s}) \cup {t \in dependents : inDegree[t] = 1}

Skip(s) ==
  /\ Settle(s, "skipped")
  /\ Show(s, "skipped")

\* Every step that was never submitted is skipped.
SkipPending ==
  LET left == {s \in Steps : state[s] = "pending"} IN
  /\ state' = [s \in Steps |-> IF s \in left THEN "skipped" ELSE state[s]]
  /\ shown' = [s \in Steps |-> IF s \in left THEN "skipped" ELSE shown[s]]
-----------------------------------------------------------------------------
(* The engine: the top of its loop.                                        *)

SeesCancel ==
  /\ pc = "top"
  /\ cancelled
  /\ SkipPending
  /\ pc' = "drain"
  /\ UNCHANGED <<definition, inDegree, ready, submitted, busy, batch, fatal, poolVars,
                 cancelVars, status>>
\* Mutant: a fatal failure leaves the other steps as they are.
SeesFatalOnly ==
  /\ pc = "top"
  /\ ~ cancelled
  /\ fatal
  /\ FinishRun("failed")
  /\ pc' = "drain"
  /\ UNCHANGED <<definition, engineVars, poolVars, cancelVars, shown>>

SeesFatal ==
  /\ pc = "top"
  /\ ~ cancelled
  /\ fatal
  /\ SkipPending
  /\ FinishRun("failed")
  /\ pc' = "drain"
  /\ UNCHANGED <<definition, inDegree, ready, submitted, busy, batch, fatal, poolVars, cancelVars>>

StartsDispatch ==
  /\ pc = "top"
  /\ ~ cancelled
  /\ ~ fatal
  /\ pc' = "dispatch"
  /\ UNCHANGED <<definition, engineVars, poolVars, cancelVars, recordVars>>

(* Dispatching a ready step.                                               *)
\* Mutant: a failed dependency keeps nothing from running.
BadOnlyCancelled(s) == {d \in DependsOn(s) : state[d] = "cancelled"}

\* The dependencies that keep s from running.
Bad(s) == {d \in DependsOn(s) : state[d] \in {"failed", "cancelled"}}

SkipDependent(s) ==
  /\ pc = "dispatch"
  /\ s \in ready
  /\ Bad(s) # {}
  /\ Skip(s)
  /\ UNCHANGED <<definition, pc, submitted, busy, batch, fatal, poolVars, cancelVars, status>>

ConditionFalse(s) ==
  /\ pc = "dispatch"
  /\ s \in ready
  /\ Bad(s) = {}
  /\ definition.condition[s]
  /\ Skip(s)
  /\ UNCHANGED <<definition, pc, submitted, busy, batch, fatal, poolVars, cancelVars, status>>

\* The condition cannot be evaluated: the step fails, or on_error hides it.
ConditionError(s) ==
  LET st == IF OnError(s) = "ignore" THEN "done" ELSE "failed" IN
  /\ pc = "dispatch"
  /\ s \in ready
  /\ Bad(s) = {}
  /\ definition.condition[s]
  /\ Settle(s, st)
  /\ Show(s, st)
  /\ fatal' = (fatal \/ OnError(s) = "fail")
  /\ UNCHANGED <<definition, pc, submitted, busy, batch, poolVars, cancelVars, status>>

\* An error of another kind (a division by zero, a comparison of a number
\* with a string) leaves the scheduler as an exception.
ConditionRaises(s) ==
  /\ pc = "dispatch"
  /\ s \in ready
  /\ Bad(s) = {}
  /\ definition.condition[s]
  /\ ready' = ready \ {s}
  /\ pc' = "unwind"
  /\ UNCHANGED <<definition, state, inDegree, submitted, busy, batch, fatal, poolVars,
                 cancelVars, recordVars>>

\* The cancellation stops the dispatch; the step that was taken stays pending.
StopDispatch(s) ==
  /\ pc = "dispatch"
  /\ s \in ready
  /\ Bad(s) = {}
  /\ cancelled
  /\ ready' = ready \ {s}
  /\ pc' = "check"
  /\ UNCHANGED <<definition, state, inDegree, submitted, busy, batch, fatal, poolVars,
                 cancelVars, recordVars>>

\* A step whose session field a submitted step has too ends the dispatch.
Defer(s) ==
  /\ pc = "dispatch"
  /\ s \in ready
  /\ Bad(s) = {}
  /\ ~ cancelled
  /\ Session(s) \in busy
  /\ pc' = "check"
  /\ UNCHANGED <<definition, engineVars, poolVars, cancelVars, recordVars>>
\* Mutant: the session field of a submitted step is not marked.
SubmitUnmarked(s) ==
  /\ pc = "dispatch"
  /\ s \in ready
  /\ Bad(s) = {}
  /\ ~ cancelled
  /\ ready' = ready \ {s}
  /\ state' = [state EXCEPT ![s] = "running"]
  /\ Show(s, "running")
  /\ future' = [future EXCEPT ![s] = "queued"]
  /\ submitted' = submitted \cup {s}
  /\ UNCHANGED <<definition, pc, inDegree, busy, batch, fatal, attempts, verdict, cancelVars,
                 status>>

Submit(s) ==
  /\ pc = "dispatch"
  /\ s \in ready
  /\ Bad(s) = {}
  /\ ~ cancelled
  /\ Session(s) \notin busy
  /\ ready' = ready \ {s}
  /\ state' = [state EXCEPT ![s] = "running"]
  /\ Show(s, "running")
  /\ future' = [future EXCEPT ![s] = "queued"]
  /\ submitted' = submitted \cup {s}
  /\ busy' = busy \cup ({Session(s)} \ {NoText})
  /\ UNCHANGED <<definition, pc, inDegree, batch, fatal, attempts, verdict, cancelVars, status>>

EndDispatch ==
  /\ pc = "dispatch"
  /\ ready = {}
  /\ pc' = "check"
  /\ UNCHANGED <<definition, engineVars, poolVars, cancelVars, recordVars>>

Dispatch(s) ==
  \/ SkipDependent(s) \/ ConditionFalse(s) \/ ConditionError(s) \/ ConditionRaises(s)
  \/ StopDispatch(s) \/ Defer(s) \/ Submit(s)

(* Waiting for futures.                                                    *)
\* Mutant: the loop does not look whether anything is left to wait for.
CheckNeverLeaves ==
  /\ pc = "check"
  /\ pc' = IF fatal THEN "top" ELSE "wait"
  /\ UNCHANGED <<definition, engineVars, poolVars, cancelVars, recordVars>>

\* A fatal failure goes back to the top; without futures the loop is over.
Check ==
  /\ pc = "check"
  /\ IF fatal
     THEN pc' = "top" /\ UNCHANGED <<state, shown>>
     ELSE IF submitted # {}
          THEN pc' = "wait" /\ UNCHANGED <<state, shown>>
          ELSE pc' = "drain" /\ SkipPending
  /\ UNCHANGED <<definition, inDegree, ready, submitted, busy, batch, fatal, poolVars, cancelVars,
                 status>>

WaitReturns ==
  /\ pc = "wait"
  /\ batch' = {s \in submitted : future[s] = "ended"}
  /\ batch' # {} \/ submitted = {}
  /\ pc' = "reap"
  /\ UNCHANGED <<definition, state, inDegree, ready, submitted, busy, fatal, poolVars, cancelVars,
                 recordVars>>
\* Mutant: a failure under on_error=fail does not end the run.
ReapForgives(s) ==
  LET ignored == verdict[s] = "failed" /\ OnError(s) = "ignore" IN
  /\ pc = "reap"
  /\ s \in batch
  /\ batch' = batch \ {s}
  /\ submitted' = submitted \ {s}
  /\ busy' = busy \ {Session(s)}
  /\ Settle(s, IF ignored THEN "done" ELSE verdict[s])
  /\ shown' = IF ignored THEN [shown EXCEPT ![s] = "done"] ELSE shown
  /\ UNCHANGED <<definition, pc, fatal, poolVars, cancelVars, status>>

Reap(s) ==
  LET ignored == verdict[s] = "failed" /\ OnError(s) = "ignore" IN
  /\ pc = "reap"
  /\ s \in batch
  /\ batch' = batch \ {s}
  /\ submitted' = submitted \ {s}
  /\ busy' = busy \ {Session(s)}
  /\ Settle(s, IF ignored THEN "done" ELSE verdict[s])
  /\ shown' = IF ignored THEN [shown EXCEPT ![s] = "done"] ELSE shown
  /\ fatal' = (fatal \/ (verdict[s] = "failed" /\ OnError(s) = "fail"))
  /\ UNCHANGED <<definition, pc, poolVars, cancelVars, status>>

EndReap ==
  /\ pc = "reap"
  /\ batch = {}
  /\ pc' = "top"
  /\ UNCHANGED <<definition, engineVars, poolVars, cancelVars, recordVars>>

(* Leaving the loop.                                                       *)

\* The engine waits for the submitted steps, at most 30 s; then it cancels
\* the futures no worker has taken and leaves the others alone.
Drain ==
  /\ pc \in {"drain", "unwind"}
  /\ \/ /\ \A s \in submitted : future[s] = "ended"
        /\ UNCHANGED future
     \/ /\ DrainMayTimeOut
        /\ \E s \in submitted : future[s] # "ended"
        /\ future' = [s \in Steps |-> IF future[s] = "queued" THEN "dropped" ELSE future[s]]
  /\ pc' = IF pc = "drain" THEN "decide" ELSE "crash"
  /\ UNCHANGED <<definition, engineVars, attempts, verdict, cancelVars, recordVars>>

Decide ==
  /\ pc = "decide"
  /\ pc' = IF ~ cancelled /\ status # "failed" THEN "finish" ELSE "over"
  /\ UNCHANGED <<definition, engineVars, poolVars, cancelVars, recordVars>>

Finish ==
  /\ pc \in {"finish", "crash"}
  /\ FinishRun(IF pc = "finish" THEN "done" ELSE "failed")
  /\ pc' = "over"
  /\ UNCHANGED <<definition, engineVars, poolVars, cancelVars, shown>>
-----------------------------------------------------------------------------
(* The workers of the pool (_exec_step) and the client that cancels.       *)

\* A worker is occupied while it executes a step or sleeps before a retry.
Occupied == {s \in Steps : future[s] \in {"executing", "retrying"}}

\* s ends with a verdict, which the worker also shows.
End(s, v) ==
  /\ future' = [future EXCEPT ![s] = "ended"]
  /\ verdict' = [verdict EXCEPT ![s] = v]
  /\ Show(s, v)

BeginAttempt(s) ==
  /\ future[s] = "retrying" \/ (future[s] = "queued" /\ Cardinality(Occupied) < definition.maxParallel)
  /\ IF cancelled
     THEN End(s, "cancelled") /\ UNCHANGED attempts
     ELSE /\ future' = [future EXCEPT ![s] = "executing"]
          /\ attempts' = [attempts EXCEPT ![s] = @ + 1]
          /\ UNCHANGED <<verdict, shown>>
  /\ UNCHANGED <<definition, pc, engineVars, cancelVars, status>>

Succeed(s) ==
  /\ future[s] = "executing"
  /\ End(s, "done")
  /\ UNCHANGED <<definition, pc, engineVars, attempts, cancelVars, status>>

\* An attempt fails: the next one follows, or it was the last.
Fail(s) ==
  /\ future[s] = "executing"
  /\ IF attempts[s] <= definition.retry[s]
     THEN future' = [future EXCEPT ![s] = "retrying"] /\ UNCHANGED <<verdict, shown>>
     ELSE End(s, "failed")
  /\ UNCHANGED <<definition, pc, engineVars, attempts, cancelVars, status>>

NoticeCancel(s) ==
  /\ future[s] = "executing"
  /\ cancelled
  /\ End(s, "cancelled")
  /\ UNCHANGED <<definition, pc, engineVars, attempts, cancelVars, status>>

\* cancel_run looks at the status, sets the event and finishes the run.
AskCancel ==
  /\ canceller = "idle"
  /\ status = "running"
  /\ canceller' = "asked"
  /\ UNCHANGED <<definition, pc, engineVars, poolVars, cancelled, recordVars>>

SetCancel ==
  /\ canceller = "asked"
  /\ cancelled' = TRUE
  /\ canceller' = "set"
  /\ UNCHANGED <<definition, pc, engineVars, poolVars, recordVars>>

FinishCancel ==
  /\ canceller = "set"
  /\ FinishRun("cancelled")
  /\ canceller' = "gone"
  /\ UNCHANGED <<definition, pc, engineVars, poolVars, cancelled, shown>>
-----------------------------------------------------------------------------
Engine ==
  \/ SeesCancel \/ SeesFatal \/ StartsDispatch
  \/ \E s \in Steps : Dispatch(s) \/ Reap(s)
  \/ EndDispatch \/ Check \/ WaitReturns \/ EndReap \/ Drain \/ Decide \/ Finish

Worker(s) == BeginAttempt(s) \/ Succeed(s) \/ Fail(s) \/ NoticeCancel(s)

Canceller == AskCancel \/ SetCancel \/ FinishCancel

\* The engine and the workers are at rest.
AllOver ==
  /\ pc = "over"
  /\ \A s \in Steps : future[s] \in {"none", "ended", "dropped"}
  /\ canceller \in {"idle", "gone"}
  /\ UNCHANGED vars

Next ==
  \/ Engine
  \/ \E s \in Steps : Worker(s)
  \/ Canceller
  \/ AllOver

Spec == Init /\ [][Next]_vars

\* The engine and the workers are threads; every attempt ends, because every
\* type of step has a time limit.  Nothing forces a client to cancel.
Fairness ==
  /\ WF_vars(Engine)
  /\ \A s \in Steps : WF_vars(Worker(s))
  /\ WF_vars(SetCancel) /\ WF_vars(FinishCancel)

FairSpec == Spec /\ Fairness
-----------------------------------------------------------------------------
EnginePcs == {"top", "dispatch", "check", "wait", "reap", "drain", "unwind", "decide", "finish",
              "crash", "over"}
Looping == {"top", "dispatch", "check", "wait", "reap"}

TypeOK ==
  /\ definition \in DefinitionType
  /\ pc \in EnginePcs
  /\ state \in [Steps -> {"pending", "running"} \cup Final]
  /\ inDegree \in [Steps -> Nat]
  /\ ready \subseteq Steps
  /\ submitted \subseteq Steps
  /\ busy \subseteq Texts
  /\ batch \subseteq submitted
  /\ fatal \in BOOLEAN
  /\ future \in [Steps -> {"none", "queued", "executing", "retrying", "ended", "dropped"}]
  /\ attempts \in [Steps -> Nat]
  /\ verdict \in [Steps -> {"none", "done", "failed", "cancelled"}]
  /\ cancelled \in BOOLEAN
  /\ canceller \in {"idle", "asked", "set", "gone"}
  /\ status \in {"running", "done", "failed", "cancelled"}
  /\ shown \in [Steps -> {"pending", "running"} \cup Final]

\* While the engine loops, a step counts exactly the dependencies that have
\* not ended, and it is ready as soon as it counts none: no step is forgotten
\* and none starts early (engine.py, in_degree and _notify_dependents).
DependencyCounts ==
  pc \in Looping =>
    /\ \A s \in Steps :
         inDegree[s] = Cardinality({d \in DependsOn(s) : state[d] \notin Final})
    /\ \A s \in Steps : s \in ready => state[s] = "pending" /\ inDegree[s] = 0
    /\ ~ cancelled => \A s \in Steps : state[s] = "pending" /\ inDegree[s] = 0 => s \in ready

\* A step that was given to the pool has only dependencies that ended, that no
\* worker is busy with any more, and of which none failed or was cancelled
\* (engine.py, the dispatch of ready steps).  A skipped dependency lets it run,
\* whatever it was skipped for.
DependenciesFirst ==
  \A s \in Steps : future[s] # "none" =>
    \A d \in DependsOn(s) :
      /\ state[d] \in {"done", "skipped"}
      /\ future[d] \in {"none", "ended"}

\* A failure is passed on along the whole chain of dependents (docs/WORKFLOW.md,
\* "Failure propagation").  It does not hold: what depends on a step that was
\* skipped for a failure runs.
FailureStopsTheChain ==
  \A s, t, d \in Steps :
    t \in DependsOn(s) /\ d \in DependsOn(t) /\ state[d] = "failed" => future[s] = "none"

InFlight(s) == future[s] \in {"queued", "executing", "retrying"}

\* Steps in flight together may work on one session only where the definition
\* writes its name in two ways, so that the engine cannot tell: otherwise they
\* would overwrite each other's trigger and input (engine.py, running_sessions).
OneStepPerSession ==
  \A s, t \in Steps :
    /\ s # t
    /\ InFlight(s) /\ InFlight(t)
    /\ NoText \notin {Session(s), Session(t)}
    /\ Target(s) = Target(t)
    => Session(s) # Session(t)

\* At any time at most one step runs in each session (the comment on
\* running_sessions in engine.py).  It does not hold: the field is compared
\* before it is rendered, and a template is not the name it stands for.
SessionsNeverShared ==
  \A s, t \in Steps :
    /\ s # t
    /\ InFlight(s) /\ InFlight(t)
    /\ NoText \notin {Session(s), Session(t)}
    => Target(s) # Target(t)

\* A run reported as done has no step left in flight or unaccounted for, and
\* none that failed under on_error=fail (runner.py, finish; engine.py, run).
DoneMeansDone ==
  status = "done" =>
    \A s \in Steps :
      /\ shown[s] \in {"done", "skipped", "failed"}
      /\ shown[s] = "failed" => OnError(s) = "continue"
      /\ future[s] \in {"none", "ended"}

\* When the engine is through, every step has a final status for the clients to
\* see (engine.py, run): only steps it gave up on after 30 s have none, and steps
\* left behind by a condition that raised, whose own step is then left too.
AllAccounted ==
  pc = "over" =>
    \A s \in Steps :
      \/ shown[s] \in Final
      \/ shown[s] = "running" /\ future[s] # "ended"
      \/ shown[s] = "pending" /\ \E t \in Steps : definition.condition[t] /\ shown[t] = "pending"

\* A step that ended stays as it ended, and so does the run, although the
\* engine, the workers and the client all write the record (runner.py).
SettledStays ==
  [][/\ \A s \in Steps : state[s] \in Final => state'[s] = state[s]
     /\ status # "running" => status' = status]_vars

\* Every run ends (engine.py, run): the deferred steps of a busy session, the
\* retries and the drain do not keep it from a final status.
RunEnds == <>(status # "running")
=============================================================================
