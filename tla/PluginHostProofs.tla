-------------------------- MODULE PluginHostProofs ---------------------------
(***************************************************************************)
(* Proofs about PluginHost, for any instances of any plugins, any number   *)
(* of request threads and of commands that wait.                           *)
(***************************************************************************)
EXTENDS PluginHost, TLAPS

\* A thread that is in the middle of an attach or a detach has an instance.
WorksOnOne ==
  \A t \in Threads :
    pc[t] \in {"attach", "register", "attached", "unregister", "detached"}
      => inst[t] \in Instances

Types == TypeOK /\ WorksOnOne

\* A callback keeps the types of what it writes, whatever it asks for.
LEMMA CallbackType ==
  ASSUME TypeOK, NEW p \in Instances, Callback(p)
  PROVE  /\ pending' \subseteq Instances
         /\ {unloadPending', waitActive', requested', heard'} \subseteq BOOLEAN
BY DEF TypeOK, Callback, SelfUnload, RequestReturn, unloadVars, returnVars

\* The steps of a request thread that attaches, detaches or sends a command.
LEMMA HandlerType ==
  ASSUME Types, NEW h \in Handlers, HandlerStep(h)
  PROVE  Types'
<1> USE PluginAssumption DEF Types, TypeOK, WorksOnOne, Threads, ThreadPcs, WaiterPcs,
        listVars, unloadVars, returnVars, threadVars, At, Goto, Works, Has
<1>1. CASE Instantiate(h)
  BY <1>1 DEF Instantiate
<1>2. CASE Attach(h)
  BY <1>2 DEF Attach
<1>3. CASE Register(h)
  BY <1>3 DEF Register
<1>4. CASE OnAttach(h)
  BY <1>4, CallbackType DEF OnAttach
<1>5. CASE Detach(h)
  BY <1>5 DEF Detach, Named, Names, Remove
<1>6. CASE HandleCommand(h)
  BY <1>6 DEF HandleCommand
<1> QED BY <1>1, <1>2, <1>3, <1>4, <1>5, <1>6 DEF HandlerStep

\* The steps of any thread that walks a chain, flushes or detaches.
LEMMA ThreadType ==
  ASSUME Types, NEW t \in Threads, ThreadStep(t)
  PROVE  Types'
<1> USE PluginAssumption DEF Types, TypeOK, WorksOnOne, Threads, ThreadPcs, WaiterPcs,
        listVars, unloadVars, returnVars, threadVars, At, Goto, Works, Has
<1>1. CASE Dispatch(t)
  BY <1>1 DEF Dispatch
<1>2. CASE CallHook(t)
  BY <1>2, CallbackType DEF CallHook
<1>3. CASE ChainOver(t)
  BY <1>3 DEF ChainOver
<1>4. CASE Flush(t)
  BY <1>4 DEF Flush
<1>5. CASE ClearPending(t)
  BY <1>5 DEF ClearPending
<1>6. CASE TakePending(t)
  BY <1>6 DEF TakePending
<1>7. CASE Unload(t)
  BY <1>7 DEF Unload, Named, Remove
<1>8. CASE FlushOver(t)
  BY <1>8 DEF FlushOver
<1>9. CASE Unregister(t)
  BY <1>9 DEF Unregister, WithoutHooksOf
<1>10. CASE OnDetach(t)
  BY <1>10, CallbackType DEF OnDetach, Detached
<1> QED BY <1>1, <1>2, <1>3, <1>4, <1>5, <1>6, <1>7, <1>8, <1>9, <1>10 DEF ThreadStep

\* The steps of a command that waits.
LEMMA WaiterType ==
  ASSUME Types, NEW w \in Waiters, WaiterStep(w)
  PROVE  Types'
<1> USE PluginAssumption DEF Types, TypeOK, WorksOnOne, Threads, ThreadPcs, WaiterPcs,
        listVars, unloadVars, returnVars, threadVars, At, Goto, Works, Has
<1>1. CASE TakeTrigLock(w)
  BY <1>1 DEF TakeTrigLock, aside
<1>2. CASE EnterWait(w)
  BY <1>2 DEF EnterWait, aside
<1>3. CASE ConsumeReturnRequest(w)
  BY <1>3 DEF ConsumeReturnRequest, aside
<1>4. CASE OtherReason(w)
  BY <1>4 DEF OtherReason, aside
<1>5. CASE ExitWait(w)
  BY <1>5 DEF ExitWait, aside
<1>6. CASE FreeTrigLock(w)
  BY <1>6 DEF FreeTrigLock, aside
<1> QED BY <1>1, <1>2, <1>3, <1>4, <1>5, <1>6 DEF WaiterStep

\* The polls of the monitor and the end of the session.
LEMMA EndType ==
  ASSUME Types, PollTick \/ OnPoll \/ PollsOver \/ Stop \/ DetachAll \/ DetachNext
  PROVE  Types'
<1> USE PluginAssumption DEF Types, TypeOK, WorksOnOne, Threads, ThreadPcs, WaiterPcs,
        listVars, unloadVars, returnVars, threadVars, At, Goto, Works, Has
<1>1. CASE PollTick
  BY <1>1 DEF PollTick
<1>2. CASE OnPoll
  BY <1>2, CallbackType DEF OnPoll
<1>3. CASE PollsOver
  BY <1>3 DEF PollsOver
<1>4. CASE Stop
  BY <1>4 DEF Stop
<1>5. CASE DetachAll
  BY <1>5 DEF DetachAll
<1>6. CASE DetachNext
  BY <1>6 DEF DetachNext
<1> QED BY <1>1, <1>2, <1>3, <1>4, <1>5, <1>6

\* The state always has its type, and a thread that attaches or detaches has
\* an instance in hand.
THEOREM TypeCorrect == Spec => []Types
<1>1. Init => Types
  <2> SUFFICES ASSUME Init PROVE Types
    OBVIOUS
  <2>1. plugins \subseteq Instances
    BY DEF Init
  <2>2. TypeOK
    BY <2>1 DEF Init, TypeOK, Threads, ThreadPcs, WaiterPcs
  <2>3. WorksOnOne
    BY DEF Init, WorksOnOne
  <2> QED BY <2>2, <2>3 DEF Types
<1>2. Types /\ [Next]_vars => Types'
  <2> SUFFICES ASSUME Types, [Next]_vars PROVE Types'
    OBVIOUS
  <2>1. CASE UNCHANGED vars
    BY <2>1 DEF vars, listVars, unloadVars, returnVars, threadVars, Types, TypeOK, WorksOnOne
  <2>2. CASE Next
    BY <2>2, HandlerType, ThreadType, WaiterType, EndType DEF Next
  <2> QED BY <2>1, <2>2
<1> QED BY <1>1, <1>2, PTL DEF Spec
-----------------------------------------------------------------------------
(* Requests to be unloaded.                                                *)

\* No unload is forgotten: the steps of a request thread.
LEMMA UnloadNotForgottenHandler ==
  ASSUME Types, UnloadNotForgotten, NEW h \in Handlers, HandlerStep(h)
  PROVE  UnloadNotForgotten'
<1> USE DEF Types, TypeOK, listVars, unloadVars, returnVars, threadVars, At, Goto, Works, Has,
        UnloadNotForgotten, Threads
<1>1. CASE Instantiate(h)
  BY <1>1 DEF Instantiate
<1>2. CASE Attach(h)
  BY <1>2 DEF Attach, Named
<1>3. CASE Register(h)
  BY <1>3 DEF Register
<1>4. CASE OnAttach(h)
  BY <1>4 DEF OnAttach, Callback, SelfUnload, RequestReturn
<1>5. CASE Detach(h)
  BY <1>5 DEF Detach, Named, Names, Remove
<1>6. CASE HandleCommand(h)
  BY <1>6 DEF HandleCommand
<1> QED BY <1>1, <1>2, <1>3, <1>4, <1>5, <1>6 DEF HandlerStep

\* No unload is forgotten: the steps of a thread in a chain, a flush or a detach.
LEMMA UnloadNotForgottenThread ==
  ASSUME Types, UnloadNotForgotten, NEW t \in Threads, ThreadStep(t)
  PROVE  UnloadNotForgotten'
<1> USE DEF Types, TypeOK, listVars, unloadVars, returnVars, threadVars, At, Goto, Works, Has,
        UnloadNotForgotten, Threads
<1>1. CASE Dispatch(t)
  BY <1>1 DEF Dispatch
<1>2. CASE CallHook(t)
  BY <1>2 DEF CallHook, Callback, SelfUnload, RequestReturn
<1>3. CASE ChainOver(t)
  BY <1>3 DEF ChainOver
<1>4. CASE Flush(t)
  BY <1>4 DEF Flush
<1>5. CASE ClearPending(t)
  BY <1>5 DEF ClearPending
<1>6. CASE TakePending(t)
  BY <1>6 DEF TakePending
<1>7. CASE Unload(t)
  BY <1>7 DEF Unload, Named, Remove
<1>8. CASE FlushOver(t)
  BY <1>8 DEF FlushOver
<1>9. CASE Unregister(t)
  BY <1>9 DEF Unregister, WithoutHooksOf
<1>10. CASE OnDetach(t)
  BY <1>10 DEF OnDetach, Detached, Callback, SelfUnload, RequestReturn
<1> QED BY <1>1, <1>2, <1>3, <1>4, <1>5, <1>6, <1>7, <1>8, <1>9, <1>10 DEF ThreadStep

\* No unload is forgotten: the steps of a command that waits.
LEMMA UnloadNotForgottenWaiter ==
  ASSUME Types, UnloadNotForgotten, NEW w \in Waiters, WaiterStep(w)
  PROVE  UnloadNotForgotten'
<1> USE DEF Types, TypeOK, listVars, unloadVars, returnVars, threadVars, At, Goto, Works, Has,
        UnloadNotForgotten, Threads
<1>1. CASE TakeTrigLock(w)
  BY <1>1 DEF TakeTrigLock, aside
<1>2. CASE EnterWait(w)
  BY <1>2 DEF EnterWait, aside
<1>3. CASE ConsumeReturnRequest(w)
  BY <1>3 DEF ConsumeReturnRequest, aside
<1>4. CASE OtherReason(w)
  BY <1>4 DEF OtherReason, aside
<1>5. CASE ExitWait(w)
  BY <1>5 DEF ExitWait, aside
<1>6. CASE FreeTrigLock(w)
  BY <1>6 DEF FreeTrigLock, aside
<1> QED BY <1>1, <1>2, <1>3, <1>4, <1>5, <1>6 DEF WaiterStep

\* No unload is forgotten: the steps of the monitor and of the end.
LEMMA UnloadNotForgottenEnd ==
  ASSUME Types, UnloadNotForgotten, PollTick \/ OnPoll \/ PollsOver \/ Stop \/ DetachAll \/ DetachNext
  PROVE  UnloadNotForgotten'
<1> USE DEF Types, TypeOK, listVars, unloadVars, returnVars, threadVars, At, Goto, Works, Has,
        UnloadNotForgotten, Threads
<1>1. CASE PollTick
  BY <1>1 DEF PollTick
<1>2. CASE OnPoll
  BY <1>2 DEF OnPoll, Callback, SelfUnload, RequestReturn
<1>3. CASE PollsOver
  BY <1>3 DEF PollsOver
<1>4. CASE Stop
  BY <1>4 DEF Stop
<1>5. CASE DetachAll
  BY <1>5 DEF DetachAll
<1>6. CASE DetachNext
  BY <1>6 DEF DetachNext
<1> QED BY <1>1, <1>2, <1>3, <1>4, <1>5, <1>6

\* While a plugin waits for its unload, the Event is set or a thread that has
\* cleared it is about to take the list, whatever threads flush at a time.
THEOREM NoUnloadIsForgotten == Spec => []UnloadNotForgotten
<1>1. Init => UnloadNotForgotten
  BY PluginAssumption DEF Init, UnloadNotForgotten
<1>2. Types /\ UnloadNotForgotten /\ [Next]_vars => UnloadNotForgotten'
  <2> SUFFICES ASSUME Types, UnloadNotForgotten, [Next]_vars PROVE UnloadNotForgotten'
    OBVIOUS
  <2>1. CASE UNCHANGED vars
    BY <2>1 DEF vars, listVars, unloadVars, returnVars, threadVars, UnloadNotForgotten, At
  <2>2. CASE Next
    BY <2>2, UnloadNotForgottenHandler, UnloadNotForgottenThread, UnloadNotForgottenWaiter, UnloadNotForgottenEnd DEF Next
  <2> QED BY <2>1, <2>2
<1> QED BY <1>1, <1>2, TypeCorrect, PTL DEF Spec

-----------------------------------------------------------------------------
(* Commands that wait.                                                     *)

\* Who waits holds the lock; the flag and the request belong to who holds it.
Waits ==
  /\ \A w \in Waiters : pc[w] # "idle" => trigLock = w
  /\ waitActive => \E w \in Waiters : pc[w] \in {"wait", "returns", "exit"}
  /\ requested => waitActive /\ heard
  /\ \A w \in Waiters : pc[w] = "returns" => heard

\* Waits are one at a time: the steps of a request thread.
LEMMA WaitsHandler ==
  ASSUME Types, Waits, NEW h \in Handlers, HandlerStep(h)
  PROVE  Waits'
<1> USE PluginAssumption DEF Types, TypeOK, listVars, unloadVars, returnVars, threadVars, At, Goto, Works, Has,
        Waits, Threads
<1>1. CASE Instantiate(h)
  BY <1>1 DEF Instantiate
<1>2. CASE Attach(h)
  BY <1>2 DEF Attach, Named
<1>3. CASE Register(h)
  BY <1>3 DEF Register
<1>4. CASE OnAttach(h)
  BY <1>4 DEF OnAttach, Callback, SelfUnload, RequestReturn
<1>5. CASE Detach(h)
  BY <1>5 DEF Detach, Named, Names, Remove
<1>6. CASE HandleCommand(h)
  BY <1>6 DEF HandleCommand
<1> QED BY <1>1, <1>2, <1>3, <1>4, <1>5, <1>6 DEF HandlerStep

\* Waits are one at a time: the steps of a thread in a chain, a flush or a detach.
LEMMA WaitsThread ==
  ASSUME Types, Waits, NEW t \in Threads, ThreadStep(t)
  PROVE  Waits'
<1> USE PluginAssumption DEF Types, TypeOK, listVars, unloadVars, returnVars, threadVars, At, Goto, Works, Has,
        Waits, Threads
<1>1. CASE Dispatch(t)
  BY <1>1 DEF Dispatch
<1>2. CASE CallHook(t)
  BY <1>2 DEF CallHook, Callback, SelfUnload, RequestReturn
<1>3. CASE ChainOver(t)
  BY <1>3 DEF ChainOver
<1>4. CASE Flush(t)
  BY <1>4 DEF Flush
<1>5. CASE ClearPending(t)
  BY <1>5 DEF ClearPending
<1>6. CASE TakePending(t)
  BY <1>6 DEF TakePending
<1>7. CASE Unload(t)
  BY <1>7 DEF Unload, Named, Remove
<1>8. CASE FlushOver(t)
  BY <1>8 DEF FlushOver
<1>9. CASE Unregister(t)
  BY <1>9 DEF Unregister, WithoutHooksOf
<1>10. CASE OnDetach(t)
  BY <1>10 DEF OnDetach, Detached, Callback, SelfUnload, RequestReturn
<1> QED BY <1>1, <1>2, <1>3, <1>4, <1>5, <1>6, <1>7, <1>8, <1>9, <1>10 DEF ThreadStep

\* Waits are one at a time: the steps of a command that waits.
LEMMA WaitsWaiter ==
  ASSUME Types, Waits, NEW w \in Waiters, WaiterStep(w)
  PROVE  Waits'
<1> USE PluginAssumption DEF Types, TypeOK, listVars, unloadVars, returnVars, threadVars, At, Goto, Works, Has,
        Waits, Threads
<1>1. CASE TakeTrigLock(w)
  BY <1>1 DEF TakeTrigLock, aside
<1>2. CASE EnterWait(w)
  BY <1>2 DEF EnterWait, aside
<1>3. CASE ConsumeReturnRequest(w)
  BY <1>3 DEF ConsumeReturnRequest, aside
<1>4. CASE OtherReason(w)
  BY <1>4 DEF OtherReason, aside
<1>5. CASE ExitWait(w)
  BY <1>5 DEF ExitWait, aside
<1>6. CASE FreeTrigLock(w)
  BY <1>6 DEF FreeTrigLock, aside
<1> QED BY <1>1, <1>2, <1>3, <1>4, <1>5, <1>6 DEF WaiterStep

\* Waits are one at a time: the steps of the monitor and of the end.
LEMMA WaitsEnd ==
  ASSUME Types, Waits, PollTick \/ OnPoll \/ PollsOver \/ Stop \/ DetachAll \/ DetachNext
  PROVE  Waits'
<1> USE PluginAssumption DEF Types, TypeOK, listVars, unloadVars, returnVars, threadVars, At, Goto, Works, Has,
        Waits, Threads
<1>1. CASE PollTick
  BY <1>1 DEF PollTick
<1>2. CASE OnPoll
  BY <1>2 DEF OnPoll, Callback, SelfUnload, RequestReturn
<1>3. CASE PollsOver
  BY <1>3 DEF PollsOver
<1>4. CASE Stop
  BY <1>4 DEF Stop
<1>5. CASE DetachAll
  BY <1>5 DEF DetachAll
<1>6. CASE DetachNext
  BY <1>6 DEF DetachNext
<1> QED BY <1>1, <1>2, <1>3, <1>4, <1>5, <1>6

\* A command that returns because a plugin asked for it was waiting when the
\* plugin asked: the lock keeps the waits apart, and each clears what it leaves.
THEOREM ReturnsAreOwn == Spec => []ReturnIsOwn
<1>1. Init => Waits
  BY PluginAssumption DEF Init, Waits
<1>2. Types /\ Waits /\ [Next]_vars => Waits'
  <2> SUFFICES ASSUME Types, Waits, [Next]_vars PROVE Waits'
    OBVIOUS
  <2>1. CASE UNCHANGED vars
    BY <2>1 DEF vars, listVars, unloadVars, returnVars, threadVars, Waits, At, ReturnIsOwn
  <2>2. CASE Next
    BY <2>2, WaitsHandler, WaitsThread, WaitsWaiter, WaitsEnd DEF Next
  <2> QED BY <2>1, <2>2
<1>3. Waits => ReturnIsOwn
  BY DEF Waits, ReturnIsOwn, At
<1> QED BY <1>1, <1>2, <1>3, TypeCorrect, PTL DEF Spec

-----------------------------------------------------------------------------
(* The list, the chains and the hands of the threads that detach.          *)

\* Where instances are before they are in the list, and what the steps of a
\* thread say of what it has left.
Shape ==
  /\ plugins \subseteq joined
  /\ unused \cap joined = {}
  /\ \A t \in Threads : pc[t] = "attach" => inst[t] \notin joined \cup unused
  /\ \A t, u \in Threads :
       pc[t] = "attach" /\ pc[u] = "attach" /\ inst[t] = inst[u] => t = u
  /\ \A t \in Threads : pc[t] \in {"attach", "register", "attached"} => t \in Handlers
  /\ \A t \in Threads : pc[t] = "ending" => t = Reader
  /\ \A t \in Threads : pc[t] = "unload" => flushing[t]
  /\ \A t \in Threads : flushing[t] => pc[t] \in {"unload", "unregister", "detached"}
  /\ pc[Reader] \in {"unregister", "detached"} /\ ~ flushing[Reader]
       => inst[Reader] \notin left[Reader]

\* Instances and threads keep their places: the steps of a request thread.
LEMMA ShapeHandler ==
  ASSUME Types, Shape, NEW h \in Handlers, HandlerStep(h)
  PROVE  Shape'
<1> USE PluginAssumption DEF Types, TypeOK, listVars, unloadVars, returnVars, threadVars, At, Goto, Works, Has,
        Shape, Threads
<1>1. CASE Instantiate(h)
  BY <1>1 DEF Instantiate
<1>2. CASE Attach(h)
  BY <1>2 DEF Attach, Named
<1>3. CASE Register(h)
  BY <1>3 DEF Register
<1>4. CASE OnAttach(h)
  BY <1>4 DEF OnAttach, Callback, SelfUnload, RequestReturn
<1>5. CASE Detach(h)
  BY <1>5 DEF Detach, Named, Names, Remove
<1>6. CASE HandleCommand(h)
  BY <1>6 DEF HandleCommand
<1> QED BY <1>1, <1>2, <1>3, <1>4, <1>5, <1>6 DEF HandlerStep

\* Instances and threads keep their places: the steps of a thread in a chain, a flush or a detach.
LEMMA ShapeThread ==
  ASSUME Types, Shape, NEW t \in Threads, ThreadStep(t)
  PROVE  Shape'
<1> USE PluginAssumption DEF Types, TypeOK, listVars, unloadVars, returnVars, threadVars, At, Goto, Works, Has,
        Shape, Threads
<1>1. CASE Dispatch(t)
  BY <1>1 DEF Dispatch
<1>2. CASE CallHook(t)
  BY <1>2 DEF CallHook, Callback, SelfUnload, RequestReturn
<1>3. CASE ChainOver(t)
  BY <1>3 DEF ChainOver
<1>4. CASE Flush(t)
  BY <1>4 DEF Flush
<1>5. CASE ClearPending(t)
  BY <1>5 DEF ClearPending
<1>6. CASE TakePending(t)
  BY <1>6 DEF TakePending
<1>7. CASE Unload(t)
  BY <1>7 DEF Unload, Named, Remove
<1>8. CASE FlushOver(t)
  BY <1>8 DEF FlushOver
<1>9. CASE Unregister(t)
  BY <1>9 DEF Unregister, WithoutHooksOf
<1>10. CASE OnDetach(t)
  BY <1>10 DEF OnDetach, Detached, Callback, SelfUnload, RequestReturn
<1> QED BY <1>1, <1>2, <1>3, <1>4, <1>5, <1>6, <1>7, <1>8, <1>9, <1>10 DEF ThreadStep

\* Instances and threads keep their places: the steps of a command that waits.
LEMMA ShapeWaiter ==
  ASSUME Types, Shape, NEW w \in Waiters, WaiterStep(w)
  PROVE  Shape'
<1> USE PluginAssumption DEF Types, TypeOK, listVars, unloadVars, returnVars, threadVars, At, Goto, Works, Has,
        Shape, Threads
<1>1. CASE TakeTrigLock(w)
  BY <1>1 DEF TakeTrigLock, aside
<1>2. CASE EnterWait(w)
  BY <1>2 DEF EnterWait, aside
<1>3. CASE ConsumeReturnRequest(w)
  BY <1>3 DEF ConsumeReturnRequest, aside
<1>4. CASE OtherReason(w)
  BY <1>4 DEF OtherReason, aside
<1>5. CASE ExitWait(w)
  BY <1>5 DEF ExitWait, aside
<1>6. CASE FreeTrigLock(w)
  BY <1>6 DEF FreeTrigLock, aside
<1> QED BY <1>1, <1>2, <1>3, <1>4, <1>5, <1>6 DEF WaiterStep

\* Instances and threads keep their places: the steps of the monitor and of the end.
LEMMA ShapeEnd ==
  ASSUME Types, Shape, PollTick \/ OnPoll \/ PollsOver \/ Stop \/ DetachAll \/ DetachNext
  PROVE  Shape'
<1> USE PluginAssumption DEF Types, TypeOK, listVars, unloadVars, returnVars, threadVars, At, Goto, Works, Has,
        Shape, Threads
<1>1. CASE PollTick
  BY <1>1 DEF PollTick
<1>2. CASE OnPoll
  BY <1>2 DEF OnPoll, Callback, SelfUnload, RequestReturn
<1>3. CASE PollsOver
  BY <1>3 DEF PollsOver
<1>4. CASE Stop
  BY <1>4 DEF Stop
<1>5. CASE DetachAll
  BY <1>5 DEF DetachAll
<1>6. CASE DetachNext
  BY <1>6 DEF DetachNext
<1> QED BY <1>1, <1>2, <1>3, <1>4, <1>5, <1>6

\* Where an instance is: nobody has it in hand while it is in the list, at most
\* one thread after that, and who has not been told has been in one of them.
Hands ==
  \A p \in Instances :
    /\ p \notin joined => told[p] = 0
    /\ p \in plugins => told[p] = 0
    /\ \A t \in Threads : InHand(t, p) =>
         /\ p \in joined \ plugins
         /\ told[p] = 0
         /\ \A u \in Threads : InHand(u, p) => u = t
    /\ p \in joined \ plugins =>
         told[p] = 1 \/ \E t \in Threads : InHand(t, p)

\* An instance is in one place: the steps of a request thread.
LEMMA HandsHandler ==
  ASSUME Types, Shape, Hands, NEW h \in Handlers, HandlerStep(h)
  PROVE  Hands'
<1> USE PluginAssumption DEF Types, TypeOK, listVars, unloadVars, returnVars, threadVars, At, Goto, Works, Has,
        Shape, Hands, InHand, Threads
<1>1. CASE Instantiate(h)
  BY <1>1 DEF Instantiate
<1>2. CASE Attach(h)
  <2>1. inst[h] \in Instances /\ inst[h] \notin joined
    BY <1>2 DEF Attach, WorksOnOne
  <2>2. CASE Named(NameOf[inst[h]]) # {}
    BY <1>2, <2>2 DEF Attach
  <2>3. CASE Named(NameOf[inst[h]]) = {}
    <3>1. \A t \in Threads, p \in Instances : InHand(t, p)' <=> InHand(t, p)
      BY <1>2, <2>3 DEF Attach
    <3>2. \A t \in Threads : ~ InHand(t, inst[h])
      BY <2>1
    <3> QED BY <1>2, <2>1, <2>3, <3>1, <3>2 DEF Attach
  <2> QED BY <2>2, <2>3
<1>3. CASE Register(h)
  BY <1>3 DEF Register
<1>4. CASE OnAttach(h)
  BY <1>4 DEF OnAttach, Callback, SelfUnload, RequestReturn
<1>5. CASE Detach(h)
  BY <1>5 DEF Detach, Named, Names, Remove
<1>6. CASE HandleCommand(h)
  BY <1>6 DEF HandleCommand
<1> QED BY <1>1, <1>2, <1>3, <1>4, <1>5, <1>6 DEF HandlerStep

\* An instance is in one place: the steps of a thread in a chain, a flush or a detach.
LEMMA HandsThread ==
  ASSUME Types, Shape, Hands, NEW t \in Threads, ThreadStep(t)
  PROVE  Hands'
<1> USE PluginAssumption DEF Types, TypeOK, listVars, unloadVars, returnVars, threadVars, At, Goto, Works, Has,
        Shape, Hands, InHand, Threads
<1>1. CASE Dispatch(t)
  BY <1>1 DEF Dispatch
<1>2. CASE CallHook(t)
  BY <1>2 DEF CallHook, Callback, SelfUnload, RequestReturn
<1>3. CASE ChainOver(t)
  BY <1>3 DEF ChainOver
<1>4. CASE Flush(t)
  BY <1>4 DEF Flush
<1>5. CASE ClearPending(t)
  BY <1>5 DEF ClearPending
<1>6. CASE TakePending(t)
  BY <1>6 DEF TakePending
<1>7. CASE Unload(t)
  BY <1>7 DEF Unload, Named, Remove
<1>8. CASE FlushOver(t)
  BY <1>8 DEF FlushOver
<1>9. CASE Unregister(t)
  BY <1>9 DEF Unregister, WithoutHooksOf
<1>10. CASE OnDetach(t)
  BY <1>10 DEF OnDetach, Detached, Callback, SelfUnload, RequestReturn
<1> QED BY <1>1, <1>2, <1>3, <1>4, <1>5, <1>6, <1>7, <1>8, <1>9, <1>10 DEF ThreadStep

\* An instance is in one place: the steps of a command that waits.
LEMMA HandsWaiter ==
  ASSUME Types, Shape, Hands, NEW w \in Waiters, WaiterStep(w)
  PROVE  Hands'
<1> USE PluginAssumption DEF Types, TypeOK, listVars, unloadVars, returnVars, threadVars, At, Goto, Works, Has,
        Shape, Hands, InHand, Threads
<1>1. CASE TakeTrigLock(w)
  BY <1>1 DEF TakeTrigLock, aside
<1>2. CASE EnterWait(w)
  BY <1>2 DEF EnterWait, aside
<1>3. CASE ConsumeReturnRequest(w)
  BY <1>3 DEF ConsumeReturnRequest, aside
<1>4. CASE OtherReason(w)
  BY <1>4 DEF OtherReason, aside
<1>5. CASE ExitWait(w)
  BY <1>5 DEF ExitWait, aside
<1>6. CASE FreeTrigLock(w)
  BY <1>6 DEF FreeTrigLock, aside
<1> QED BY <1>1, <1>2, <1>3, <1>4, <1>5, <1>6 DEF WaiterStep

\* An instance is in one place: the steps of the monitor and of the end.
LEMMA HandsEnd ==
  ASSUME Types, Shape, Hands, PollTick \/ OnPoll \/ PollsOver \/ Stop \/ DetachAll \/ DetachNext
  PROVE  Hands'
<1> USE PluginAssumption DEF Types, TypeOK, listVars, unloadVars, returnVars, threadVars, At, Goto, Works, Has,
        Shape, Hands, InHand, Threads
<1>1. CASE PollTick
  BY <1>1 DEF PollTick
<1>2. CASE OnPoll
  <2>1. \A t \in Threads, p \in Instances : InHand(t, p)' <=> InHand(t, p)
    BY <1>2 DEF OnPoll
  <2>2. UNCHANGED <<plugins, joined, told>>
    BY <1>2 DEF OnPoll
  <2> QED BY <2>1, <2>2
<1>3. CASE PollsOver
  BY <1>3 DEF PollsOver
<1>4. CASE Stop
  BY <1>4 DEF Stop
<1>5. CASE DetachAll
  BY <1>5 DEF DetachAll
<1>6. CASE DetachNext
  BY <1>6 DEF DetachNext
<1> QED BY <1>1, <1>2, <1>3, <1>4, <1>5, <1>6

\* Instances and threads are where they should be in every state.
LEMMA PlacesKept == Spec => [](Types /\ Shape /\ Hands)
<1> DEFINE IInv == Shape /\ Hands
<1>1. Init => IInv
  <2> SUFFICES ASSUME Init PROVE IInv
    OBVIOUS
  <2>1. Shape
    BY PluginAssumption DEF Init, Shape, Threads
  <2>2. Hands
    BY PluginAssumption DEF Init, Hands, InHand, Threads
  <2> QED BY <2>1, <2>2
<1>2. Types /\ IInv /\ [Next]_vars => IInv'
  <2> SUFFICES ASSUME Types, Shape, Hands, [Next]_vars PROVE IInv'
    OBVIOUS
  <2>1. CASE UNCHANGED vars
    BY <2>1 DEF vars, listVars, threadVars, Shape, Hands, InHand
  <2>2. CASE Next
    <3>1. Shape'
      BY <2>2, ShapeHandler, ShapeThread, ShapeWaiter, ShapeEnd DEF Next
    <3>2. Hands'
      BY <2>2, HandsHandler, HandsThread, HandsWaiter, HandsEnd DEF Next
    <3> QED BY <3>1, <3>2
  <2> QED BY <2>1, <2>2
<1> QED BY <1>1, <1>2, TypeCorrect, PTL DEF Spec

\* on_detach comes once for each instance, whoever detaches it: by name, in a
\* flush, or because the session ends.
THEOREM OnDetachIsOnce == Spec => []DetachedOnce
<1>1. Types /\ Shape /\ Hands => DetachedOnce
  <2> SUFFICES ASSUME Types, Shape, Hands, NEW p \in joined
               PROVE  \/ p \in plugins /\ Detaching(p) = {} /\ told[p] = 0
                      \/ /\ p \notin plugins
                         /\ \E t \in Threads : Detaching(p) = {t}
                         /\ told[p] = 0
                      \/ p \notin plugins /\ Detaching(p) = {} /\ told[p] = 1
    BY DEF DetachedOnce
  <2>1. p \in Instances
    BY DEF Types, TypeOK
  <2>2. CASE p \in plugins
    BY <2>1, <2>2 DEF Hands, Detaching
  <2>3. CASE \E t \in Threads : InHand(t, p)
    <3>1. PICK t \in Threads : InHand(t, p)
      BY <2>3
    <3>2. Detaching(p) = {t}
      BY <2>1, <3>1 DEF Hands, Detaching
    <3> QED BY <2>1, <3>1, <3>2 DEF Hands
  <2>4. CASE p \notin plugins /\ \A t \in Threads : ~ InHand(t, p)
    BY <2>1, <2>4 DEF Hands, Detaching
  <2> QED BY <2>2, <2>3, <2>4
<1> QED BY <1>1, PlacesKept, PTL

\* Attached instances are hooked: the steps of a request thread.
LEMMA AttachedIsHookedHandler ==
  ASSUME Types, Shape, Hands, AttachedIsHooked, NEW h \in Handlers, HandlerStep(h)
  PROVE  AttachedIsHooked'
<1> USE PluginAssumption DEF Types, TypeOK, listVars, unloadVars, returnVars, threadVars, At, Goto, Works, Has,
        Shape, Hands, InHand, AttachedIsHooked, Threads
<1>1. CASE Instantiate(h)
  BY <1>1 DEF Instantiate
<1>2. CASE Attach(h)
  BY <1>2 DEF Attach, Named
<1>3. CASE Register(h)
  BY <1>3 DEF Register
<1>4. CASE OnAttach(h)
  BY <1>4 DEF OnAttach, Callback, SelfUnload, RequestReturn
<1>5. CASE Detach(h)
  BY <1>5 DEF Detach, Named, Names, Remove
<1>6. CASE HandleCommand(h)
  BY <1>6 DEF HandleCommand
<1> QED BY <1>1, <1>2, <1>3, <1>4, <1>5, <1>6 DEF HandlerStep

\* Attached instances are hooked: the steps of a thread in a chain, a flush or a detach.
LEMMA AttachedIsHookedThread ==
  ASSUME Types, Shape, Hands, AttachedIsHooked, NEW t \in Threads, ThreadStep(t)
  PROVE  AttachedIsHooked'
<1> USE PluginAssumption DEF Types, TypeOK, listVars, unloadVars, returnVars, threadVars, At, Goto, Works, Has,
        Shape, Hands, InHand, AttachedIsHooked, Threads
<1>1. CASE Dispatch(t)
  BY <1>1 DEF Dispatch
<1>2. CASE CallHook(t)
  BY <1>2 DEF CallHook, Callback, SelfUnload, RequestReturn
<1>3. CASE ChainOver(t)
  BY <1>3 DEF ChainOver
<1>4. CASE Flush(t)
  BY <1>4 DEF Flush
<1>5. CASE ClearPending(t)
  BY <1>5 DEF ClearPending
<1>6. CASE TakePending(t)
  BY <1>6 DEF TakePending
<1>7. CASE Unload(t)
  BY <1>7 DEF Unload, Named, Remove
<1>8. CASE FlushOver(t)
  BY <1>8 DEF FlushOver
<1>9. CASE Unregister(t)
  BY <1>9 DEF Unregister, WithoutHooksOf
<1>10. CASE OnDetach(t)
  BY <1>10 DEF OnDetach, Detached, Callback, SelfUnload, RequestReturn
<1> QED BY <1>1, <1>2, <1>3, <1>4, <1>5, <1>6, <1>7, <1>8, <1>9, <1>10 DEF ThreadStep

\* Attached instances are hooked: the steps of a command that waits.
LEMMA AttachedIsHookedWaiter ==
  ASSUME Types, Shape, Hands, AttachedIsHooked, NEW w \in Waiters, WaiterStep(w)
  PROVE  AttachedIsHooked'
<1> USE PluginAssumption DEF Types, TypeOK, listVars, unloadVars, returnVars, threadVars, At, Goto, Works, Has,
        Shape, Hands, InHand, AttachedIsHooked, Threads
<1>1. CASE TakeTrigLock(w)
  BY <1>1 DEF TakeTrigLock, aside
<1>2. CASE EnterWait(w)
  BY <1>2 DEF EnterWait, aside
<1>3. CASE ConsumeReturnRequest(w)
  BY <1>3 DEF ConsumeReturnRequest, aside
<1>4. CASE OtherReason(w)
  BY <1>4 DEF OtherReason, aside
<1>5. CASE ExitWait(w)
  BY <1>5 DEF ExitWait, aside
<1>6. CASE FreeTrigLock(w)
  BY <1>6 DEF FreeTrigLock, aside
<1> QED BY <1>1, <1>2, <1>3, <1>4, <1>5, <1>6 DEF WaiterStep

\* Attached instances are hooked: the steps of the monitor and of the end.
LEMMA AttachedIsHookedEnd ==
  ASSUME Types, Shape, Hands, AttachedIsHooked, PollTick \/ OnPoll \/ PollsOver \/ Stop \/ DetachAll \/ DetachNext
  PROVE  AttachedIsHooked'
<1> USE PluginAssumption DEF Types, TypeOK, listVars, unloadVars, returnVars, threadVars, At, Goto, Works, Has,
        Shape, Hands, InHand, AttachedIsHooked, Threads
<1>1. CASE PollTick
  BY <1>1 DEF PollTick
<1>2. CASE OnPoll
  BY <1>2 DEF OnPoll, Callback, SelfUnload, RequestReturn
<1>3. CASE PollsOver
  BY <1>3 DEF PollsOver
<1>4. CASE Stop
  BY <1>4 DEF Stop
<1>5. CASE DetachAll
  BY <1>5 DEF DetachAll
<1>6. CASE DetachNext
  BY <1>6 DEF DetachNext
<1> QED BY <1>1, <1>2, <1>3, <1>4, <1>5, <1>6

\* An instance in the list is in the chains, or its thread is about to put it
\* there: what a detach takes out of the chains left the list before.
THEOREM AttachedAreHooked == Spec => []AttachedIsHooked
<1>1. Init => AttachedIsHooked
  BY PluginAssumption DEF Init, AttachedIsHooked
<1>2. Types /\ Shape /\ Hands /\ AttachedIsHooked /\ [Next]_vars => AttachedIsHooked'
  <2> SUFFICES ASSUME Types, Shape, Hands, AttachedIsHooked, [Next]_vars PROVE AttachedIsHooked'
    OBVIOUS
  <2>1. CASE UNCHANGED vars
    BY <2>1 DEF vars, listVars, unloadVars, returnVars, threadVars, AttachedIsHooked, At
  <2>2. CASE Next
    BY <2>2, AttachedIsHookedHandler, AttachedIsHookedThread, AttachedIsHookedWaiter, AttachedIsHookedEnd DEF Next
  <2> QED BY <2>1, <2>2
<1> QED BY <1>1, <1>2, PlacesKept, PTL DEF Spec

=============================================================================
