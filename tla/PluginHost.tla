----------------------------- MODULE PluginHost ------------------------------
(***************************************************************************)
(* The plugins of one session (plugins/host.py, plugins/hooks.py): a list  *)
(* of attached instances, the hook chains they are registered in, the      *)
(* requests of plugins to be unloaded, and the request of a plugin that a  *)
(* waiting command return.                                                 *)
(*                                                                         *)
(* Each critical section of PluginHost._lock and of HookEngine._lock is a  *)
(* step; the callbacks run outside the locks, on the reader thread         *)
(* (on_output), the monitor thread (on_poll) and request threads (on_input,*)
(* on_snapshot, plugin commands).  Chain order, options and what a hook    *)
(* does to its data are left out: no property depends on them.             *)
(***************************************************************************)
EXTENDS Integers, FiniteSets

CONSTANTS
  Instances,  \* plugin instances: registry.instantiate gives each one once
  NameOf,     \* the name of the plugin each is an instance of
  Handlers,   \* request threads
  Waiters     \* request threads that wait for output on the session

Reader == "reader"
Monitor == "monitor"
Threads == Handlers \cup {Reader, Monitor}
Nobody == "nobody"

ASSUME PluginAssumption ==
  /\ NameOf \in [Instances -> {NameOf[p] : p \in Instances}]
  /\ Handlers \cap {Reader, Monitor} = {}
  /\ Waiters \cap Threads = {}
  /\ Nobody \notin Waiters \cup Instances

VARIABLES
  plugins,        \* _plugins
  hooks,          \* the instances in the chains of the HookEngine
  pending,        \* _pending_unload
  unloadPending,  \* the Event of the same name
  waitActive,     \* _wait_active
  requested,      \* _return_request is set
  trigLock,       \* who holds Session._trig_lock
  running,        \* Session.running
  unused,         \* instances not made yet
  pc,
  inst,           \* the instance a thread works on
  left,           \* the instances it still has to go through
  polls,          \* those poll_tick still has to go through
  flushing,       \* a detach is part of a flush
  told,           \* how often on_detach was called on each instance (history)
  joined,         \* instances that were ever in the list (history)
  heard           \* a request was accepted since the wait began (history)

listVars == <<plugins, joined>>
unloadVars == <<pending, unloadPending>>
returnVars == <<waitActive, requested, heard>>
threadVars == <<inst, left, polls, flushing>>
vars == <<listVars, hooks, unloadVars, returnVars, trigLock, running, unused,
          pc, threadVars, told>>

Names == {NameOf[p] : p \in Instances}
OneOfEach(S) == \A p, q \in S : NameOf[p] = NameOf[q] => p = q
Named(n) == {p \in plugins : NameOf[p] = n}

\* A session begins with the plugins its command asked for: PluginHost and
\* _attach_plugins put them in the list before the session has threads.
Init ==
  /\ plugins \in {S \in SUBSET Instances : OneOfEach(S)}
  /\ hooks = plugins
  /\ joined = plugins
  /\ unused = Instances \ plugins
  /\ pending = {}
  /\ unloadPending = FALSE
  /\ waitActive = FALSE
  /\ requested = FALSE
  /\ heard = FALSE
  /\ trigLock = Nobody
  /\ running = TRUE
  /\ pc = [t \in Threads \cup Waiters |-> "idle"]
  /\ inst = [t \in Threads |-> Nobody]
  /\ left = [t \in Threads |-> {}]
  /\ polls = {}
  /\ flushing = [t \in Threads |-> FALSE]
  /\ told = [p \in Instances |-> 0]

At(t, l) == pc[t] = l
Goto(t, l) == pc' = [pc EXCEPT ![t] = l]
Works(t, p) == inst' = [inst EXCEPT ![t] = p]
Has(t, S) == left' = [left EXCEPT ![t] = S]
-----------------------------------------------------------------------------
(* What a plugin may ask for while one of its callbacks runs.              *)

SelfUnload(p) ==
  /\ IF p \in plugins /\ p \notin pending
     THEN pending' = pending \cup {p} /\ unloadPending' = TRUE
     ELSE UNCHANGED unloadVars
  /\ UNCHANGED returnVars

RequestReturn ==
  /\ requested' = (requested \/ waitActive)
  /\ heard' = (heard \/ waitActive)
  /\ UNCHANGED <<unloadVars, waitActive>>

Callback(p) ==
  \/ UNCHANGED <<unloadVars, returnVars>>
  \/ SelfUnload(p)
  \/ RequestReturn
-----------------------------------------------------------------------------
(* attach: the instance enters the list, then the chains, then is called.  *)

\* PluginHandler._handle_attach: the session runs, an instance is made.
Instantiate(h) ==
  /\ At(h, "idle") /\ running
  /\ \E p \in unused :
       /\ unused' = unused \ {p}
       /\ Works(h, p)
  /\ Goto(h, "attach")
  /\ UNCHANGED <<listVars, hooks, unloadVars, returnVars, trigLock, running,
                 left, polls, flushing, told>>

Attach(h) ==
  /\ At(h, "attach")
  /\ IF Named(NameOf[inst[h]]) = {}
     THEN /\ plugins' = plugins \cup {inst[h]}
          /\ joined' = joined \cup {inst[h]}
          /\ Goto(h, "register")
          /\ UNCHANGED inst
     ELSE UNCHANGED listVars /\ Goto(h, "idle") /\ Works(h, Nobody)
  /\ UNCHANGED <<hooks, unloadVars, returnVars, trigLock, running, unused,
                 left, polls, flushing, told>>

Register(h) ==
  /\ At(h, "register")
  /\ hooks' = hooks \cup {inst[h]}
  /\ Goto(h, "attached")
  /\ UNCHANGED <<listVars, unloadVars, returnVars, trigLock, running, unused,
                 threadVars, told>>

\* on_init and on_attach.
OnAttach(h) ==
  /\ At(h, "attached")
  /\ Callback(inst[h])
  /\ Goto(h, "idle")
  /\ Works(h, Nobody)
  /\ UNCHANGED <<listVars, hooks, trigLock, running, unused, left, polls,
                 flushing, told>>
-----------------------------------------------------------------------------
(* detach, by name: out of the list, out of the chains, then called.       *)

\* The thread goes on with the unloads it has left, or is done.
Detached(t) ==
  Goto(t, IF flushing[t] THEN "unload"
          ELSE IF t = Reader THEN "ending" ELSE "idle")

Remove(t, p) ==
  /\ plugins' = plugins \ {p}
  /\ Works(t, p)
  /\ Goto(t, "unregister")
  /\ UNCHANGED joined

Detach(h) ==
  /\ At(h, "idle")
  /\ \E n \in Names : \E p \in Named(n) : Remove(h, p)
  /\ UNCHANGED <<hooks, unloadVars, returnVars, trigLock, running, unused,
                 left, polls, flushing, told>>

\* Mutant of WithoutHooksOf: the hooks are found by the name of the plugin.
WithoutHooksOfName(p) == {q \in hooks : NameOf[q] # NameOf[p]}

WithoutHooksOf(p) == hooks \ {p}

Unregister(t) ==
  /\ At(t, "unregister")
  /\ hooks' = WithoutHooksOf(inst[t])
  /\ Goto(t, "detached")
  /\ UNCHANGED <<listVars, unloadVars, returnVars, trigLock, running, unused,
                 threadVars, told>>

\* on_detach; the plugin is not in the list any more, so that a request to
\* unload it is refused.
OnDetach(t) ==
  /\ At(t, "detached")
  /\ told' = [told EXCEPT ![inst[t]] = @ + 1]
  /\ Callback(inst[t])
  /\ Detached(t)
  /\ Works(t, Nobody)
  /\ UNCHANGED <<listVars, hooks, trigLock, running, unused, left, polls,
                 flushing>>
-----------------------------------------------------------------------------
(* Hook chains, and the unloads that wait for their end.                   *)

\* dispatch_modify, dispatch_observe: the chain is walked from a snapshot.
\* The reader does so for output, a request thread for input and screens, the
\* monitor for events.
Dispatch(t) ==
  /\ At(t, "idle")
  /\ Has(t, hooks)
  /\ Goto(t, "chain")
  /\ UNCHANGED <<listVars, hooks, unloadVars, returnVars, trigLock, running,
                 unused, inst, polls, flushing, told>>

CallHook(t) ==
  /\ At(t, "chain")
  /\ \E p \in left[t] : Callback(p) /\ Has(t, left[t] \ {p})
  /\ UNCHANGED <<listVars, hooks, trigLock, running, unused, pc, inst,
                 polls, flushing, told>>

\* The chain is over, or (on_input) a plugin keeps the input to itself.
ChainOver(t) ==
  /\ At(t, "chain")
  /\ left[t] = {} \/ t \in Handlers
  /\ Has(t, {})
  /\ Goto(t, "flush")
  /\ UNCHANGED <<listVars, hooks, unloadVars, returnVars, trigLock, running,
                 unused, inst, polls, flushing, told>>

\* poll_tick: a copy of the list is walked, and one flush follows in any case.
PollTick ==
  /\ At(Monitor, "idle")
  /\ polls' = plugins
  /\ Goto(Monitor, "polls")
  /\ UNCHANGED <<listVars, hooks, unloadVars, returnVars, trigLock, running,
                 unused, inst, left, flushing, told>>

\* Nothing is called when the interval of the plugin has not passed.
OnPoll ==
  /\ At(Monitor, "polls")
  /\ \E p \in polls :
       /\ polls' = polls \ {p}
       /\ Callback(p) \/ UNCHANGED <<unloadVars, returnVars>>
  /\ UNCHANGED <<listVars, hooks, trigLock, running, unused, pc, inst, left,
                 flushing, told>>

PollsOver ==
  /\ At(Monitor, "polls")
  /\ polls = {}
  /\ Goto(Monitor, "flush")
  /\ UNCHANGED <<listVars, hooks, unloadVars, returnVars, trigLock, running,
                 unused, threadVars, told>>

\* PluginHandler._handle_cmd: the plugin is found by name and called; no
\* flush follows.
HandleCommand(h) ==
  /\ At(h, "idle")
  /\ \E p \in plugins : Works(h, p)
  /\ Goto(h, "attached")
  /\ UNCHANGED <<listVars, hooks, unloadVars, returnVars, trigLock, running,
                 unused, left, polls, flushing, told>>

\* _flush_unload: the Event is looked at, cleared, and the list taken.
Flush(t) ==
  /\ At(t, "flush")
  /\ IF unloadPending THEN Goto(t, "clear") ELSE Goto(t, "idle")
  /\ UNCHANGED <<listVars, hooks, unloadVars, returnVars, trigLock, running,
                 unused, threadVars, told>>

ClearPending(t) ==
  /\ At(t, "clear")
  /\ unloadPending' = FALSE
  /\ Goto(t, "take")
  /\ UNCHANGED <<listVars, hooks, pending, returnVars, trigLock, running,
                 unused, threadVars, told>>

TakePending(t) ==
  /\ At(t, "take")
  /\ Has(t, pending)
  /\ pending' = {}
  /\ flushing' = [flushing EXCEPT ![t] = TRUE]
  /\ Goto(t, "unload")
  /\ UNCHANGED <<listVars, hooks, unloadPending, returnVars, trigLock, running,
                 unused, inst, polls, told>>

Unload(t) ==
  /\ At(t, "unload")
  /\ \E p \in left[t] :
       /\ Has(t, left[t] \ {p})
       /\ \/ \E q \in Named(NameOf[p]) : Remove(t, q)
          \/ Named(NameOf[p]) = {} /\ UNCHANGED <<listVars, pc, inst>>
  /\ UNCHANGED <<hooks, unloadVars, returnVars, trigLock, running, unused,
                 polls, flushing, told>>

\* Mutant of FlushOver: the Event is cleared when the unloads are done.
FlushOverClears(t) ==
  /\ At(t, "unload")
  /\ left[t] = {}
  /\ unloadPending' = FALSE
  /\ flushing' = [flushing EXCEPT ![t] = FALSE]
  /\ Goto(t, "idle")
  /\ UNCHANGED <<listVars, hooks, pending, returnVars, trigLock, running,
                 unused, inst, left, polls, told>>

FlushOver(t) ==
  /\ At(t, "unload")
  /\ left[t] = {}
  /\ flushing' = [flushing EXCEPT ![t] = FALSE]
  /\ Goto(t, "idle")
  /\ UNCHANGED <<listVars, hooks, unloadVars, returnVars, trigLock, running,
                 unused, inst, left, polls, told>>
-----------------------------------------------------------------------------
(* The end of the session.                                                 *)

\* Session.stop, or a reader at the end of the output.
Stop ==
  /\ running
  /\ running' = FALSE
  /\ UNCHANGED <<listVars, hooks, unloadVars, returnVars, trigLock, unused, pc,
                 threadVars, told>>

\* Mutant of DetachAll: the list is left as it is.
DetachAllKeeps ==
  /\ At(Reader, "idle") /\ ~ running
  /\ Has(Reader, plugins)
  /\ Goto(Reader, "ending")
  /\ UNCHANGED <<listVars, hooks, unloadVars, returnVars, trigLock, running,
                 unused, inst, polls, flushing, told>>

DetachAll ==
  /\ At(Reader, "idle") /\ ~ running
  /\ Has(Reader, plugins)
  /\ plugins' = {}
  /\ Goto(Reader, "ending")
  /\ UNCHANGED <<joined, hooks, unloadVars, returnVars, trigLock, running,
                 unused, inst, polls, flushing, told>>

DetachNext ==
  /\ At(Reader, "ending")
  /\ \E p \in left[Reader] : Works(Reader, p) /\ Has(Reader, left[Reader] \ {p})
  /\ Goto(Reader, "unregister")
  /\ UNCHANGED <<listVars, hooks, unloadVars, returnVars, trigLock, running,
                 unused, polls, flushing, told>>
-----------------------------------------------------------------------------
(* A command that waits: all of them hold _trig_lock while they do.        *)

aside == <<listVars, hooks, unloadVars, running, unused, threadVars, told>>

TakeTrigLock(w) ==
  /\ At(w, "idle") /\ trigLock = Nobody
  /\ trigLock' = w
  /\ Goto(w, "enter")
  /\ UNCHANGED <<aside, returnVars>>

EnterWait(w) ==
  /\ At(w, "enter")
  /\ waitActive' = TRUE
  /\ heard' = FALSE
  /\ Goto(w, "wait")
  /\ UNCHANGED <<aside, requested, trigLock>>

ConsumeReturnRequest(w) ==
  /\ At(w, "wait") /\ requested
  /\ requested' = FALSE
  /\ Goto(w, "returns")
  /\ UNCHANGED <<aside, waitActive, heard, trigLock>>

\* A match, a timeout, the end of the session, a cancelled request.
OtherReason(w) ==
  /\ At(w, "wait")
  /\ Goto(w, "exit")
  /\ UNCHANGED <<aside, returnVars, trigLock>>

\* Mutant of ExitWait: a request nobody consumed is left.
ExitWaitKeepsRequest(w) ==
  /\ pc[w] \in {"returns", "exit"}
  /\ waitActive' = FALSE
  /\ Goto(w, "release")
  /\ UNCHANGED <<aside, requested, heard, trigLock>>

ExitWait(w) ==
  /\ pc[w] \in {"returns", "exit"}
  /\ waitActive' = FALSE
  /\ requested' = FALSE
  /\ Goto(w, "release")
  /\ UNCHANGED <<aside, heard, trigLock>>

FreeTrigLock(w) ==
  /\ At(w, "release")
  /\ trigLock' = Nobody
  /\ Goto(w, "idle")
  /\ UNCHANGED <<aside, returnVars>>
-----------------------------------------------------------------------------
HandlerStep(h) ==
  \/ Instantiate(h) \/ Attach(h) \/ Register(h) \/ OnAttach(h)
  \/ Detach(h) \/ HandleCommand(h)

ThreadStep(t) ==
  \/ Dispatch(t) \/ CallHook(t) \/ ChainOver(t)
  \/ Flush(t) \/ ClearPending(t) \/ TakePending(t) \/ Unload(t) \/ FlushOver(t)
  \/ Unregister(t) \/ OnDetach(t)

WaiterStep(w) ==
  \/ TakeTrigLock(w) \/ EnterWait(w) \/ ConsumeReturnRequest(w)
  \/ OtherReason(w) \/ ExitWait(w) \/ FreeTrigLock(w)

Next ==
  \/ \E h \in Handlers : HandlerStep(h)
  \/ \E t \in Threads : ThreadStep(t)
  \/ \E w \in Waiters : WaiterStep(w)
  \/ PollTick \/ OnPoll \/ PollsOver
  \/ Stop \/ DetachAll \/ DetachNext

Spec == Init /\ [][Next]_vars
-----------------------------------------------------------------------------
ThreadPcs ==
  {"idle", "attach", "register", "attached", "unregister", "detached", "chain",
   "polls", "flush", "clear", "take", "unload", "ending"}
WaiterPcs == {"idle", "enter", "wait", "returns", "exit", "release"}

\* The type of the state: what the list, the chains and the requests hold,
\* and at which step each thread can be.
TypeOK ==
  /\ plugins \subseteq Instances /\ joined \subseteq Instances
  /\ hooks \subseteq Instances /\ pending \subseteq Instances
  /\ unused \subseteq Instances /\ polls \subseteq Instances
  /\ {unloadPending, waitActive, requested, heard, running} \subseteq BOOLEAN
  /\ trigLock \in Waiters \cup {Nobody}
  /\ pc \in [Threads \cup Waiters -> ThreadPcs \cup WaiterPcs]
  /\ inst \in [Threads -> Instances \cup {Nobody}]
  /\ left \in [Threads -> SUBSET Instances]
  /\ flushing \in [Threads -> BOOLEAN]
  /\ told \in [Instances -> Nat]

\* No thread forgets an unload: while a plugin waits for its own (self_unload),
\* the Event that makes the next end of a chain look at the list is set, or a
\* thread has cleared it and not taken the list yet.
UnloadNotForgotten ==
  pending # {} => unloadPending \/ \E t \in Threads : At(t, "take")

\* A plugin in the list has its hooks called (attach, detach): it is in the
\* chains, or the thread that attached it is about to put it there, whatever
\* instances of the same plugin were attached and detached meanwhile.
AttachedIsHooked ==
  \A p \in plugins :
    p \in hooks \/ \E h \in Handlers : At(h, "register") /\ inst[h] = p

\* A thread has an instance in hand to detach it.
InHand(t, p) ==
  \/ pc[t] \in {"unregister", "detached"} /\ inst[t] = p
  \/ t = Reader /\ pc[t] \in {"ending", "unregister", "detached"}
                 /\ ~ flushing[t] /\ p \in left[t]
Detaching(p) == {t \in Threads : InHand(t, p)}

\* on_detach is called once for each instance that was attached, and only when
\* it has left the list, however many threads detach it, flush its unload and
\* end the session (detach, detach_all): an instance is in the list, or in the
\* hands of one thread that detaches it, or has been told.
DetachedOnce ==
  \A p \in joined :
    \/ p \in plugins /\ Detaching(p) = {} /\ told[p] = 0
    \/ p \notin plugins /\ (\E t \in Threads : Detaching(p) = {t}) /\ told[p] = 0
    \/ p \notin plugins /\ Detaching(p) = {} /\ told[p] = 1

\* A command that returns because a plugin asked for it (request_return) does so
\* for a request made since it began to wait, not for one that an earlier
\* command was too late to see.
ReturnIsOwn ==
  \A w \in Waiters : At(w, "returns") => heard
-----------------------------------------------------------------------------
(* What the docs say and the code does not do: see the README.             *)

\* A plugin out of the list has no hooks left in the chains (unregister:
\* removes all hooks of the plugin) when no thread is at work on it.
DetachedIsUnhooked ==
  \A p \in hooks :
    p \in plugins \/ \E t \in Threads : pc[t] # "idle" /\ (inst[t] = p \/ p \in left[t])

\* A session that has ended has no plugins (detach_all: called at the end of
\* the session, all plugins are detached).
EndedHasNoPlugins == At(Reader, "ending") => plugins = {}
=============================================================================
