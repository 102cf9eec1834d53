-------------------------- MODULE SessionLifecycle --------------------------
(***************************************************************************)
(* The life of sessions in the daemon: the manager's registry              *)
(* (src/session/manager.py), the session's start, stop, holds and release  *)
(* (session.py), and the threads that run them: one creating handler, one  *)
(* reader thread and one stopper thread per session, killers that remove   *)
(* sessions by id, and handlers that look a session up, hold it and use    *)
(* its buffers.  The manager's lock and the hold condition make their      *)
(* blocks single steps; everything between two blocks interleaves.         *)
(*                                                                         *)
(* "Using" a session whose components were released is the AttributeError  *)
(* on None of the code: the step is recorded in "faults" and the thread    *)
(* takes the path of the exception.                                        *)
(***************************************************************************)
EXTENDS Integers, FiniteSets

CONSTANTS
  Uids,           \* sessions that may be created, by uid
  Sids,           \* the ids clients name them by
  SidOf,          \* the id each is created under
  MaxSessions,    \* MAX_SESSIONS
  Killers,        \* threads that run remove_session (kill, stop_all, web)
  Handlers,       \* threads that look up and hold a session (read, send, attend)
  NaturalPoll,    \* poll_natural_exit runs (monitor thread, wait loops)
  EofOnExit,      \* the reader sees EOF when the child exits (Unix pty);
                  \* FALSE: only when the pty is closed (Windows ConPTY)
  KillDuringCreate, \* a kill may arrive before create_session returns
  JoinMayTimeOut,   \* Threads.stop may give up waiting for the reader
  MaySkipHold       \* some requests create a session and never hold it

None == "none"

ASSUME LifecycleAssumption ==
  /\ SidOf \in [Uids -> Sids]
  /\ MaxSessions \in Nat
  /\ {NaturalPoll, EofOnExit, KillDuringCreate, JoinMayTimeOut, MaySkipHold} \subseteq BOOLEAN
  /\ None \notin Uids \cup Sids
  /\ Killers \cap Handlers = {}
  /\ (Killers \cup Handlers) \cap ({"creator", "reader", "stopper"} \X Uids) = {}

Creator(u) == <<"creator", u>>
Reader(u)  == <<"reader", u>>
Stopper(u) == <<"stopper", u>>
Creators == {Creator(u) : u \in Uids}
Readers  == {Reader(u) : u \in Uids}
Stoppers == {Stopper(u) : u \in Uids}
Clients  == Killers \cup Handlers
Actors   == Creators \cup Readers \cup Stoppers \cup Clients

VARIABLES
  sessions,     \* uids in manager._sessions
  sidIndex,     \* manager._sid_index
  pc,           \* where each actor is
  on,           \* the session each actor works on
  child,        \* the child process: "none", "alive" or "dead"
  ptyOpen,      \* session._pty is not None
  running,      \* session.running
  stopEvent,    \* Threads._stop_event
  stopStarted,  \* _stop_started
  stopFinished, \* _stop_finished
  exitKnown,    \* exit_code is not None
  holdCount,    \* _hold_count
  creationHold, \* _creation_hold
  pending,      \* _release_pending
  released,     \* the components were set to None
  archives,     \* times the session was archived (history)
  inTime,       \* holders that acquired before release was decided (history)
  faults        \* <<actor, uid>> that touched a released component (history)

registryVars == <<sessions, sidIndex>>
procVars == <<child, ptyOpen>>
flagVars == <<running, stopEvent, stopStarted, stopFinished, exitKnown>>
holdVars == <<holdCount, creationHold, pending, released, inTime>>
vars == <<registryVars, pc, on, procVars, flagVars, holdVars, archives, faults>>

\* The steps of Session.stop between its reentrancy check and its end.
StopBody == {"exitinfo", "kill", "join", "finish"}
CreatorPcs == {"new", "registered", "hooked", "preheld", "opened", "returned", "failed", "unhold"}
HolderPcs == {"holding", "freeing"}
EndPcs == {"exiting", "claim", "stop", "archive", "release", "freeing", "done"}
Pcs == {"idle", "loop", "found"} \cup CreatorPcs \cup HolderPcs \cup StopBody \cup EndPcs

Init ==
  /\ sessions = {}
  /\ sidIndex = [s \in Sids |-> None]
  /\ pc = [a \in Actors |-> IF a \in Creators THEN "new" ELSE "idle"]
  /\ on = [a \in Actors |-> IF a \in Clients THEN None ELSE a[2]]
  /\ child = [u \in Uids |-> "none"]
  /\ ptyOpen = [u \in Uids |-> FALSE]
  /\ running = [u \in Uids |-> FALSE]
  /\ stopEvent = [u \in Uids |-> FALSE]
  /\ stopStarted = [u \in Uids |-> FALSE]
  /\ stopFinished = [u \in Uids |-> FALSE]
  /\ exitKnown = [u \in Uids |-> FALSE]
  /\ holdCount = [u \in Uids |-> 0]
  /\ creationHold = [u \in Uids |-> FALSE]
  /\ pending = [u \in Uids |-> FALSE]
  /\ released = [u \in Uids |-> FALSE]
  /\ archives = [u \in Uids |-> 0]
  /\ inTime = {}
  /\ faults = {}

Goto(a, l) == pc' = [pc EXCEPT ![a] = l]

\* An access to a component of u by a: a fault once the components are gone.
Touch(a, u) == faults' = IF released[u] THEN faults \cup {<<a, u>>} ELSE faults
-----------------------------------------------------------------------------
(* Creation (SessionManager.create_session, Session.start).                *)

\* Under the manager's lock: the id must be free and the table not full.
Register(u) ==
  LET c == Creator(u) s == SidOf[u] IN
  /\ pc[c] = "new"
  /\ sidIndex[s] = None
  /\ Cardinality(sessions) < MaxSessions
  /\ sessions' = sessions \cup {u}
  /\ sidIndex' = [sidIndex EXCEPT ![s] = u]
  /\ Goto(c, "registered")
  /\ UNCHANGED <<on, procVars, flagVars, holdVars, archives, faults>>

\* The end callback is added to the publisher.  The exception of a session
\* that a kill has released already leaves create_session.
AddEndCallback(u) ==
  /\ pc[Creator(u)] = "registered"
  /\ Touch(Creator(u), u)
  /\ Goto(Creator(u), IF released[u] THEN "done" ELSE "hooked")
  /\ UNCHANGED <<registryVars, on, procVars, flagVars, holdVars, archives>>

\* Mutant of PreHold: the flag is set and the count is not.
PreHoldUncounted(u) ==
  /\ pc[Creator(u)] = "hooked"
  /\ creationHold' = [creationHold EXCEPT ![u] = TRUE]
  /\ Goto(Creator(u), "preheld")
  /\ UNCHANGED <<registryVars, on, procVars, flagVars, holdCount, pending, released, inTime,
                 archives, faults>>

PreHold(u) ==
  /\ pc[Creator(u)] = "hooked"
  /\ creationHold' = [creationHold EXCEPT ![u] = TRUE]
  /\ holdCount' = [holdCount EXCEPT ![u] = @ + 1]
  /\ Goto(Creator(u), "preheld")
  /\ UNCHANGED <<registryVars, on, procVars, flagVars, pending, released, inTime,
                 archives, faults>>

\* start(): the stop flags are reset and the backend is created, or fails.
OpenPty(u) ==
  LET c == Creator(u) IN
  /\ pc[c] = "preheld"
  /\ stopStarted' = [stopStarted EXCEPT ![u] = FALSE]
  /\ stopFinished' = [stopFinished EXCEPT ![u] = FALSE]
  /\ \/ /\ child' = [child EXCEPT ![u] = "alive"]
        /\ ptyOpen' = [ptyOpen EXCEPT ![u] = TRUE]
        /\ Goto(c, "opened")
        /\ UNCHANGED running
     \/ /\ running' = [running EXCEPT ![u] = FALSE]
        /\ Goto(c, "failed")
        /\ UNCHANGED procVars
  /\ UNCHANGED <<registryVars, on, stopEvent, exitKnown, holdVars, archives, faults>>

\* The rest of start(): components are cleared, running is set, the threads
\* start.  On released components it raises instead.
Launch(u) ==
  LET c == Creator(u) IN
  /\ pc[c] = "opened"
  /\ Touch(c, u)
  /\ IF released[u]
     THEN /\ Goto(c, "failed")
          /\ UNCHANGED <<running, stopEvent>>
     ELSE /\ running' = [running EXCEPT ![u] = TRUE]
          /\ stopEvent' = [stopEvent EXCEPT ![u] = FALSE]
          /\ pc' = [pc EXCEPT ![c] = "returned", ![Reader(u)] = "loop"]
  /\ UNCHANGED <<registryVars, on, procVars, stopStarted, stopFinished, exitKnown,
                 holdVars, archives>>
\* Mutant of Unregister: the id index is forgotten.
UnregisterKeepsId(u) == sessions' = sessions \ {u} /\ UNCHANGED sidIndex

\* start failed: the tombstone is removed under the lock, then stop() runs.
Unregister(u) ==
  /\ sessions' = sessions \ {u}
  /\ sidIndex' = [s \in Sids |-> IF sidIndex[s] = u THEN None ELSE sidIndex[s]]

CreateFailed(u) ==
  /\ pc[Creator(u)] = "failed"
  /\ Unregister(u)
  /\ Goto(Creator(u), "stop")
  /\ UNCHANGED <<on, procVars, flagVars, holdVars, archives, faults>>

\* release_creation_hold, after the stop of a failed creation.
ReleaseCreationHold(u) ==
  LET c == Creator(u)
      free == holdCount[u] = 1 /\ pending[u]
  IN
  /\ pc[c] = "unhold"
  /\ IF creationHold[u]
     THEN /\ creationHold' = [creationHold EXCEPT ![u] = FALSE]
          /\ holdCount' = [holdCount EXCEPT ![u] = @ - 1]
          /\ pending' = [pending EXCEPT ![u] = IF free THEN FALSE ELSE @]
          /\ Goto(c, IF free THEN "freeing" ELSE "done")
     ELSE /\ Goto(c, "done")
          /\ UNCHANGED <<creationHold, holdCount, pending>>
  /\ UNCHANGED <<registryVars, on, procVars, flagVars, released, inTime, archives, faults>>
-----------------------------------------------------------------------------
(* Holding (Session.acquire_hold, release_hold, _do_release).              *)

\* The creating handler enters its hold; another handler may have consumed
\* the creation hold before it.
AcquireHold(a) ==
  LET u == on[a] IN
  /\ pc[a] = IF a \in Creators THEN "returned" ELSE "found"
  /\ IF creationHold[u]
     THEN /\ creationHold' = [creationHold EXCEPT ![u] = FALSE]
          /\ UNCHANGED holdCount
     ELSE /\ holdCount' = [holdCount EXCEPT ![u] = @ + 1]
          /\ UNCHANGED creationHold
  /\ inTime' = IF released[u] \/ \E b \in Actors : on[b] = u /\ pc[b] = "freeing"
               THEN inTime ELSE inTime \cup {a}
  /\ Goto(a, "holding")
  /\ UNCHANGED <<registryVars, on, procVars, flagVars, pending, released, archives, faults>>

\* A request that creates a session and never holds it: a web creation, a
\* sub-agent's exec, a notify request refused after the creation.
SkipHold(u) ==
  /\ MaySkipHold
  /\ pc[Creator(u)] = "returned"
  /\ Goto(Creator(u), "done")
  /\ UNCHANGED <<registryVars, on, procVars, flagVars, holdVars, archives, faults>>

\* The handler reads buffers or waits while it holds, any number of times.
Use(a) ==
  /\ pc[a] = "holding"
  /\ Touch(a, on[a])
  /\ UNCHANGED <<registryVars, pc, on, procVars, flagVars, holdVars, archives>>

\* Leaving the hold decides the release under the condition ...
ReleaseHold(a) ==
  LET u == on[a]
      free == holdCount[u] = 1 /\ pending[u]
  IN
  /\ pc[a] = "holding"
  /\ holdCount' = [holdCount EXCEPT ![u] = @ - 1]
  /\ pending' = [pending EXCEPT ![u] = IF free THEN FALSE ELSE @]
  /\ inTime' = inTime \ {a}
  /\ Goto(a, IF free THEN "freeing" ELSE IF a \in Creators THEN "done" ELSE "idle")
  /\ UNCHANGED <<registryVars, on, procVars, flagVars, creationHold, released, archives, faults>>

\* ... and carries it out after leaving it.
DoRelease(a) ==
  /\ pc[a] = "freeing"
  /\ released' = [released EXCEPT ![on[a]] = TRUE]
  /\ Goto(a, IF a \in Clients THEN "idle" ELSE "done")
  /\ UNCHANGED <<registryVars, on, procVars, flagVars, holdCount, creationHold, pending,
                 inTime, archives, faults>>

\* A handler finds a session by id (or by uid); it holds it some time later.
Lookup(h, u) ==
  /\ pc[h] = "idle"
  /\ u \in sessions
  /\ on' = [on EXCEPT ![h] = u]
  /\ Goto(h, "found")
  /\ UNCHANGED <<registryVars, procVars, flagVars, holdVars, archives, faults>>
-----------------------------------------------------------------------------
(* The child, and the reader thread (Threads._reader_loop,                 *)
(* EventsMixin._on_reader_exit, SessionManager._on_session_ended).         *)

ChildExits(u) ==
  /\ child[u] = "alive"
  /\ child' = [child EXCEPT ![u] = "dead"]
  /\ UNCHANGED <<registryVars, pc, on, ptyOpen, flagVars, holdVars, archives, faults>>

\* The blocking read returns nothing: EOF, or the pty was closed.
ReaderLeaves(u) ==
  /\ pc[Reader(u)] = "loop"
  /\ ~ ptyOpen[u] \/ (child[u] = "dead" /\ EofOnExit)
  /\ Goto(Reader(u), "exiting")
  /\ UNCHANGED <<registryVars, on, procVars, flagVars, holdVars, archives, faults>>

\* A read returned data and the loop condition sees the stop event.
ReaderSeesStop(u) ==
  /\ pc[Reader(u)] = "loop"
  /\ stopEvent[u]
  /\ Goto(Reader(u), "exiting")
  /\ UNCHANGED <<registryVars, on, procVars, flagVars, holdVars, archives, faults>>

\* _on_reader_exit: the exit code if the child has one, running off, then the
\* end callbacks; the reader's exception handler swallows a fault.
ReaderExit(u) ==
  LET r == Reader(u) IN
  /\ pc[r] = "exiting"
  /\ exitKnown' = [exitKnown EXCEPT ![u] = @ \/ child[u] = "dead"]
  /\ running' = [running EXCEPT ![u] = FALSE]
  /\ Touch(r, u)
  /\ Goto(r, IF released[u] THEN "done" ELSE "claim")
  /\ UNCHANGED <<registryVars, on, procVars, stopEvent, stopStarted, stopFinished,
                 holdVars, archives>>
\* Mutant of ReaderClaims: the reader does not ask whether a killer was first.
ReaderClaimsAlways(u) ==
  /\ pc[Reader(u)] = "claim"
  /\ Unregister(u)
  /\ Goto(Reader(u), "stop")
  /\ UNCHANGED <<on, procVars, flagVars, holdVars, archives, faults>>

\* _on_session_ended under the lock: whoever unregisters the session owns
\* its end; if it is gone already, a killer does.
ReaderClaims(u) ==
  LET r == Reader(u) IN
  /\ pc[r] = "claim"
  /\ IF u \in sessions
     THEN Unregister(u) /\ Goto(r, "stop")
     ELSE Goto(r, "done") /\ UNCHANGED registryVars
  /\ UNCHANGED <<on, procVars, flagVars, holdVars, archives, faults>>

\* poll_natural_exit -> _on_all_processes_exited: a thread that runs stop().
\* A second thread would return from stop() at once, so one is enough.
SpawnStopper(u) ==
  /\ NaturalPoll
  /\ running[u] /\ ptyOpen[u] /\ child[u] = "dead"
  /\ pc[Stopper(u)] = "idle"
  /\ Goto(Stopper(u), "stop")
  /\ UNCHANGED <<registryVars, on, procVars, flagVars, holdVars, archives, faults>>
\* Mutant of KillerClaims: the session is archived without being stopped.
KillerClaimsNoStop(k, u) ==
  /\ pc[k] = "idle"
  /\ u \in sessions
  /\ KillDuringCreate \/ pc[Creator(u)] \in {"returned", "holding", "freeing", "done"}
  /\ on' = [on EXCEPT ![k] = u]
  /\ Unregister(u)
  /\ Goto(k, "archive")
  /\ UNCHANGED <<procVars, flagVars, holdVars, archives, faults>>

\* remove_session: lookup and removal in one block of the lock.
KillerClaims(k, u) ==
  /\ pc[k] = "idle"
  /\ u \in sessions
  /\ KillDuringCreate \/ pc[Creator(u)] \in {"returned", "holding", "freeing", "done"}
  /\ on' = [on EXCEPT ![k] = u]
  /\ Unregister(u)
  /\ Goto(k, "stop")
  /\ UNCHANGED <<procVars, flagVars, holdVars, archives, faults>>
-----------------------------------------------------------------------------
(* Session.stop, run by readers, stoppers, killers and failed creators.    *)

AfterStop(a) ==
  CASE a \in Creators -> "unhold"
    [] a \in Stoppers -> "done"
    [] OTHER          -> "archive"

\* The first caller marks the stop, clears running and signals the threads;
\* later callers return.  There is no lock, but no call either between the
\* test and the assignment of _stop_started: CPython 3.11, which the project
\* is built with, does not switch threads there.
StopBegins(a) ==
  LET u == on[a] IN
  /\ pc[a] = "stop"
  /\ IF stopStarted[u]
     THEN /\ Goto(a, AfterStop(a))
          /\ UNCHANGED <<stopStarted, running, stopEvent, faults>>
     ELSE /\ stopStarted' = [stopStarted EXCEPT ![u] = TRUE]
          /\ running' = [running EXCEPT ![u] = FALSE]
          /\ Touch(a, u)
          /\ IF released[u]
             THEN Goto(a, AfterStop(a)) /\ UNCHANGED stopEvent
             ELSE Goto(a, "exitinfo") /\ stopEvent' = [stopEvent EXCEPT ![u] = TRUE]
  /\ UNCHANGED <<registryVars, on, procVars, stopFinished, exitKnown, holdVars, archives>>

\* _update_exit_info: the code of a dead child, none of one still alive.
StopExitInfo(a) ==
  LET u == on[a] IN
  /\ pc[a] = "exitinfo"
  /\ exitKnown' = [exitKnown EXCEPT ![u] = @ \/ (ptyOpen[u] /\ child[u] = "dead")]
  /\ Goto(a, "kill")
  /\ UNCHANGED <<registryVars, on, procVars, running, stopEvent, stopStarted, stopFinished,
                 holdVars, archives, faults>>
\* Mutant of StopKills: the pty of a child that is already dead stays open.
StopKillsLeavesPty(a) ==
  LET u == on[a] IN
  /\ pc[a] = "kill"
  /\ child' = [child EXCEPT ![u] = IF @ = "alive" THEN "dead" ELSE @]
  /\ ptyOpen' = [ptyOpen EXCEPT ![u] = child[u] = "dead"]
  /\ Goto(a, "join")
  /\ UNCHANGED <<registryVars, on, flagVars, holdVars, archives, faults>>

\* kill_tree and pty.close.
StopKills(a) ==
  LET u == on[a] IN
  /\ pc[a] = "kill"
  /\ child' = [child EXCEPT ![u] = IF @ = "alive" THEN "dead" ELSE @]
  /\ ptyOpen' = [ptyOpen EXCEPT ![u] = FALSE]
  /\ Goto(a, "join")
  /\ UNCHANGED <<registryVars, on, flagVars, holdVars, archives, faults>>
\* Threads.stop joins the reader, except from the reader itself.
StopJoins(a) ==
  LET u == on[a] IN
  /\ pc[a] = "join"
  /\ \/ a = Reader(u)
     \/ pc[Reader(u)] \in {"idle", "done"}
     \/ JoinMayTimeOut
  /\ Goto(a, "finish")
  /\ UNCHANGED <<registryVars, on, procVars, flagVars, holdVars, archives, faults>>

StopFinishes(a) ==
  /\ pc[a] = "finish"
  /\ stopFinished' = [stopFinished EXCEPT ![on[a]] = TRUE]
  /\ Goto(a, AfterStop(a))
  /\ UNCHANGED <<registryVars, on, procVars, running, stopEvent, stopStarted, exitKnown,
                 holdVars, archives, faults>>

\* archive_session and the removed callback.
Archive(a) ==
  LET u == on[a] IN
  /\ pc[a] = "archive"
  /\ archives' = [archives EXCEPT ![u] = @ + 1]
  /\ Touch(a, u)
  /\ Goto(a, "release")
  /\ UNCHANGED <<registryVars, on, procVars, flagVars, holdVars>>
\* Mutant of ReleaseComponents: a held session is not marked for later release.
ReleaseComponentsForgets(a) ==
  LET u == on[a] IN
  /\ pc[a] = "release"
  /\ Goto(a, IF stopFinished[u] /\ holdCount[u] = 0 THEN "freeing"
             ELSE IF a \in Killers THEN "idle" ELSE "done")
  /\ UNCHANGED <<registryVars, on, procVars, flagVars, holdVars, archives, faults>>

\* release_components: nothing before the stop has finished, pending while held.
ReleaseComponents(a) ==
  LET u == on[a]
      rest == IF a \in Killers THEN "idle" ELSE "done"
  IN
  /\ pc[a] = "release"
  /\ IF ~ stopFinished[u]
     THEN Goto(a, rest) /\ UNCHANGED pending
     ELSE /\ pending' = [pending EXCEPT ![u] = holdCount[u] > 0]
          /\ Goto(a, IF holdCount[u] > 0 THEN rest ELSE "freeing")
  /\ UNCHANGED <<registryVars, on, procVars, flagVars, holdCount, creationHold, released,
                 inTime, archives, faults>>
-----------------------------------------------------------------------------
Creation(u) ==
  \/ Register(u) \/ AddEndCallback(u) \/ PreHold(u) \/ OpenPty(u) \/ Launch(u)
  \/ CreateFailed(u) \/ ReleaseCreationHold(u) \/ SkipHold(u)

ReaderThread(u) == ReaderLeaves(u) \/ ReaderExit(u) \/ ReaderClaims(u)

Stop(a) ==
  \/ StopBegins(a) \/ StopExitInfo(a) \/ StopKills(a) \/ StopJoins(a) \/ StopFinishes(a)
  \/ Archive(a) \/ ReleaseComponents(a) \/ DoRelease(a)

Holding(a) == AcquireHold(a) \/ Use(a) \/ ReleaseHold(a)

\* Every creation was refused or made, every thread is at rest.
Quiescent ==
  /\ \A a \in Actors : pc[a] \in {"new", "idle", "done"}
  /\ UNCHANGED vars

Next ==
  \/ \E u \in Uids : Creation(u) \/ ChildExits(u) \/ ReaderThread(u) \/ ReaderSeesStop(u) \/ SpawnStopper(u)
  \/ \E k \in Killers, u \in Uids : KillerClaims(k, u)
  \/ \E h \in Handlers, u \in Uids : Lookup(h, u)
  \/ \E a \in Creators \cup Handlers : Holding(a)
  \/ \E a \in Actors : Stop(a)
  \/ Quiescent

Spec == Init /\ [][Next]_vars

\* Threads run once started: the operating system schedules them.  Nothing
\* forces a client to create, look up or kill, nor a child to exit.
Fairness ==
  /\ \A u \in Uids : /\ WF_vars(AddEndCallback(u)) /\ WF_vars(PreHold(u)) /\ WF_vars(OpenPty(u)) /\ WF_vars(Launch(u))
                     /\ WF_vars(CreateFailed(u)) /\ WF_vars(ReleaseCreationHold(u))
                     /\ WF_vars(ReaderThread(u)) /\ WF_vars(SpawnStopper(u))
  /\ \A a \in Actors : WF_vars(Stop(a))
  /\ \A a \in Creators \cup Handlers : WF_vars(AcquireHold(a)) /\ WF_vars(ReleaseHold(a))

FairSpec == Spec /\ Fairness
-----------------------------------------------------------------------------
TypeOK ==
  /\ sessions \subseteq Uids
  /\ sidIndex \in [Sids -> Uids \cup {None}]
  /\ pc \in [Actors -> Pcs]
  /\ on \in [Actors -> Uids \cup {None}]
  /\ child \in [Uids -> {"none", "alive", "dead"}]
  /\ {ptyOpen, running, stopEvent, stopStarted, stopFinished, exitKnown, creationHold,
      pending, released} \subseteq [Uids -> BOOLEAN]
  /\ holdCount \in [Uids -> Nat]
  /\ archives \in [Uids -> Nat]
  /\ inTime \subseteq Actors
  /\ faults \subseteq Actors \X Uids

\* The two tables of the registry agree: an id names a registered session,
\* and every registered session is the one its id names, although ids are
\* reused and three paths unregister (manager.py, _sid_index).
RegistryConsistent ==
  \A u \in Uids, s \in Sids : sidIndex[s] = u <=> u \in sessions /\ SidOf[u] = s

\* However its end is found out (EOF, poll, kill), a session is archived at
\* most once and only after it left the registry (manager.py,
\* _on_session_ended and remove_session).
ArchivedOnce ==
  \A u \in Uids : archives[u] <= 1 /\ (archives[u] = 1 => u \notin sessions)

\* A session with a running child is one that a client can name, or one that
\* some thread is busy ending: no child is orphaned in the daemon
\* (manager.py, remove_session: "remove and stop the session").
NoOrphan ==
  \A u \in Uids :
    running[u] /\ child[u] = "alive" =>
      \/ u \in sessions
      \/ \E a \in Actors : on[a] = u /\ pc[a] \in {"stop"} \cup StopBody

\* Components are released only after every step of the stop that uses them
\* (session.py, release_components and _stop_finished).
ReleasedAfterStop ==
  \A u \in Uids : released[u] =>
    ~ \E a \in Actors : on[a] = u /\ pc[a] \in StopBody \cup {"archive"}

\* No thread reaches a component that was set to None (session.py,
\* _do_release: "a handler can no longer reach this object").
NoUseAfterRelease == faults = {}

\* The hold count is the number of holders, plus one while the creation hold
\* has not been handed over (session.py, acquire_hold and release_hold).
HoldCountExact ==
  \A u \in Uids :
    holdCount[u] = Cardinality({a \in Actors : on[a] = u /\ pc[a] = "holding"})
                   + (IF creationHold[u] THEN 1 ELSE 0)

\* A holder that entered before the release was decided keeps the components
\* until it leaves (session.py, hold).
HoldersProtected == \A a \in inTime : ~ released[on[a]]

\* A session that its own reader archives has its exit code by then, although
\* the reader may leave because another thread stops the session (manager.py,
\* _on_session_ended and remove_session: archiving comes after stop).
ReaderArchivesWithCode ==
  [][\A u \in Uids :
       archives'[u] > archives[u] /\ pc'[Reader(u)] # pc[Reader(u)] => exitKnown[u]]_vars

\* When the child of a running session is dead, the session ends: it is
\* archived, and not stuck with threads that wait for each other.
EndedIsArchived ==
  \A u \in Uids : (running[u] /\ child[u] = "dead") ~> (archives[u] = 1)

\* A stop that began finishes, although it joins a thread that may itself be
\* waiting to stop the session (session.py, stop; threads.py, stop).
StopCompletes == \A u \in Uids : stopStarted[u] ~> stopFinished[u]

\* A release that is asked for after the stop has finished is carried out, at
\* the latest by the last holder that leaves (session.py, release_hold).
ReleaseHonoured ==
  \A u \in Uids :
    (stopFinished[u] /\ \E a \in Actors : on[a] = u /\ pc[a] = "release") ~> released[u]

\* The large buffers of a session that was archived are given back
\* (session.py, release_components: the initiator of the stop calls it).
ReleasedEventually == \A u \in Uids : (archives[u] = 1) ~> released[u]
=============================================================================
