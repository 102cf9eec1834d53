# PTY-Agent: TLA+ models, checks and proofs

PTY-Agent runs programs in pseudo-terminals for agents. A command-line client sends one
newline-delimited JSON request per connection to a daemon; the daemon keeps *sessions* (a child
process on a pty, the output it has written, a trigger a client waits for) and offers, beside
them, workflows, notifications, file transfer, a web interface and plugins. The code is Python
under `src/src`; paths below are relative to that directory unless they begin with `docs/` or
`SKILL.md`.

The daemon is a program of many threads and few locks: one thread per client connection, one
reader thread and one monitor thread per session, stopper threads, an engine thread and a pool
per workflow run, publisher threads. What is hard about it is in the interleavings, and that is
what these modules are about.

1. [Inventory](#1-inventory)
2. [Modules](#2-modules)
3. [Runs and what they show](#3-runs-and-what-they-show)
4. [Bounds](#4-bounds)
5. [Fairness](#5-fairness)
6. [Proofs](#6-proofs)
7. [Where the code and its documents disagree](#7-where-the-code-and-its-documents-disagree)
8. [What is not modelled](#8-what-is-not-modelled)
9. [Plan](#9-plan)

To repeat the work: `tlc -config X.cfg MCModule.tla` for each run of section 3 and
`tlapm M.tla` for each module `...Proofs` of section 6. The configurations that no run of section 3
names are those of section 7: each ends in a counterexample.

## 1. Inventory

**Output buffer and incremental delivery** (`session/buffer.py`, `session/output.py`,
`session/session.py`). State: the retained bytes, the absolute offset of the first one, a trim
generation; the session's consumption cursors for stdout and stderr. Operations: append (with
trimming beyond a soft cap), `read_stream` from an absolute offset, `stream_end`, the deliveries
of `read`, `exec`, `send` (incremental, full, by offset, query only), `advance_stdout_cursor`.
Hard: the buffer has a lock, the cursor has none, and a delivery takes the buffer lock twice.
Correct when: offsets name the same byte for ever, a delivery is a gap-free piece of the stream,
nothing is delivered twice or skipped, the cursor never passes the end.

**Session lifecycle** (`session/session.py`, `session/manager.py`, `session/threads.py`). State:
the registry and its id index, the child and the pty, the flags `running`, `_stop_event`,
`_stop_started`, `_stop_finished`, the hold count with the creation hold and `_release_pending`.
Operations: `create_session`, `start`, the reader loop, `poll_natural_exit`, `stop`,
`remove_session`, `hold`, `release_components`. Hard: a session can end in three ways at once (its
reader meets EOF, somebody polls the child, somebody kills it), the stop joins a thread that may
want to stop too, and the big buffers are given back by whoever leaves last. Correct when: it is
archived exactly once, no thread touches a released component, the hold count is exact, no child
is left behind, nobody waits for ever.

**Triggers and waiting** (`session/trigger_matcher.py`, `session/trigger.py`, `session/wait.py`,
`execution/execution.py`). State: the session's one matcher (pattern, start of the window, mode,
newline count), its rolling cache of what has been searched, `_trig_lock`. Operations: set, check
(by the reader after each append and by the setter), clear, the wait loop. Hard: the search runs
outside the lock on a copy, over a buffer that is trimmed meanwhile, and the lock that serialises
waiters is taken after the pattern is set. Correct when: a match is found wherever the output is
cut, a reported match is one, one waiter owns the matcher, a wait returns.

**Workflow engine** (`workflow/engine.py`, `workflow/runner.py`, `workflow/manager.py`). State: the
view the engine has of each step, in-degrees, the ready deque, the futures, the sessions in use,
the record that clients read, the cancel event. Operations: dispatch with conditions and
`on_error` policies, execution with retries, reaping, cancellation, the 30 s drain. Hard: engine,
workers and a cancelling client all write the record. Correct when: dependencies come first, one
step per session, the run ends once and accounts for every step.

**Notifications** (`daemon/notifications.py`, `daemon/handlers/wait_handler.py`, `dispatcher.py`).
State: the pending queue with a count and a cap per session, an archive, a socket pair that wakes
waiters. Operations: publish, consume everything, consume a session's, the `wait` command. Hard:
the bytes of the socket pair are written and read outside the lock. Correct when: a notification
is handed out at most once, disappears only by the two caps, and wakes a wait.

**Tokens and shared memory** (`auth/token`, `daemon/server.py`, `ipc/shm.py`). State: the current
token, the tokens the authenticator accepts with their deadlines, the file (on Windows the shared
memory) that publishes token and key. Operations: rotate (register, publish, roll back when that
fails), expire, read, purge. Hard: the file is truncated and then written, and clients read it at
any moment. Correct when: a token that was read from the file is accepted.

**Single instance and control** (`ipc/single_instance.py`, `daemon/lifecycle.py`,
`client/daemonctl.py`). State: one `flock`, one port, the daemon's `_shutdown_event` and
`_cleaned_up`. Operations: acquire, probe (on Unix: acquire and give back), start, stop, cleanup by
the main thread or the thread of a stop command, removal of the credentials by whoever ends. Hard:
several clients and daemons at once, and a process that ends while one of its threads works.
Correct when: at most one daemon serves, and one that ends has stopped its sessions.

**File transfer and file tools** (`files`, `client/transfer`). State: the two trees, the table of
transfers (size and modification times seen at the last one), the version history of text files.
Operations: scan, classify (transfer, skip, refuse), send, acknowledge, replace, record. Hard: the
judgement "the same" rests on times and sizes while users edit both sides, and connections and the
daemon fail between any two steps. Correct when: a file that is skipped is the same, what is reported
has landed, what the daemon read before it overwrote can be got back, both ends stop. The tools that
read, write, edit and search have no state but the read state of `files/state.py`.

**Web interface** (`web`, `session/publisher.py`). State: connections with what each is subscribed
to and holds, the callbacks of the publisher, the adaptive lock that says which user may resize a
session, in every browser tab a belief of who that is. Operations: create, subscribe, unsubscribe,
kill, push, resize, take over, and the cleanup of a connection. Hard: handlers run on an event loop
and give way at each await, output is pushed from reader threads, resizes run in a pool. Correct
when: a subscriber sees the output once, in order and without a gap, learns the end, gives back its
hold; the tabs agree with the server; the lock does not belong to somebody who is gone.

**Plugins** (`plugins`). State of a session's host: the list of instances, the hook chains, unloads
asked for with the Event that announces them, the flag that a command waits and the request that it
return. Operations: attach, detach, dispatch, poll, flush, request, detach all. Hard: two locks,
callbacks outside both, on reader, monitor and request threads. Correct when: `on_detach` comes once,
no unload is forgotten, a request to return ends the command it was made for and no other.

**Logging** (`logging`): a bounded queue that drops its oldest record. **Pty, process trackers,
sandbox** (`pty`, `process`, `sandbox`): calls into the operating system. **Terminal, input**
(`terminal`, `input`): a screen kept by an external library, key names to bytes. **Protocol,
client, command line** (`protocol`, `client`, `cli`): one request, one answer. **Password and key
authentication, TLS** (`auth`). **Remote desktop, screen sharing** (`vnc`, `screenshare`).
**Configuration, helpers** (`config`, `common`). **Bundled plugins and native tools**
(`config/plugins`, `src/bin`, `src/tools`, `src/web_rime`): programs of their own.

How they interact: a request handler calls an *execution flow*, which looks the session up in the
manager, holds it, sends input, sets the trigger, waits, reads from the output buffer and answers;
a `--notify` request does the same in a worker thread and publishes the answer as a notification.
Workflow steps run the same flows. The reader thread feeds the buffer, checks the trigger and
calls subscribers (web, plugins). `PROJECT.json` lists every component with its status, and the
hazards of this code at the line where each one bites.

## 2. Modules

| Module | Models | Composes |
|---|---|---|
| `OutputBuffer` | the trimmed buffer with absolute offsets | |
| `StreamWindow` | what a session promises its one incremental reader | |
| `OutputStream` | deliveries against the reader thread | extends `OutputBuffer`, implements `StreamWindow` |
| `TriggerWait` | matcher, cache, wait loop, trigger lock | extends `OutputBuffer` |
| `SessionLifecycle` | registry, start, end, stop, holds, release | |
| `Workflow` | engine, pool, canceller, record | |
| `Notifications` | queue, archive, socket pair, waits | |
| `DaemonControl` | lock, files, daemons, clients, rotation | |
| `SizeControl` | adaptive lock, tabs, resizes | |
| `WebSubscription` | connections of a session, reader, holds | |
| `FileTransfer` | upload and download with table and history | |
| `PluginHost` | plugins of a session | |
| `DeliveryProofs` | theorems | extends `OutputStream` and `WebSubscription` |
| `ExchangeProofs` | theorems | extends `Notifications` and `FileTransfer` |
| `TriggerWaitProofs`, `SessionLifecycleProofs`, `WorkflowProofs`, `DaemonControlProofs`, `PluginHostProofs`, `SizeControlProofs` | theorems | extend their module |
| `MC...` | instances for TLC | extend their module |

Two modules that one module of proofs extends share no name; that is why the specifications of
`WebSubscription` and `FileTransfer` have names of their own (`WebTypeOK`, `TransferSpec`).

**OutputBuffer.** A byte is its own position in the stream, so "the right byte" is an equation:
`buf[i] = trimBase + i - 1`. `AppendBytes(n)` is `append` with both of its branches (a chunk that
replaces the buffer, a chunk that makes it trim), `ReadStream(from)` is `read_stream` with its
clamping and its "dropped" answer, `StreamEnd` is `stream_end`.

**OutputStream.** A handler takes its base offset, reads, asks for the end, loads and stores the
cursor and answers: six steps, because each takes and drops the buffer lock or touches the session
without a lock. `Begin` distinguishes the five kinds of delivery the handlers make; `TakeEnd` is
the second acquisition of the lock in `get_output_with_offset`; `AdvanceLoad` and `AdvanceStore`
are the unlocked maximum of `advance_stdout_cursor`; `RespondFails` is a line filter that is
rejected after the cursor has advanced. `delivered` is a history variable.

**TriggerWait.** A pattern is known by the positions at which it matches; the module knows nothing
of regular expressions. The rolling cache is a position and a length, in indices of the *physical*
buffer as in the code, so that a trim moves the text under them. A check reads the buffer under
the lock, searches without it and commits under it: `check` is what it took along. The reader and a
setter can both be checking. `CountAtSet`, `ResetNewlines`, `CheckAtSet` are the steps of setting a
trigger on output that is already there.

**SessionLifecycle.** Actors are the creating handler, the reader and the stopper of each session,
killers, and handlers that hold. `pc` and `on` say where each one is and which session it has in
hand: the stale reference after a lookup is exactly what `on` keeps. A block under the manager's
lock or the hold condition is one step. Touching a component that has been set to `None` is the
`AttributeError` of the code: the step is recorded in `faults` and the thread goes the way of the
exception. Four constants say what platform and requests the run has: `EofOnExit` (a Unix pty gives
EOF when the child exits, ConPTY only when it is closed), `NaturalPoll` (polling of the child is
on), `KillDuringCreate` (a kill may come while the session is being created), `MaySkipHold` (some
requests, such as a sub-agent's `exec`, create a session and never take over its creation hold),
`JoinMayTimeOut` (the stop may give up on joining the reader). `_stop_started` is tested and set in
one step: in CPython 3.11, which the project's CI uses, the test and the store have no point at
which the interpreter switches threads between them.

**Workflow.** `state`, `inDegree`, `ready`, `submitted`, `busy`, `fatal` are the engine's own;
`future`, `attempts`, `verdict` are the pool's; `status` and `shown` are the record clients see. The
actions between `top`, `dispatch`, `check`, `wait` and `reap` follow `_schedule` statement by
statement where another thread can intervene. The order of the ready deque and of the pool's queue
is abstracted to a set: every order the code can take is among those of the model. A condition is
an evaluation that is true, false, an error the engine handles or an exception it does not. The
session field of a step is a text, a name or a template: `Session` is the text, which is what
`running_sessions` compares; `Target` is the session the step works on once the field is rendered.

**Notifications.** One lock protects queue, archive and counts: each operation under it is one
step; writing and draining the socket pair are steps of their own, as is `select`. A notification is
its position in `published`, so the queue, in which the order of publication is kept, is a set of
positions. `Close` is the end of the daemon: a wait in `select` returns, and later bytes go nowhere.
`given` and `published` are history variables.

**DaemonControl.** A process that can be started is a daemon, one that gives commands a client.
`main`, `handler` and `rotator` are the places of a daemon's threads; each system call on the lock,
the port or a file is a step, so that the truncation and the writing of the token file are two. A
token is `<<daemon, number>>`, a key its daemon. `WhenFree` and `WhenLocked` are what each command
does after its probe. `Expire` is the end of a grace period; its guard says that the period outlasts
a publication and the time between a client's read and its request. `Kill` ends a process anywhere;
its lock and port go with it, its files stay.

**SizeControl.** A handler of the event loop is one step up to its await; `task` and `thread` are the
handler that awaits a resize and the pool thread in it. Messages about the lock set what a tab
believes, so a message is a belief; `up` and `down` are the two directions of a connection, in order.
`Tell` is a broadcast with its answer: any of the queues may be full and take nothing, since output,
which is not modelled, fills them too. A resize may fail at the terminal model or at the terminal,
and go on (the code passes these failures over) or raise, upon which the handler answers an error and
tells nobody (`FinishFailed`). A request for a fixed size without a size (`SetSizeless`) is refused
after the lock was given up. `Cleanup` is `_cleanup`, run when the connection is found closed
(`Leaves`) or the handler is cancelled at its await (`CutOff`). The tab's rules, which buttons it
offers, are those of `static/js`. `abandoned`, `untold` and `whole` record the cases the properties
except.

**WebSubscription.** The reader feeds the terminal model, takes the subscribers under the
publisher's lock and calls them outside it; the subscribe handler runs on the loop in five steps
(hold, snapshot, register for output, register for the end, reply), between which only the reader, the
pool thread of a kill and the thread that stops a session found without processes (`poller`) can act.
Whether to release the components is decided under the hold lock and done after it: `freeing` has the
threads in between, and `Free` is `_do_release`. A release asked for while the stop is not finished is
refused and not recorded; a step of the handler that needs a component that is gone ends in an error
(`Fails`). A stop waits for the reader as long as it takes; a join that times out is in
`SessionLifecycle`. `callback` numbers the closures, because a closure of an earlier
subscription may still be called. `Put` is the queue with its limit.

**FileTransfer.** A file is an id, a size and a time: the code sees the last two, the properties the
first. `cl` and `dm` are the two ends of a connection, `toD` and `toC` the frames under way; the frames
of one file travel as one. A plan is a set of files, of which both ends take the first in the order of
the scan (`First` and `Rest`, with `Place` as the order). Each end may be refused, fail with an I/O
error or lose the connection at each of its steps; the daemon may die. `History` and `Record` come after
the replacement, as in the code. `collided` records files that two writers changed in one another's
window; every property about contents excepts them, and section 7 says what happens to them.

**PluginHost.** A critical section of the host's lock or of the hook engine's is a step; callbacks
run between them. The monitor calls every `on_poll` that is due and flushes once after them, also
when none was (`PollsOver`). `attach` and `detach` are sequences of such steps by whichever thread
calls them: request threads, the reader and the monitor when they flush, the reader at the end.
`told`, `joined` and `heard` are history variables.

## 3. Runs and what they show

Every property below has a mutant in `PROJECT.json`: a change of one definition, of the kind a bug
in that code would be, under which TLC finds the property violated.

A property that restates its code is in no run; some that the earlier ones rest on are defined in the
modules all the same (`TypeOK`, `RetentionBounds`, `CursorWithinStream`, `DeliveredBelowCursor`,
`DependencyCounts`, `HoldCountExact`, `HoldersProtected`, `ReleasedAfterStop`,
`ReaderArchivesWithCode`, `StopCompletes`, `OneDaemon`) and hold on these instances.

**`stream_one`** (`OutputStream_one.cfg`) runs every kind of stdout delivery of one client against
a reader that appends chunks of every size. `NoDrift`: the retained bytes are the bytes the stream
has at their offsets, after any number of trims. `ReadIsContiguous`: a delivery is a gap-free piece
of the stream that begins where it was asked to, unless it says that the start was trimmed.
`ImplementsWindow`: the session implements `StreamWindow`, a window that only moves forward and a
consumer that only moves forward in it, under the refinement `lo <- trimBase, hi <- StreamEnd, at <-
cursor`. It has one client, because with two the unlocked cursor can move back.

**`lifecycle_reuse`** creates two sessions under one id, one after the other, ended by EOF, by
polling and by a killer in any overlap. `RegistryConsistent`: session table and id index agree.
`ArchivedOnce`, `NoOrphan`, `NoUseAfterRelease` are what the flags and claims of `stop`,
`_on_session_ended` and `remove_session` are for. No handler holds and no kill comes during creation
here, because `Lifecycle_latehold.cfg` and `Lifecycle_orphan.cfg` show what these do (section 7).

**`lifecycle_one`** has one session with its creator, two handlers and a killer, on a platform
where the end is only found by polling. `EndedIsArchived` is about threads that wait for each other:
the stopper joins a reader that may want to stop the session itself. `ReleaseHonoured`: a release that
is asked for after the stop is carried out, at the latest by the last holder.

**`trigger_one`** has one client that waits twice with two patterns and with the newline condition
while output comes in chunks cut anywhere and is trimmed. `NoMissedMatch`: a match in the window is
reported, however it straddles chunks and checks, as long as the buffer was not trimmed during the
wait. `MatchIsReal`: a reported match is one, unless a check was under way when the pattern was set.
The two exceptions are real: after a trim the window's start, a position in the physical buffer,
names a later byte; and a check that was under way may commit what it found for its own pattern.
`WaitReturns`: every wait ends. It has one waiter, because the second overwrites the first one's
pattern (`Trigger_two.cfg`).

**`workflow_one`** has every acyclic graph of three steps under every combination of `on_error`
policies (those of the last step that matter), on one worker with a retry and on two workers, with
a condition, a session that two steps share, whose name one of them may write as a template, and a
client that may cancel. `DependenciesFirst`: a step is given to the pool only when no dependency is
open, in a worker's hands, failed or cancelled. That a failure stops the whole chain of dependents, as
the documentation says, is more than this and false: a step skipped for a failure lets its own
dependents run (`Workflow_chain.cfg`). `OneStepPerSession`: two steps in flight work on one session
only where the definition writes its name in two ways, which the engine cannot tell from two
sessions (`Workflow_shared.cfg`). `DoneMeansDone`: a run reported as done has nothing in flight, nothing
unaccounted for, no failure that was to end it. `AllAccounted`: when the engine is through, every
step has a final status; the two exceptions it states are steps given up after 30 s and steps left
behind by a condition that raises. `SettledStays`: the end of a step and of a run is written once.
`RunEnds`: the run always gets a final status.

**`notify_one`** has two publishers, two waits and a session command with more notifications than
the queue and the archive keep. `CountIsExact`: the count per session that decides about eviction is
the number pending. `NothingLost`: a notification is pending, handed out, or was displaced by
enough later ones of its session. `GivenOnce`: none is handed out twice.

**`daemon_one`** has two daemons and two clients that start, stop and call, with a rotation whose
publication may fail before or after the file is truncated, signals, and a process that is killed.
`FilesHaveOneOwner`: the main thread of a daemon writes and removes the files of the clients only
while no other daemon is between acquiring and releasing the lock, so that a daemon on its way out
does not take away what its successor has published. `TokensHonoured`: a published token is accepted
by its daemon while that lives, be it still in the file or in the hands of a client.
`StoppedOrBeingStopped`: a daemon that gives up the lock has stopped its sessions, or the thread of a
stop command is at it: the claim `_cleaned_up` is never left to nobody. That it may be at it and then
die with the process is `Daemon_unstopped.cfg`.

**`size_one`** has three tabs of two users, queues that may be full and resizes that may fail.
`BeliefAgrees`: with nothing on its way, every tab that shows the session believes of the lock what is
so. `untold` holds the tabs it excepts, until the next word that reaches them: the last one was
lost to a full queue; a request for a fixed size gave up the lock and then failed, was cut off or lacked
its size; the lock was taken while such a request awaited its resize. `OwnerHasConnection`: the owner of
the lock has a subscribed connection, unless an owner unsubscribed (`abandoned`). `ScreenIsTerminal`:
after a resize that ran alone and of which no part failed (`whole`), the terminal model has the size of
the terminal, whatever crossed or failed before. Section 7 has what happens in the excepted cases.

**`web_one`** has two connections, one of which creates the session, while output comes and the
session ends by itself, is found without processes or is killed. `PushedInOrder`: each chunk is pushed
to a connection once at most and in order, through subscriptions that come and go. `EndIsTold`: once
the end has been told, each connection that follows the session knows it. `NothingMissed`: replay and
pushed output make up the whole, except for a subscription made while the reader is between the model
and the subscribers. `ReleasedWhenLeft`: an ended session that nobody follows any more gives up its
components, except one that nobody ever held (`Web_leak.cfg`) and one whose release was refused because
the stop was not finished (`Web_refused.cfg`). `KeptWhileHeld`: from the decision to release on, nobody
holds the components but a connection that had looked the session up before and took its hold after
(`Web_late.cfg`).

**`transfer_one`** has three transfers of two files one after the other, in either direction, forced
or not, with an edit on either side, every refusal, lost connections and a death of the daemon.
`SkippedIsSame`: a file skipped as unchanged is the same on both sides. `ReportWithinOne`: what the
client reports and what has landed differ by the one file that was under way. `AckedIsRecoverable`:
of an acknowledged upload the history holds the text the daemon had read, and the one it wrote, unless
somebody else changed the file between its replacement and the end. An edit between the reading and
the replacement is lost (`Transfer_overwritten.cfg`). `TransferEnds`: both ends
stop, without the client's deadline.

**`plugin_one`** has two instances of one plugin, attached and detached by a request thread, by
flushes of reader and monitor and at the end of the session, and two commands that wait.
`UnloadNotForgotten`: an unload that was asked for is announced until a thread takes it, although
the Event is cleared outside the lock. `AttachedIsHooked`: what is in the list is in the chains.
`DetachedOnce`: an instance is in the list, or in the hands of one thread, or has been told.
`ReturnIsOwn`: a command that returns for a plugin was waiting when the plugin asked.

**`stream_lost`** ends in a counterexample, and is described in section 7 with the others.

## 4. Bounds

*Stream and trigger.* A buffer of 3 or 4 bytes with chunks of 1 to 3 has every case of `append`: a
chunk that fits, one that trims, one that crosses the soft cap from any fill. A stream of 8 bytes
(6 for triggers) lets the buffer be trimmed at least twice. The proofs of section 6 remove these
bounds for the stream. A match is two bytes wide and the overlap one: the least at which a match can
straddle two chunks and the overlap is just enough. In the code the overlap is 4096 bytes;
`TriggerAssumption` says what this takes for granted, that no match is longer than the overlap and
one byte. A scan limit of 4 in a stream of 6 makes windows end before the output does. Newlines are
before, inside and after the first possible match. Two waits per client let one wait meet what the
other left in the matcher and in the cache.

*Lifecycle.* One id and two sessions are what reuse takes. Two handlers are the least at which "the
last one to leave" is a race. One killer: a second one finds the session unregistered and does
nothing. `MaxSessions = 2` is never reached in these runs; the capacity check is in the model and
not what they are about. `JoinMayTimeOut` is FALSE: with it the stop may leave a reader behind by
design (the join has a time limit), and `EndedIsArchived` would have to exclude it.

*Workflow.* Three steps contain a chain, a fork, a join, a diamond's half and two independent steps;
a graph of three steps is acyclic exactly when its names can be ordered, so the definitions list
graphs along one order. The session written in two ways is on two workers only, where it matters. One
worker with a retry and two without cover a step that waits for a worker and two steps in flight;
both together add states and no step of the engine. Theorems of section 6 hold for any number of
steps and workers and any graph.

*Notifications.* A cap of 2 for the queue and for the archive with 4 notifications displaces from
both. Publishers, waits and sessions are interchangeable, which the run uses as a symmetry; it checks
no liveness property.

*Daemon.* Two daemons are the least of which both may want the lock; two clients with three commands
start one, stop it and start the next while another command is under way. One rotation can succeed,
fail at the opening and fail at the write, and one kill can fall anywhere. Section 6 has the three
properties for any numbers.

*Size.* Two tabs of one user are what it takes for a lock to be inherited, and the third tab is the
other user's. Two choices (of a mode, a size, a takeover) are one owner and one who disturbs; failures,
full queues, cut-off handlers and closed connections come on top of them and are not counted. The
queues need no length, since any of them may be full at any time. The two tabs of one user are a
symmetry.

*Web.* Two connections with two requests after the creation contain a subscription that ends and is
renewed, and a hold of the creation that another connection takes over. One kill is under way at a
time, and a second one finds the session unregistered; polling stops the session once, and takes the
place of a request in `MaxRequests`. A queue of two messages overflows. Two chunks are the least that
can be out of order.

*Transfer.* A file is judged by what an earlier transfer recorded: one that records, one that an edit
or a failure separates from it, and one that judges are three. Two files are one that is done and one
under way. This run has one connection; the model also takes several at once, and an instance with
two connections, one file, two transfers and an edit (1.1 million states) has the same properties.

*Plugins.* Two instances of one plugin are what attaching again by name takes. Handlers, reader and
monitor are three threads that flush. Two waiting commands are one that is too late to see a request
and one that must not see it. Instances and waiters are symmetries; the run checks no liveness.

`MaxStream`, `MaxRounds`, `MaxPublished`, `MaxCommands`, `MaxRotations`, `MaxKills`, `MaxChoices`,
`MaxChunks`, `MaxRequests`, `MaxTransfers`, `MaxEdits` and `MaxCrashes` are bounds of the models and not
constants of the code. They are guards of the producing actions only, so a model at its bound is a
system in which nothing more is written. `Exhausted`, `Quiescent` and `AllOver` let a model that has
reached its bound or its end stutter, so that deadlock checking stays on and reports threads that wait
for each other. `daemon_one`, `size_one`, `web_one` and `transfer_one` really stop when their commands,
choices, requests or transfers are used up, so they do not check it; that two ends of a transfer do not
wait for each other is `TransferEnds`.

## 5. Fairness

Threads of the daemon are scheduled, so their steps are weakly fair: the reader's check, a waiter's
steps up to its return, every step of stop, the engine and its workers. Not fair are the choices of
others: that a child writes or exits, that a client comes, kills or cancels. Weak fairness of
`GivesUp` stands for the deadline every wait has. Weak fairness of a worker stands for the time
limit every type of step has. A session's reader is not assumed to notice the stop event: it may sit
in a read until the pty is closed. The two ends of a transfer are weakly fair, its deadline and the
loss of a connection are not: `TransferEnds` must hold without either. The other modules state safety
only. Locks are held across
steps only where a model has a lock variable (`bufLock`, `trigLock`); no fairness of a lock is
assumed, because no property needs a particular waiter to win.

## 6. Proofs

`DeliveryProofs` proves `TypeOK`, `NoDrift`, `CursorWithinStream` and `ReadIsContiguous` of
`OutputStream` for every capacity, chunk size, stream length and any set of handlers (also several at
once, which no run has). `NoDrift` alone is not inductive: that a slice taken from the buffer is the
right piece needs the typing of the buffer, the bounds of retention (the trim never cuts more than
there is) and the fact that what a handler carries from one step to the next was an end of the stream
when it was read, and the stream only grows. `IInv` is the conjunction of all six. `AppendEffect`
says once what an append does in either branch, from lemmas about runs of consecutive numbers;
`AppendIInv` and `DeliverIInv` then go through the actions. Assumed are `BufferAssumption` (positive
sizes) and `KindsAssumption`.

`WindowRefined` proves there that a session with one handler (`OneConsumer`) implements `StreamWindow`,
`ImplementsWindow`, for stdout and, which no run has, for stderr. An append is `Grow` (`AppendGrows`,
from `AppendEffect`); storing the cursor is `Consume` or invisible (`DeliverConsumes`), every other step
is invisible. Over `IInv` this needs `NeverBack`: the value about to be stored is not behind the
cursor. With a second handler that is false, since it may store a larger one in between.

`DeliveryProofs` also proves `PushedInOrder`, `EndIsTold`, `NothingMissed`, `ReleasedWhenLeft` and the
action property `KeptWhileHeld` of `WebSubscription` for any connections, requests, chunks and length
of the queues, from `WebInv`. `Placed` says which handler runs for whom and where the session is
registered meanwhile. `OneClosure`: a connection has one closure at most among the subscribers, its
newest, and none while it is about to register one. Without it `PushedInOrder` is not inductive: two
closures would push a chunk twice. `Ordered` then says that whoever is still due the newest chunk
(`Due`) has only older ones. `Anew`: a connection that may subscribe follows nothing, so that
following begins with the answer and with nothing else, at which point `Expected` (its end closure is
among those to be called) and `Complete` (the snapshot reaches up to what is on its way) hold.
`Counting` is the count of holds with its reason and with `KeptWhileHeld`; its last clause, that of a
session nobody knows any more the release is about to be asked for, was refused, waits for the last
holder, is decided or is done (`GivenUp`), gives `ReleasedWhenLeft`. The exceptions of the three
properties are those of section 3, and no theorem says more than that.
Assumed is `WebSubscriptionAssumption`.

`WorkflowProofs` proves `TypeOK`, `DependencyCounts`, `DependenciesFirst`, `OneStepPerSession` and
the action property `SettledStays` of `Workflow` for every finite set of steps, every definition,
with cycles or without, any number of workers and any retries. `NeverSharedWithoutTemplates` adds
that where each session is written in one way only, no two steps are in flight on one. The invariant
`Inv` relates the three views of a step. `Counts`: an in-degree is the cardinality of the
dependencies that have not ended, and a step that is no longer pending has none left. `Views`: the
engine calls a step running exactly while its future is submitted, and the pool knows nothing of
pending steps. `Alone`: submitted steps occupy their sessions, each alone. Why they are needed: that
a submitted step has only well-ended dependencies follows from its in-degree being zero, hence from
`Counts`; that settling a step decrements the right counts needs that it had not ended before, hence
`Views`; that freeing a session does not free another step's needs `Alone`. `SettleKeepsCounts` is
the core: when one step ends, each open set loses exactly that step. `Counts` is stated for the loop
only: on the way out the engine marks pending steps as skipped and no longer counts, and a condition
that raises leaves the counts as they are. Assumed is `WorkflowAssumption`, of which the proofs use
that the set of steps is finite.

The same module proves `DoneMeansDone` and `AllAccounted`, from `RunInv`, which adds three parts to
`Inv`. `Record`: clients see a step as the engine does, except between the end of its future and the
engine's look at it. `Causes`: a failed step was allowed to continue or is known to be fatal, and
nothing is cancelled unless the event is set. `Leaving` says what each way out of the loop establishes:
nothing is pending, or a condition raised and its step still is; and a run that is neither cancelled
nor failed leaves the loop with nothing submitted, so that the 30 s limit of the drain cannot leave a
step in flight under a run that is then reported as done.

`SessionLifecycleProofs` proves `TypeOK`, `HoldCountExact`, `RegistryConsistent`, `ArchivedOnce` and,
under the condition that no kill comes during a creation (without it `Lifecycle_orphan.cfg` is a
counterexample), `NoOrphan` of `SessionLifecycle`, for any sessions, ids, killers and handlers and for
both ways of the platforms. `Located` says where an actor of each kind can be and that a thread works
on its own session; every other invariant needs it to know who can take a step. `Counted` is
`HoldCountExact` with what makes it inductive: the holders are finitely many, and a creation that has
not got to its pre-hold has none to give. `OneEnd` is `ArchivedOnce` with its reason: whoever is between
unregistering a session and archiving it is alone, and the session is neither registered nor archived,
so nobody can claim its end again. `Tended` is `NoOrphan` with what protects a session that is being
created: nobody is stopping it, its reader has not begun and it is registered; a stop that has begun
has cleared `running`, which only a launch sets. Assumed is `LifecycleAssumption`, of which one part is
about the model alone: killers and handlers are not the threads of sessions.

The same module proves who may meet components that are gone, in four steps, each with the hypotheses
it needs. `HoldersProtected` needs none: a holder that came before the release was decided keeps the
components (`InTime`), because whoever decides sees the count. `ReleasedAfterStop` needs that no kill
comes during a creation, since a creation goes on after such a kill and resets the flags of the stop;
`Orderly` says that one thread at a time is inside `stop` and that a release is decided after the
stop is through and the session archived. `OnlyLateHolders`, an action property, needs also that no
join times out, since a reader that outlives the join meets at its exit what was released: with it a
stop that is through has seen the reader off (`Joined`), and nobody is left but a handler that held
too late. `NoUseAfterRelease` itself is not proved: with handlers it is false, which is
`Lifecycle_latehold.cfg`, and without them it is checked by `lifecycle_reuse`.

`ExchangeProofs` proves `TypeOK`, `CountIsExact`, `GivenOnce` and `NothingLost` of `Notifications`
for any sessions, publishers, waits and caps. `Hands` says that what is pending was given to nobody and
what is archived was; with it `GivenOnce` is inductive, since only pending notifications are given.
`CountIsExact` needs that the eviction of the oldest takes exactly one away (`OldestIsLeast`, from the
well-foundedness of the numbers). For `NothingLost`, `ArchivedFacts` says what the archive keeps: all it
had and all it was given, unless it is full, and then it stays full. Assumed is
`NotificationsAssumption`: both caps are positive.

`ExchangeProofs` also proves `TransferTypeOK`, `ReportWithinOne`, `SkippedIsSame` and
`AckedIsRecoverable` of `FileTransfer` for any files, sizes, connections and bounds, so also for
transfers that run at once, which the run has not. There are three invariants, each on top of the one
before.

- `Lockstep` (`TransferInStep`), with `Types`: at each end of a connection, which frames can be under way
  (`UploadWire`, `DownloadWire`), and, while the connection is there, which files each end has left
  (`UploadAgree`, `DownloadAgree`); with the connection gone the ends no longer agree, but what they
  have counted still does (`UploadLevel`, `DownloadLevel`). `ReportWithinOne` alone says nothing of
  what an ACK under way will make the client count.
- `Dated` (`TimesTell`): for a file that no two writers have changed in one another's window there is a
  function from modification times to contents that all copies agree with: the two disks, manifests,
  what the ends have in hand and the frames. A write extends the function at a new time, and a receiver
  between replacement and `utime`, a sender between `stat` and read and a daemon that has not yet
  recorded are the windows in which a copy has a time that is not its own. A record that has the times
  of both sides then names one content, which is `SkippedIsSame`. That the clock gives each write a new
  time is an assumption of the model.
- `Secure`: a landing is kept once the version chain has both texts; the client has counted, or is sent
  an ACK for, only files whose landing is kept, and a file lands once in a transfer. That is
  `AckedIsRecoverable`. Both texts are those the daemon knows: the one it read when it came to the file
  and the one it wrote; what an edit puts there in between is in neither, and files in `collided` are
  excepted. It needs `Lockstep`, since an ACK is for the file the client is waiting for, and
  the types of frames, since the text that lands is the one that was sent.

`TransferTypeOK` needs `Lockstep` too: that at most two frames are under way is what the wire allows,
and that a temporary file is open while an end receives is a small invariant of its own (`Temps`).
Assumed is `TransferAssumption`: places are numbers and differ, sizes are positive.

`DaemonControlProofs` proves `TypeOK`, `FilesHaveOneOwner`, `TokensHonoured` and
`StoppedOrBeingStopped` of `DaemonControl` for any daemons, clients, commands, rotations and kills.
`Ownership`: whoever is where the code owns the lock holds it, and so does a client between the two
halves of its probe. With it `FilesHaveOneOwner` follows from where the main thread stands when it
touches the files (`MainChangesFiles`), which includes the way out, before the lock is given up.
`Rotation` says what the authenticator knows at each point of a rotation (before it the current token
for ever; during it the current one at least for the grace period and the newest for ever) and that
the file names the current one; `HeldHonoured` carries this over to what a client has read.
`Claimed`: whoever has set `_cleaned_up` has stopped the sessions or is where it will. Assumed is
`DaemonControlAssumption`.

`PluginHostProofs` proves `TypeOK`, `UnloadNotForgotten`, `ReturnIsOwn`, `DetachedOnce` and
`AttachedIsHooked` of `PluginHost` for any instances of any plugins and any numbers of threads. A lemma
per invariant and kind of thread goes through the actions. `WorksOnOne`: a thread in the middle of an
attach or a detach has an instance. `Waits`: who waits holds the trigger lock, and flag and request
belong to who holds it; this is why a stale request cannot reach the next command. `Shape` says where
an instance is before it is in the list and what a thread has left to go through; `Hands` that nobody
has it in hand while it is in the list and one thread at most after that, which makes `DetachedOnce`
inductive. Assumed is `PluginAssumption`.

`SizeControlProofs` proves `TypeOK`, `ScreenIsTerminal`, `BeliefAgrees` and `OwnerHasConnection` of
`SizeControl` for any tabs, users, sizes and number of choices. `Surfaces` is `ScreenIsTerminal` in
the middle of a resize: as long as the newest is `whole`, one thread at a time runs, and the model
has its size once it is at the terminal. `Informed` looks ahead: what a tab that is not `untold` will
believe when it has read what is on its way is so, unless a handler that set a fixed size has yet to
tell. `TellFacts` and its neighbours say what a broadcast does to this with any set of queues full.
`Orderly` is about the requests on their way: whatever a tab asks for is asked by one that will be
subscribed when it is heard, so the taker of the lock is (`AskersSubscribed`), and
`OwnerHasConnection` becomes inductive. Assumed is `SizeControlAssumption`.

`TriggerWaitProofs` proves `TypeOK`, `NoMissedMatch` and `MatchIsReal` of `TriggerWait`, the last two
for one client at a time (`Alone`; with two they are not what the code promises, see the hazard of
`execution/execution.py:410`), for any buffer size, chunks, patterns, width, overlap and search limit.
`Latest` and `Found` are the scan cache and the verdict as they will be once the check in progress has
committed; a check whose version is out of date does not count (`Pending`). `Searched` is the point of
the rolling cache: as long as nothing was found, the cached text is the window's whole beginning or at
least the overlap, and no occurrence ends within it, so that the next check, which keeps the overlap,
cannot step over one that straddles a chunk boundary. It needs `Overlap >= Width - 1`
(`TriggerAssumption`): a match longer than the overlap is outside the theorem. `Covered` says how far
the cache reaches, `CountRight` that with the newline rule a check that is refused has missed no
newline. `Honest` gives `MatchIsReal`: all that was found lies in the window, which `Inside` bounds.

Every invariant and action property of a passing run but `NoUseAfterRelease` is stated by a theorem,
some under hypotheses that are named above. Only model-checked are the liveness properties: the
prover does not do liveness under fairness. No module that is proved about uses a RECURSIVE operator.

## 7. Where the code and its documents disagree

The run `stream_lost` is a disagreement with what the code says of itself:

- `stream_lost`, `EndIsEndOfText` (`session/output.py:58`). The text and the end of the stream are
  read under two acquisitions of the lock and the cursor moves to the latter. Bytes appended in
  between are delivered to nobody. The docstring says the two are atomic.

Each of these configurations checks one property, which TLC refutes. They are counterexamples like the
one above, kept beside the runs, which are few and mostly ask what holds.

- `Workflow_chain.cfg`, `FailureStopsTheChain` (`workflow/engine.py:170`). `docs/WORKFLOW.md:246` says
  that a failure is passed on along the whole chain of dependents. The engine asks of a dependency
  whether it failed or was cancelled; the second step of a chain is *skipped*, and the third runs.
- `Workflow_shared.cfg`, `SessionsNeverShared` (`workflow/engine.py:121`). Steps are serialised by the
  session field as it is written; it is rendered when the step runs (line 323), and
  `docs/WORKFLOW.md:190` allows templates in it. Two steps that write one session in two ways run in it
  together.
- `Lifecycle_leak.cfg`, `ReleasedEventually` (`session/session.py:407`). When polling starts the
  stop, the reader asks for the release before the stop has finished, which is refused, and the
  stopper never asks: the buffers of the ended session stay.
- `Lifecycle_latehold.cfg`, `NoUseAfterRelease` (`session/session.py:441`). Looking up and holding
  are two steps; a handler between them may find the components gone.
- `Lifecycle_orphan.cfg`, `NoOrphan` (`session/session.py:214`). A kill during creation unregisters
  the session and stops nothing, and the start goes on: a child nobody can name.
- `Trigger_two.cfg`, `WaiterOwnsTrigger` (`execution/execution.py:410`). The pattern is set before
  the lock that is meant to make set, wait, check and clear atomic.
- `Notifications_asleep.cfg`, `WokenAtOnce` (`daemon/notifications.py:177`). The drain of the socket
  pair comes after the look at the queue and outside its lock, so it can swallow the byte of a later
  notification; the wait sleeps until its own timeout.
- `Daemon_unstopped.cfg`, `SessionsStopped` (`daemon/handlers/stop_handler.py:29`). The thread of a
  stop command sets `_cleaned_up` and wakes the main thread, which finds the flag set, returns and
  ends the process while the other thread, a daemon thread, is still stopping sessions.
- `Size_kept.cfg`, `LockNeedsConnection`
  (`web/presentation/controllers/websocket_controller.py:296`). The cleanup gives up the lock only
  for sessions the connection is still subscribed to: an owner who closes the session in its tab and
  then the tab stays the owner.
- `Web_refused.cfg`, `NeverRefused` (`session/session.py:407`). Seen from the browser, what
  `Lifecycle_leak.cfg` shows: polling begins the stop, the reader's release is refused, the connections
  leave one after the other and the components stay.
- `Web_late.cfg`, `NeverLate` (`session/session.py:350`, `session/session.py:409`). The release is
  decided under the lock and done after it; a subscribe handler that has looked the session up can take
  its hold in between, and finds the components gone.
- `Transfer_overwritten.cfg`, `OverwrittenIsRecoverable` (`files/transfer/transfer.py:200`). The daemon
  reads the old text before the new file arrives and keeps that as the old version; a text that an edit
  puts there before the replacement is kept nowhere.
- `Web_leak.cfg`, `AlwaysReleased` (`web/application/handlers/session.py:95`). A session that ends
  before the create handler subscribes is not found any more, and its creation hold is never given
  back.

Properties that are defined beside the others and that TLC refutes when they are put into the
configuration of the run: `YieldsToADaemon` (`DaemonControl`: a daemon that starts during a probe finds
the lock taken and exits), `FilesOfTheServing` (the stop command removes the credentials after it has
seen the lock free, `client/daemonctl.py:373`, and by then the files may be the next daemon's),
`BeliefAlwaysAgrees` (`SizeControl`: a message finds the queue full, `event_publisher.py:188`; the lock
is given up for a fixed size and then the size is missing or the resize raises, `size_mode.py:139` and
150, or the connection is cut off, and nobody tells the others; the lock is taken while a handler
awaits a resize and answers afterwards), `ScreenIsAlwaysTerminal` (two resizes cross between model and
terminal, `session/output.py:207`; the failure of either is passed over, `session/output.py:211` and
251),
`NothingEverMissed` (`WebSubscription`: a chunk is in the model and not yet with the subscribers when
a connection subscribes: it comes twice), `NoTmpLeft` (`FileTransfer`: when the replacement fails the
temporary file stays), `DetachedIsUnhooked` and `EndedHasNoPlugins` (`PluginHost`: a detach can come
between the two halves of an attach, `plugins/host.py:90` and following; an attach can come after
`detach_all`).

Seen while modelling, without a property of their own. Stream: the cursor of two clients can move
back (`session/session.py:490`); the stderr cursor is overwritten with the end of the stream after
the read (`session/session.py:610`); a line filter is rejected after the cursor has advanced
(`execution/execution.py:543`). Triggers: newlines are counted in the buffer, so that trimming lowers
the count (`session/trigger_matcher.py:753`). Lifecycle: a killer whose `stop` returned at once
archives before the exit code is known (`session/manager.py:344`, `session/session.py:264`); `exec`
on a session that is registered and not yet started answers that it has ended
(`daemon/handlers/exec_handler.py:116`); a creation hold is never handed over by a sub-agent's `exec`
(`session/manager.py:151`, `daemon/handlers/exec_handler.py:196`), so such a session keeps its
buffers. Workflow: steps already queued begin after the run has failed (`workflow/engine.py:155`;
`docs/WORKFLOW.md:240`); a step dropped from the pool's queue after 30 s is shown as running for ever
(`workflow/engine.py:272`); a condition that divides by zero or compares a number with a string ends
the engine and leaves steps pending (`workflow/engine.py:182`). Notifications: a byte left in the
socket pair lets the next wait return empty (`daemon/notifications.py:163`). Transfer: two uploads of
one file at a time, neither forced, overwrite each other, because the plan of the second is older
than the first's replacement; the record that is left can let a later upload skip a file that differs
(`files/transfer/transfer.py:200`); an error of the history database after the replacement loses the
old text. Plugins: unloads are carried out by name, so that a newer instance of the plugin can be
unloaded instead, and `on_detach` may come before `on_attach` has returned (`plugins/host.py:142`).
Logging: two threads that find the queue full may both drop a record (`logging/_queue.py:57`).

## 8. What is not modelled

Inside modelled components: decoding and the incomplete multi-byte tail of a chunk, the fresh mode of
triggers, stderr as a second place to search, the text of snapshots, line filters and response layout;
the monitor thread's events, `stop_all`, the capacity check against the history store; parsing of
workflow definitions and expressions, the limit on kept runs; the named mutex and shared memory of
Windows, the basic and TLS listeners, `stop --force`; directories, links, progress and checksums of a
transfer (a file arrives whole or not at all), the tools that edit and search; HTTP, login, rendering
and the history pages of the web interface, the messages about the size alone; plugin options,
manifests, permissions and the registry that enables, disables and reloads plugins, process-level
plugins, the event bus.

Whole components are listed with their reasons in `PROJECT.json`: those that are input and output
around the modelled core (protocol, client, pty, sandbox, remote desktop, logging), those that are
external or programs of their own (terminal emulation, bundled plugins, native tools), those that
check one connection by cryptography (passwords, keys, TLS) and those without state that changes
(configuration). They are most of the repository's lines; what is hard about them is formats,
drawing and operating systems and not the order of steps.

## 9. Plan

Done, in this order: buffer and stream with their abstract specification, lifecycle, triggers,
workflow, notifications, proofs of stream and workflow; daemon control with its proofs, size control,
web subscriptions, file transfer, plugins with their proofs; proofs of lifecycle, notifications, size
control and triggers; proofs of the web subscriptions, of the release of components and of transfers.

Next, the most important first:

1. `PluginRegistry`: enable, disable and reload against sessions that attach.
2. `WorkflowManager`: capacity and eviction of runs, composed with the record of a run.
3. The monitor thread with its events and `stop_all`, in `SessionLifecycle`.
4. The fresh mode of triggers and the stderr buffer, in `TriggerWait`.
5. `LogQueue`: the bounded queue with its drop-oldest race.

Proofs still worth doing: refinements of abstract specifications, as `StreamWindow` is one: the
notifications as a mailbox from which each message is taken once, holds and release as a protocol in
which the last user gives the components up. A run is worth its minutes only if it asks a question of
its own, so a new module comes with a run in place of one that shows less.
