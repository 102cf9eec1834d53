--------------------------- MODULE WebSubscription ---------------------------
(***************************************************************************)
(* Browser connections subscribe to one session, follow its output and its *)
(* end, and keep it in memory while they do (web/application/handlers/     *)
(* session, session/publisher).  Four threads meet here: the reader of the *)
(* session, which feeds the terminal model and calls the subscribers, the  *)
(* event loop, which runs the handlers of all connections one at a time,   *)
(* the pool thread of a kill, and the thread that stops the session when   *)
(* polling finds its processes gone.                                       *)
(*                                                                         *)
(* A handler without an await runs undisturbed by other handlers, but the  *)
(* reader goes on between any two of its statements.  Messages enter the   *)
(* queue of a connection in the order in which they were handed to the     *)
(* loop, so handing over is one step with entering the queue.  A stop      *)
(* waits for the reader here however long its callbacks take; what becomes *)
(* of a join that times out is in SessionLifecycle.                        *)
(***************************************************************************)
EXTENDS Integers, Sequences, FiniteSets

CONSTANTS
  Conns,
  Creator,      \* the connection that has the session created
  MaxChunks,    \* bound: chunks of output
  MaxRequests,  \* bound: requests of all connections after the creation, and the polling
  Limit         \* messages that a queue holds

NoOne == "no one"

ASSUME WebSubscriptionAssumption ==
  /\ Creator \in Conns /\ NoOne \notin Conns
  /\ {MaxChunks, MaxRequests} \subseteq Nat /\ Limit \in Nat \ {0}

VARIABLES
  registered,  \* the manager knows the session
  running,     \* Session.running
  fed,         \* chunks the terminal model has been fed
  reader,      \* where the reader is, and the callbacks it has yet to call
  killer,      \* where the pool thread of a kill is, and for whom it works
  poller,      \* where the thread is that stops a session found without processes
  stop,        \* Session._stop_started and _stop_finished
  holds,       \* Session._hold_count
  prehold,     \* Session._creation_hold
  pending,     \* Session._release_pending
  freeing,     \* threads that have decided to release the components, and have yet to
  released,    \* the components are gone
  subs, ends,  \* OutputPublisher: callbacks for output and for the end
  open,        \* connections
  awaiting,    \* connections whose create is under way in the pool
  loop,        \* the subscribe handler that runs, where it is and what it has read
  subscribed,  \* ConnectionContext._subscribed_uids
  held,        \* ConnectionContext._held_by_uid
  callback,    \* ConnectionContext._callbacks_by_uid: a number that names the closure
  seen,        \* messages put in the queue of a connection, in order
  waiting,     \* how many of them are still in it
  requests,
  dropped,     \* history: a message found the queue full
  crossed,     \* history: output was under way while the connection subscribed
  refused,     \* history: a release was asked for before the stop was finished
  late         \* history: the connection came to hold after a release was decided

threadVars == <<reader, killer, poller, stop>>
sessionVars == <<registered, running, fed, threadVars>>
holdVars == <<holds, prehold, pending, freeing, released, refused, late>>
publisherVars == <<subs, ends>>
connVars == <<open, awaiting, subscribed, held, callback>>
queueVars == <<seen, waiting, dropped>>
webVars == <<sessionVars, holdVars, publisherVars, connVars, loop, queueVars, requests, crossed>>

Reading(label) == [at |-> label, left |-> {}]
NoKill == [at |-> "none", conn |-> NoOne]
NoHandler == [at |-> "none", conn |-> NoOne, replay |-> 0]
Message(type, n) == [type |-> type, n |-> n]

\* create_session has registered the session, with its creation hold, and started it.
WebInit ==
  /\ registered = TRUE /\ running = TRUE
  /\ fed = 0
  /\ reader = Reading("read")
  /\ killer = NoKill /\ poller = "none" /\ stop = "no"
  /\ holds = 1 /\ prehold = TRUE /\ pending = FALSE
  /\ freeing = {} /\ released = FALSE /\ refused = FALSE /\ late = {}
  /\ subs = {} /\ ends = {}
  /\ open = Conns
  /\ awaiting = {Creator}
  /\ loop = NoHandler
  /\ subscribed = {} /\ held = {}
  /\ callback = [c \in Conns |-> 0]
  /\ seen = [c \in Conns |-> <<>>]
  /\ waiting = [c \in Conns |-> 0]
  /\ requests = 0
  /\ dropped = {} /\ crossed = {}

\* put_nowait of some messages; those that find the queue full are dropped.
Put(c, messages) ==
  LET room == Limit - waiting[c]
      put == IF c \notin open THEN <<>>
             ELSE IF Len(messages) > room THEN SubSeq(messages, 1, room) ELSE messages
  IN /\ seen' = [seen EXCEPT ![c] = @ \o put]
     /\ waiting' = [waiting EXCEPT ![c] = @ + Len(put)]
     /\ dropped' = IF c \in open /\ Len(messages) > room THEN dropped \cup {c} ELSE dropped

\* The producer sends what is in the queue, as one batch.
Produce(c) ==
  /\ c \in open /\ waiting[c] > 0 /\ "loop" \notin freeing
  /\ waiting' = [waiting EXCEPT ![c] = 0]
  /\ UNCHANGED <<sessionVars, holdVars, publisherVars, connVars, loop, seen, dropped, requests,
                 crossed>>
-----------------------------------------------------------------------------
(* Holds (session/session.py).  Whether to release is decided under the    *)
(* lock, and the components are freed after it has been given up.          *)
\* Mutant: the first holder takes over the creation hold, and so does the next.
AcquireKeepsPrehold ==
  /\ UNCHANGED prehold
  /\ holds' = IF prehold THEN holds ELSE holds + 1

AcquireHold ==
  /\ prehold' = FALSE
  /\ holds' = IF prehold THEN holds ELSE holds + 1

\* All connections give back their holds on the event loop.
ReleaseHold ==
  /\ holds' = holds - 1
  /\ pending' = (pending /\ holds # 1)
  /\ freeing' = IF pending /\ holds = 1 THEN freeing \cup {"loop"} ELSE freeing

\* Nothing is released, nor recorded, unless the stop is finished by now.
ReleaseComponents(thread, stopped) ==
  /\ refused' = (refused \/ ~stopped)
  /\ pending' = IF stopped THEN holds > 0 ELSE pending
  /\ freeing' = IF stopped /\ holds = 0 THEN freeing \cup {thread} ELSE freeing
  /\ UNCHANGED <<holds, prehold, released, late>>

\* _do_release.
Free(thread) ==
  /\ thread \in freeing
  /\ freeing' = freeing \ {thread}
  /\ released' = TRUE
  /\ UNCHANGED <<sessionVars, holds, prehold, pending, refused, late, publisherVars, connVars,
                 loop, queueVars, requests, crossed>>

\* stop: the first thread that comes does it all, the others return at once.
StopBegins ==
  /\ stop' = IF stop = "no" THEN "begun" ELSE stop
  /\ running' = (running /\ stop # "no")
-----------------------------------------------------------------------------
(* The reader (session/threads.py _process_chunk, session/events.py).      *)
SubscribingConn == IF loop.at \in {"output", "end", "reply"} THEN {loop.conn} ELSE {}

Feed ==
  /\ reader.at = "read" /\ fed < MaxChunks
  /\ fed' = fed + 1
  /\ reader' = Reading("fed")
  /\ crossed' = crossed \cup SubscribingConn
  /\ UNCHANGED <<registered, running, killer, poller, stop, holdVars, publisherVars, connVars, loop,
                 queueVars, requests>>

\* notify_subscribers walks the list as it is now.
CaptureSubs ==
  /\ reader.at = "fed"
  /\ reader' = [at |-> "notify", left |-> subs]
  /\ UNCHANGED <<registered, running, fed, killer, poller, stop, holdVars, publisherVars, connVars, loop,
                 queueVars, requests, crossed>>

Notify(cb) ==
  /\ reader.at = "notify" /\ cb \in reader.left
  /\ reader' = [reader EXCEPT !.left = @ \ {cb}]
  /\ Put(cb[1], <<Message("output", fed)>>)
  /\ UNCHANGED <<registered, running, fed, killer, poller, stop, holdVars, publisherVars, connVars, loop,
                 requests, crossed>>

\* The next chunk is read unless the session is being stopped.
Notified ==
  /\ reader.at = "notify" /\ reader.left = {}
  /\ reader' = Reading(IF stop = "no" THEN "read" ELSE "exit")
  /\ UNCHANGED <<registered, running, fed, killer, poller, stop, holdVars, publisherVars, connVars, loop,
                 queueVars, requests, crossed>>

\* The program has ended, or a stop has closed its terminal.
ReaderExit ==
  /\ reader.at = "read"
  /\ running' = FALSE
  /\ reader' = Reading("exit")
  /\ UNCHANGED <<registered, fed, killer, poller, stop, holdVars, publisherVars, connVars, loop,
                 queueVars, requests, crossed>>

\* notify_end walks the list as it is now; the manager's callback was added first.
CaptureEnds ==
  /\ reader.at = "exit"
  /\ registered' = FALSE
  /\ reader' = [at |-> IF registered THEN "manager" ELSE "tell", left |-> ends]
  /\ UNCHANGED <<running, fed, killer, poller, stop, holdVars, publisherVars, connVars, loop,
                 queueVars, requests, crossed>>

\* _on_session_ended, when it is the one that unregistered the session.  Its stop does not
\* join the thread that calls it, and does nothing when another thread has begun to stop.
ManagerReleases ==
  /\ reader.at = "manager"
  /\ stop' = IF stop = "no" THEN "finished" ELSE stop
  /\ ReleaseComponents("reader", stop' = "finished")
  /\ reader' = [reader EXCEPT !.at = "tell"]
  /\ UNCHANGED <<registered, running, fed, killer, poller, publisherVars, connVars, loop,
                 queueVars, requests, crossed>>

TellEnd(cb) ==
  /\ reader.at = "tell" /\ cb \in reader.left /\ "reader" \notin freeing
  /\ reader' = [reader EXCEPT !.left = @ \ {cb}]
  /\ Put(cb[1], <<Message("session_ended", 0)>>)
  /\ UNCHANGED <<registered, running, fed, killer, poller, stop, holdVars, publisherVars, connVars, loop,
                 requests, crossed>>

ReaderGone ==
  /\ reader.at = "tell" /\ reader.left = {} /\ "reader" \notin freeing
  /\ reader' = Reading("gone")
  /\ UNCHANGED <<registered, running, fed, killer, poller, stop, holdVars, publisherVars, connVars, loop,
                 queueVars, requests, crossed>>
-----------------------------------------------------------------------------
(* The subscribe handler, one statement after another on the loop.         *)
Idle == loop.at = "none" /\ "loop" \notin freeing
LoopFree(c) == c \in open /\ c \notin awaiting /\ Idle /\ killer.conn # c

Request(c) ==
  /\ LoopFree(c) /\ requests < MaxRequests
  /\ requests' = requests + 1

StartHandler(c) == loop' = [at |-> "hold", conn |-> c, replay |-> 0]
Answer(c, messages) == Put(c, messages) /\ loop' = NoHandler

\* The session is looked up; a connection that is subscribed is told so and no more.
AlreadySubscribed(c) ==
  /\ Request(c)
  /\ registered /\ c \in subscribed
  /\ Put(c, <<Message("already_subscribed", 0)>>)
  /\ UNCHANGED <<sessionVars, holdVars, publisherVars, connVars, loop, crossed>>

NotFound(c) ==
  /\ Request(c)
  /\ ~registered
  /\ Put(c, <<Message("error", 0)>>)
  /\ UNCHANGED <<sessionVars, holdVars, publisherVars, connVars, loop, crossed>>

\* Mutant: a second subscription is not noticed.
SubscribeAgain(c) ==
  /\ Request(c)
  /\ registered
  /\ StartHandler(c)
  /\ UNCHANGED <<sessionVars, holdVars, publisherVars, connVars, queueVars, crossed>>

Subscribe(c) ==
  /\ Request(c)
  /\ registered /\ c \notin subscribed
  /\ StartHandler(c)
  /\ UNCHANGED <<sessionVars, holdVars, publisherVars, connVars, queueVars, crossed>>

\* The create handler goes on to subscribe, and looks the session up once more: when it has
\* ended by then, the handler answers an error and leaves the creation hold.
Created(c) ==
  /\ c \in awaiting /\ Idle
  /\ awaiting' = awaiting \ {c}
  /\ \/ registered /\ StartHandler(c) /\ UNCHANGED queueVars
     \/ ~registered /\ Put(c, <<Message("error", 0)>>) /\ UNCHANGED loop
  /\ UNCHANGED <<sessionVars, holdVars, publisherVars, open, subscribed, held, callback, requests,
                 crossed>>

Hold(c) ==
  /\ loop.at = "hold" /\ loop.conn = c
  /\ AcquireHold
  /\ subscribed' = subscribed \cup {c}
  /\ held' = held \cup {c}
  /\ late' = IF released \/ freeing # {} THEN late \cup {c} ELSE late
  /\ loop' = [loop EXCEPT !.at = "snapshot"]
  /\ UNCHANGED <<sessionVars, pending, freeing, released, refused, publisherVars, open, awaiting,
                 callback, queueVars, requests, crossed>>

\* A statement that needs a component that is gone raises, and the dispatcher answers an error.
Fails(c) ==
  /\ released
  /\ Answer(c, <<Message("error", 0)>>)
  /\ UNCHANGED <<subs, ends, crossed>>

\* prepare_subscription.
Snapshot(c) ==
  /\ loop.at = "snapshot" /\ loop.conn = c
  /\ \/ Fails(c)
     \/ /\ ~released
        /\ loop' = [loop EXCEPT !.at = "output", !.replay = fed]
        /\ crossed' = IF reader.at = "fed" \/ \E cb \in reader.left : cb[1] = c
                      THEN crossed \cup {c} ELSE crossed \ {c}
        /\ UNCHANGED <<subs, ends, queueVars>>
  /\ UNCHANGED <<sessionVars, holdVars, connVars, requests>>

Closure(c) == <<c, callback[c]>>

\* The connection keeps the closure before the publisher is asked for.
RegisterOutput(c) ==
  /\ loop.at = "output" /\ loop.conn = c
  /\ callback' = [callback EXCEPT ![c] = @ + 1]
  /\ \/ Fails(c)
     \/ /\ ~released
        /\ subs' = subs \cup {<<c, callback[c] + 1>>}
        /\ loop' = [loop EXCEPT !.at = "end"]
        /\ UNCHANGED <<ends, queueVars, crossed>>
  /\ UNCHANGED <<sessionVars, holdVars, open, awaiting, subscribed, held, requests>>

RegisterEnd(c) ==
  /\ loop.at = "end" /\ loop.conn = c
  /\ \/ Fails(c)
     \/ /\ ~released
        /\ ends' = ends \cup {Closure(c)}
        /\ loop' = [loop EXCEPT !.at = "reply"]
        /\ UNCHANGED <<subs, queueVars, crossed>>
  /\ UNCHANGED <<sessionVars, holdVars, connVars, requests>>

\* Mutant: the end is left to the callback.
ReplyTrustsCallback(c) ==
  /\ loop.at = "reply" /\ loop.conn = c
  /\ \/ Fails(c)
     \/ ~released /\ Answer(c, <<Message("subscribed", loop.replay)>>) /\ UNCHANGED <<subs, ends, crossed>>
  /\ UNCHANGED <<sessionVars, holdVars, connVars, requests>>

\* The end may be told twice, by this answer and by the callback.
Reply(c) ==
  /\ loop.at = "reply" /\ loop.conn = c
  /\ \/ Fails(c)
     \/ /\ ~released
        /\ LET answer == Message("subscribed", loop.replay)
           IN Answer(c, IF running THEN <<answer>> ELSE <<answer, Message("session_ended", 0)>>)
        /\ UNCHANGED <<subs, ends, crossed>>
  /\ UNCHANGED <<sessionVars, holdVars, connVars, requests>>
-----------------------------------------------------------------------------
(* Leaving.                                                                *)

\* Mutant: the hold is given back through the repository.
LeaveByLookup(c) ==
  /\ IF c \in held /\ registered THEN ReleaseHold ELSE UNCHANGED <<holds, pending, freeing>>
  /\ IF registered
     THEN subs' = subs \ {Closure(c)} /\ ends' = ends \ {Closure(c)}
     ELSE UNCHANGED publisherVars
  /\ held' = held \ {c}
  /\ subscribed' = subscribed \ {c}
  /\ late' = late \ {c}
  /\ UNCHANGED <<prehold, released, refused>>

\* Mutant: the callbacks are forgotten and not removed.
LeaveKeepsCallbacks(c) ==
  /\ IF c \in held THEN ReleaseHold ELSE UNCHANGED <<holds, pending, freeing>>
  /\ held' = held \ {c}
  /\ subscribed' = subscribed \ {c}
  /\ late' = late \ {c}
  /\ UNCHANGED <<prehold, released, refused, publisherVars>>

\* UnsubscribeSessionHandler: the hold is given back by the reference the connection
\* kept; the callbacks of a session that is no longer registered stay.
Leave(c) ==
  /\ IF c \in held THEN ReleaseHold ELSE UNCHANGED <<holds, pending, freeing>>
  /\ IF registered
     THEN subs' = subs \ {Closure(c)} /\ ends' = ends \ {Closure(c)}
     ELSE UNCHANGED publisherVars
  /\ held' = held \ {c}
  /\ subscribed' = subscribed \ {c}
  /\ late' = late \ {c}
  /\ UNCHANGED <<prehold, released, refused>>

Unsubscribe(c) ==
  /\ Request(c)
  /\ Leave(c)
  /\ Put(c, <<Message("unsubscribed", 0)>>)
  /\ UNCHANGED <<sessionVars, open, awaiting, callback, loop, crossed>>

\* The consumer ends between two requests, or is cancelled while it awaits the pool.  The
\* queue goes with the connection.
Close(c) ==
  /\ c \in open /\ Idle
  /\ Leave(c)
  /\ open' = open \ {c}
  /\ awaiting' = awaiting \ {c}
  /\ seen' = [seen EXCEPT ![c] = <<>>]
  /\ waiting' = [waiting EXCEPT ![c] = 0]
  /\ dropped' = dropped \ {c} /\ crossed' = crossed \ {c}
  /\ UNCHANGED <<sessionVars, callback, loop, requests>>

\* KillSessionHandler: unsubscribe, then remove_session in the pool.
Kill(c) ==
  /\ Request(c)
  /\ registered /\ killer = NoKill
  /\ Leave(c)
  /\ killer' = [at |-> "remove", conn |-> c]
  /\ UNCHANGED <<registered, running, fed, reader, poller, stop, open, awaiting, callback, loop,
                 queueVars, crossed>>

\* The session may have ended meanwhile, and then there is nothing to remove.
RemoveSession ==
  /\ killer.at = "remove"
  /\ registered' = FALSE
  /\ killer' = [killer EXCEPT !.at = IF registered THEN "stop" ELSE "removed"]
  /\ UNCHANGED <<running, fed, reader, poller, stop, holdVars, publisherVars, connVars, loop,
                 queueVars, requests, crossed>>

\* stop, and unless another thread has begun to, join the reader.
RemoverStops ==
  /\ killer.at = "stop"
  /\ StopBegins
  /\ killer' = [killer EXCEPT !.at = IF stop = "no" THEN "join" ELSE "release"]
  /\ UNCHANGED <<registered, fed, reader, poller, holdVars, publisherVars, connVars, loop,
                 queueVars, requests, crossed>>

RemoverReleases ==
  /\ killer.at = "release" \/ (killer.at = "join" /\ reader.at = "gone")
  /\ stop' = IF killer.at = "join" THEN "finished" ELSE stop
  /\ ReleaseComponents("killer", stop' = "finished")
  /\ killer' = [killer EXCEPT !.at = "removed"]
  /\ UNCHANGED <<registered, running, fed, reader, poller, publisherVars, connVars, loop,
                 queueVars, requests, crossed>>

Killed(c) ==
  /\ killer = [at |-> "removed", conn |-> c] /\ "killer" \notin freeing /\ Idle
  /\ killer' = NoKill
  /\ Put(c, <<Message("session_ended", 0)>>)
  /\ UNCHANGED <<registered, running, fed, reader, poller, stop, holdVars, publisherVars, connVars,
                 loop, requests, crossed>>
-----------------------------------------------------------------------------
(* Polling (session/events.py poll_natural_exit).                          *)

\* The session was running when it was found without processes, at whatever moment before;
\* a thread that finds the stop begun has no effect.
PollerStops ==
  /\ stop = "no" /\ requests < MaxRequests
  /\ requests' = requests + 1
  /\ StopBegins
  /\ poller' = "join"
  /\ UNCHANGED <<registered, fed, reader, killer, holdVars, publisherVars, connVars, loop,
                 queueVars, crossed>>

PollerJoins ==
  /\ poller = "join" /\ reader.at = "gone"
  /\ stop' = "finished"
  /\ poller' = "none"
  /\ UNCHANGED <<registered, running, fed, reader, killer, holdVars, publisherVars, connVars, loop,
                 queueVars, requests, crossed>>
-----------------------------------------------------------------------------
Reader ==
  \/ Feed \/ CaptureSubs \/ Notified \/ ReaderExit \/ CaptureEnds \/ ManagerReleases
  \/ ReaderGone
  \/ \E cb \in reader.left : Notify(cb) \/ TellEnd(cb)

Remover == RemoveSession \/ RemoverStops \/ RemoverReleases
Poller == PollerStops \/ PollerJoins

Handler(c) ==
  \/ AlreadySubscribed(c) \/ NotFound(c) \/ Subscribe(c) \/ Created(c) \/ Hold(c)
  \/ Snapshot(c) \/ RegisterOutput(c) \/ RegisterEnd(c) \/ Reply(c)
  \/ Unsubscribe(c) \/ Close(c) \/ Kill(c) \/ Killed(c) \/ Produce(c)

Threads == {"reader", "killer", "loop"}

WebNext ==
  \/ Reader \/ Remover \/ Poller
  \/ \E thread \in Threads : Free(thread)
  \/ \E c \in Conns : Handler(c)

WebSpec == WebInit /\ [][WebNext]_webVars
-----------------------------------------------------------------------------
\* Every variable has a value of its kind.
Labels == {"read", "fed", "notify", "exit", "manager", "tell", "gone"}
Closures == Conns \X Nat
Messages ==
  [type : {"output", "session_ended", "already_subscribed", "error", "subscribed", "unsubscribed"},
   n : Nat]

WebTypeOK ==
  /\ {registered, running, prehold, pending, released, refused} \subseteq BOOLEAN
  /\ fed \in 0..MaxChunks /\ requests \in 0..MaxRequests /\ holds \in Nat
  /\ reader \in [at : Labels, left : SUBSET Closures]
  /\ killer \in [at : {"none", "remove", "stop", "join", "release", "removed"},
                 conn : Conns \cup {NoOne}]
  /\ poller \in {"none", "join"} /\ stop \in {"no", "begun", "finished"}
  /\ freeing \subseteq Threads
  /\ loop \in [at : {"none", "hold", "snapshot", "output", "end", "reply"},
               conn : Conns \cup {NoOne}, replay : 0..fed]
  /\ subs \cup ends \subseteq Closures
  /\ open \cup awaiting \cup subscribed \cup held \cup late \cup dropped \cup crossed
       \subseteq Conns
  /\ callback \in [Conns -> Nat]
  /\ seen \in [Conns -> Seq(Messages)]
  /\ waiting \in [Conns -> 0..Limit]

\* The messages that a connection was sent since it was last answered that it is
\* subscribed, with this answer, or since ever.
Since(messages) ==
  {i \in DOMAIN messages : \A j \in DOMAIN messages : j > i => messages[j].type # "subscribed"}
Outputs(messages) == {i \in Since(messages) : messages[i].type = "output"}
Tells(messages, type) == \E i \in Since(messages) : messages[i].type = type
Told(c, type) == Tells(seen[c], type)

\* The connection was answered, has not left and has not lost a message.
Following(c) ==
  /\ c \in (open \cap subscribed) \ dropped
  /\ Told(c, "subscribed") /\ ~Told(c, "unsubscribed")
  /\ loop.conn # c
Quiet == reader.at \in {"read", "gone"} /\ killer = NoKill /\ freeing = {}

\* A connection is pushed each chunk once at most, and in order, through subscriptions
\* that come and go (session/publisher.py notify_subscribers).
InOrder(messages) ==
  \A i, j \in DOMAIN messages :
    i < j /\ messages[i].type = "output" /\ messages[j].type = "output"
      => messages[i].n < messages[j].n
PushedInOrder == \A c \in Conns : InOrder(seen[c])

\* Once the end of the session is told to everybody, each connection that follows it
\* knows, however the end fell into its subscription (SubscribeSessionHandler).
EndIsTold == reader.at = "gone" => \A c \in Conns : Following(c) => Told(c, "session_ended")

\* The pushed output is what the replay did not have, to the newest chunk, each chunk once.
Covers(messages, newest) ==
  \A i \in Since(messages) : messages[i].type = "subscribed" =>
    {messages[k].n : k \in Outputs(messages)} = (messages[i].n + 1)..newest
Completes(messages, newest) ==
  /\ Covers(messages, newest)
  /\ \A j, k \in Outputs(messages) : messages[j].n = messages[k].n => j = k

\* Replay and pushed output make up the whole: nothing is missing and nothing is twice.
\* Excepted are subscriptions made while the reader was at a chunk, between the terminal
\* model and the subscribers.
NothingMissed ==
  Quiet => \A c \in Conns : Following(c) /\ c \notin crossed => Completes(seen[c], fed)

\* The components of a session that has ended are gone when the last connection has left
\* (websocket_controller.py _cleanup, session.py release_hold).  Excepted are a session
\* that nobody has held since it was created, whose creation hold is never given back, and
\* one whose release was asked for while the thread that stops it had not finished: that
\* release is refused, and nobody asks again.
ReleasedWhenLeft ==
  /\ reader.at = "gone" /\ Quiet /\ loop.at = "none" /\ held = {} /\ awaiting = {}
  /\ ~prehold /\ ~refused
  => released

\* And they do not go while a connection holds them, whoever releases them and whichever
\* of the holds was the one from the creation.  Excepted is a connection that had looked
\* the session up before it ended and came to hold it between the decision and the deed,
\* or later.
KeptWhileHeld == released \/ freeing # {} => held \subseteq late

\* The same without exceptions.  They do not hold.
NothingEverMissed == Quiet => \A c \in Conns : Following(c) => Completes(seen[c], fed)
AlwaysReleased ==
  /\ reader.at = "gone" /\ Quiet /\ loop.at = "none" /\ awaiting = {} /\ held = {} /\ ~refused
  => released
NeverRefused ==
  /\ reader.at = "gone" /\ Quiet /\ loop.at = "none" /\ awaiting = {} /\ held = {} /\ ~prehold
  => released
NeverLate == [][released' /\ ~released => held' = {}]_webVars
=============================================================================
