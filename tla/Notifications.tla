--------------------------- MODULE Notifications ---------------------------
(***************************************************************************)
(* The notifications of the daemon (daemon/notifications.py): threads      *)
(* publish responses, wait commands (daemon/handlers/wait_handler.py) take *)
(* all that are pending or sleep in select until a byte on a socket pair   *)
(* wakes them, and commands that operate on a session take that session's  *)
(* (daemon/handlers/dispatcher.py).  One lock protects the queue, the      *)
(* archive and the counts; the bytes are written and read outside of it.   *)
(* When the daemon stops the socket pair is closed.                        *)
(*                                                                         *)
(* A notification is the position at which it was published.  The queue    *)
(* is always in the order of publication, and so a set of positions.       *)
(***************************************************************************)
EXTENDS Integers, Sequences, FiniteSets

CONSTANTS
  Publishers,     \* notify workers and plugins that publish
  Waiters,        \* handlers of wait commands
  Commands,       \* handlers of exec, send, read, mouse and kill
  Sessions,
  MaxPerSession,  \* MAX_NOTIF_PER_SESSION, the cap of pending ones per session
  MaxArchive,     \* the cap of the archive
  MaxPublished    \* bound: notifications published

NoSession == "no session"

ASSUME NotificationsAssumption ==
  /\ NoSession \notin Sessions
  /\ {MaxPerSession, MaxArchive, MaxPublished} \subseteq Nat \ {0}

VARIABLES
  queue,      \* pending notifications
  archive,    \* consumed notifications that can still be looked up, in that order
  count,      \* _session_count
  awake,      \* bytes wait in the socket pair
  closed,     \* the socket pair is closed
  pc,         \* where each thread is
  taken,      \* what the wait handler has consumed so far
  published,  \* the session of each notification ever published (history)
  given       \* how often each notification was consumed (history)

lockedVars == <<queue, archive, count>>
historyVars == <<published, given>>
wakeVars == <<awake, closed>>
vars == <<lockedVars, wakeVars, pc, taken, historyVars>>

Threads == Publishers \cup Waiters \cup Commands
Ids == 1..MaxPublished

Init ==
  /\ queue = {}
  /\ archive = <<>>
  /\ count = [s \in Sessions |-> 0]
  /\ awake = FALSE
  /\ closed = FALSE
  /\ pc = [t \in Threads |-> "idle"]
  /\ taken = [w \in Waiters |-> {}]
  /\ published = <<>>
  /\ given = [n \in Ids |-> 0]

Goto(t, label) == pc' = [pc EXCEPT ![t] = label]

OfSession(s) == {n \in queue : published[n] = s}
Oldest(S) == CHOOSE n \in S : \A m \in S : n <= m

\* The notifications of S as a sequence, oldest first.
InOrder(S) ==
  {ns \in [1..Cardinality(S) -> S] :
     /\ \A i, j \in 1..Cardinality(S) : i < j => ns[i] < ns[j]
     /\ \A n \in S : \E i \in 1..Cardinality(S) : ns[i] = n}

\* A deque that drops its oldest entries beyond its length.
Archived(ns) ==
  LET all == archive \o ns
      dropped == IF Len(all) > MaxArchive THEN Len(all) - MaxArchive ELSE 0
  IN [i \in 1..(Len(all) - dropped) |-> all[i + dropped]]

\* Those of S leave the queue for the archive.
MoveToArchive(S) ==
  /\ \E ns \in InOrder(S) : archive' = Archived(ns)
  /\ given' = [n \in Ids |-> IF n \in S THEN given[n] + 1 ELSE given[n]]
-----------------------------------------------------------------------------
(* Publishing.                                                             *)
\* Mutant: the oldest of all sessions goes.
EvictedOldest(s) ==
  IF s \in Sessions /\ count[s] + 1 > MaxPerSession THEN queue \ {Oldest(queue)} ELSE queue

\* What stays pending when s publishes one more: its oldest goes if it has too many.
Evicted(s) ==
  IF s \in Sessions /\ count[s] + 1 > MaxPerSession /\ OfSession(s) # {}
  THEN queue \ {Oldest(OfSession(s))}
  ELSE queue

PublishEntry(p, s) ==
  /\ pc[p] = "idle"
  /\ Len(published) < MaxPublished
  /\ published' = Append(published, s)
  /\ queue' = Evicted(s) \cup {Len(published) + 1}
  /\ count' = [u \in Sessions |->
                 IF u # s THEN count[u]
                 ELSE IF Evicted(s) # queue THEN count[u] ELSE count[u] + 1]
  /\ Goto(p, "wake")
  /\ UNCHANGED <<archive, wakeVars, taken, given>>

\* A byte that cannot be sent is forgotten.
Wake(p) ==
  /\ pc[p] = "wake"
  /\ awake' = ~closed
  /\ Goto(p, "idle")
  /\ UNCHANGED <<lockedVars, closed, taken, historyVars>>
-----------------------------------------------------------------------------
(* Waiting.                                                                *)
\* Mutant: the summaries are read as by pending_list, and nothing is removed.
ConsumePendingKeeps(w) ==
  /\ taken' = [taken EXCEPT ![w] = queue]
  /\ MoveToArchive(queue)
  /\ UNCHANGED <<queue, count>>

\* consume_pending takes everything under the lock.
ConsumePending(w) ==
  /\ taken' = [taken EXCEPT ![w] = queue]
  /\ MoveToArchive(queue)
  /\ queue' = {}
  /\ count' = [s \in Sessions |-> 0]

Drain(t, label) ==
  /\ awake' = FALSE
  /\ Goto(t, label)
  /\ UNCHANGED <<lockedVars, closed, taken, historyVars>>

StartWait(w) ==
  /\ pc[w] = "idle"
  /\ ConsumePending(w)
  /\ Goto(w, "drain")
  /\ UNCHANGED <<wakeVars, published>>

\* With something to return the wait is over, else the handler sleeps.
DrainFirst(w) ==
  /\ pc[w] = "drain"
  /\ Drain(w, IF taken[w] # {} THEN "reply" ELSE "select")

SelectWakes(w) ==
  /\ pc[w] = "select"
  /\ awake
  /\ Goto(w, "woken")
  /\ UNCHANGED <<lockedVars, wakeVars, taken, historyVars>>

DrainWoken(w) ==
  /\ pc[w] = "woken"
  /\ Drain(w, "consume")

ConsumeWoken(w) ==
  /\ pc[w] = "consume"
  /\ ConsumePending(w)
  /\ Goto(w, "drain again")
  /\ UNCHANGED <<wakeVars, published>>

DrainAgain(w) ==
  /\ pc[w] = "drain again"
  /\ Drain(w, "reply")

\* The wait times out and says so, or its client disconnects, or the socket pair was
\* closed before select: no answer then.
EndSelect(w) ==
  /\ pc[w] = "select"
  /\ \E label \in {"reply", "idle"} : Goto(w, label)
  /\ UNCHANGED <<lockedVars, wakeVars, taken, historyVars>>

Reply(w) ==
  /\ pc[w] = "reply"
  /\ taken' = [taken EXCEPT ![w] = {}]
  /\ Goto(w, "idle")
  /\ UNCHANGED <<lockedVars, wakeVars, historyVars>>
-----------------------------------------------------------------------------
(* A command that operates on session s takes its notifications.           *)
\* Mutant: the count of the session is not reset.
ConsumeBySessionCounted(c, s) ==
  /\ pc[c] = "idle"
  /\ OfSession(s) # {}
  /\ MoveToArchive(OfSession(s))
  /\ queue' = queue \ OfSession(s)
  /\ Goto(c, "drain")
  /\ UNCHANGED <<count, wakeVars, taken, published>>

ConsumeBySession(c, s) ==
  /\ pc[c] = "idle"
  /\ OfSession(s) # {}
  /\ MoveToArchive(OfSession(s))
  /\ queue' = queue \ OfSession(s)
  /\ count' = [count EXCEPT ![s] = 0]
  /\ Goto(c, "drain")
  /\ UNCHANGED <<wakeVars, taken, published>>

DrainCommand(c) ==
  /\ pc[c] = "drain"
  /\ Drain(c, "idle")
\* The daemon stops.  What waits in select is not woken by it, and what publishes or
\* consumes goes on.
Close ==
  /\ ~closed
  /\ closed' = TRUE
  /\ awake' = FALSE
  /\ UNCHANGED <<lockedVars, pc, taken, historyVars>>
-----------------------------------------------------------------------------
Publisher(p) == Wake(p) \/ \E s \in Sessions \cup {NoSession} : PublishEntry(p, s)

Waiter(w) ==
  \/ StartWait(w) \/ DrainFirst(w) \/ SelectWakes(w) \/ DrainWoken(w)
  \/ ConsumeWoken(w) \/ DrainAgain(w) \/ EndSelect(w) \/ Reply(w)

Command(c) == DrainCommand(c) \/ \E s \in Sessions : ConsumeBySession(c, s)

Next ==
  \/ \E p \in Publishers : Publisher(p)
  \/ \E w \in Waiters : Waiter(w)
  \/ \E c \in Commands : Command(c)
  \/ Close

Spec == Init /\ [][Next]_vars
-----------------------------------------------------------------------------
Labels == {"idle", "wake", "drain", "select", "woken", "consume", "drain again", "reply"}

TypeOK ==
  /\ queue \subseteq 1..Len(published)
  /\ archive \in Seq(Ids)
  /\ Len(archive) <= MaxArchive
  /\ count \in [Sessions -> 0..MaxPerSession]
  /\ {awake, closed} \subseteq BOOLEAN
  /\ pc \in [Threads -> Labels]
  /\ taken \in [Waiters -> SUBSET Ids]
  /\ published \in Seq(Sessions \cup {NoSession})
  /\ Len(published) <= MaxPublished
  /\ given \in [Ids -> Nat]

\* The count of a session, which decides about eviction, is the number of its
\* pending notifications, through publishing, eviction and both ways of
\* consuming (notifications.py, _session_count).
CountIsExact == \A s \in Sessions : count[s] = Cardinality(OfSession(s))

ToSet(seq) == {seq[i] : i \in DOMAIN seq}
Later(n) == {m \in (n + 1)..Len(published) : published[m] = published[n]}

\* A notification can be looked up from its publication on (get_by_nid),
\* unless its session has since published as many as are kept, or the archive
\* is full of others.
NothingLost ==
  \A n \in 1..Len(published) :
    \/ n \in queue \cup ToSet(archive)
    \/ given[n] > 0 /\ Len(archive) = MaxArchive
    \/ published[n] \in Sessions /\ Cardinality(Later(n)) >= MaxPerSession

\* A notification is consumed at most once, be it by a wait or by a command,
\* and then no longer pending (consume_pending and consume_by_session).
GivenOnce == \A n \in Ids : given[n] <= 1 /\ (given[n] = 1 => n \notin queue)

\* A pending notification wakes a sleeping wait at once (docs/CLI.md 4.12):
\* its byte is there or about to be written, or another wait is taking it.
WokenAtOnce ==
  queue # {} /\ ~closed /\ (\E w \in Waiters : pc[w] = "select") =>
    \/ awake
    \/ \E p \in Publishers : pc[p] = "wake"
    \/ \E w \in Waiters : pc[w] = "consume"
=============================================================================
