----------------------------- MODULE TriggerWait -----------------------------
(***************************************************************************)
(* Waiting for a trigger: a request sets a pattern on the session's only   *)
(* TriggerMatcher, takes the session's trigger lock, waits until the       *)
(* matcher reports a match or something else ends the wait, and clears the *)
(* matcher (execution.py, trigger.py, trigger_matcher.py).  The reader     *)
(* thread checks the matcher each time it appends to the OutputBuffer.     *)
(*                                                                         *)
(* A pattern is known by the stream positions at which a text of Width     *)
(* bytes matches it ("occurs").  The rolling scan cache is the last        *)
(* scanText bytes before scanEnd, which is a physical index of the buffer, *)
(* as are the start offsets of waits.  A byte is a character here: the     *)
(* incomplete multi-byte tail the code carries over is left out.           *)
(***************************************************************************)
EXTENDS OutputBuffer, FiniteSets

CONSTANTS
  Waiters,    \* request threads and notify workers that wait on the session
  Patterns,   \* patterns they wait for
  Width,      \* length of a match
  Overlap,    \* _SCAN_TAIL_OVERLAP: bytes searched again at each check
  MaxScan,    \* MAX_TRIGGER_SCAN: bytes after the start that are ever searched
  MaxRounds,  \* bound: waits per waiter
  NewlineSets \* the sets of newline positions considered

NoPattern == "no pattern"
Modes == {"plain", "newline"}
Reader == "reader"
None == "none"

ASSUME TriggerAssumption ==
  /\ Width \in Nat \ {0}
  /\ Overlap \in Nat /\ Overlap >= Width - 1
  /\ MaxScan \in Nat
  /\ MaxRounds \in Nat
  /\ NoPattern \notin Patterns
  /\ Reader \notin Waiters /\ None \notin Waiters
  /\ \A s \in NewlineSets : s \subseteq Nat

VARIABLES
  occurs,     \* where each pattern occurs in what the child will write
  newlines,   \* where the newlines are
  matcher,    \* pattern, matched, start, mode, newline count and first-check flag
  cache,      \* scanned buffer generation, scanEnd, scanText and version
  check,      \* the check in progress: what it read, found and will commit
  bufLock,    \* who holds the buffer lock across steps
  trigLock,   \* who holds _trig_lock
  pc,
  start,      \* where the window of each waiter starts
  wants,      \* the pattern it waits for
  mode,       \* and how
  since,      \* stream position and trim count of that start, and whether no
              \* check was under way when the pattern was set (history)
  result,     \* how the last wait of each waiter ended
  rounds

waitVars == <<trigLock, pc, start, wants, mode, since, result, rounds>>
dataVars == <<occurs, newlines>>
vars == <<bufferVars, dataVars, matcher, cache, check, bufLock, waitVars>>

IdleMatcher ==
  [pattern |-> NoPattern, matched |-> FALSE, start |-> 0, mode |-> "plain",
   count |-> 0, first |-> FALSE]
EmptyCache(v) == [gen |-> -1, end |-> 0, text |-> 0, version |-> v]
NoCheck == [found |-> FALSE, cache |-> EmptyCache(0)]

Init ==
  /\ BufferInit
  /\ occurs \in [Patterns -> {{}} \cup {{p} : p \in 0..(MaxStream - Width)}]
  /\ newlines \in NewlineSets
  /\ matcher = IdleMatcher
  /\ cache = EmptyCache(0)
  /\ check = NoCheck
  /\ bufLock = None
  /\ trigLock = None
  /\ pc = [w \in Waiters \cup {Reader} |-> "idle"]
  /\ start = [w \in Waiters |-> 0]
  /\ wants = [w \in Waiters |-> NoPattern]
  /\ mode = [w \in Waiters |-> "plain"]
  /\ since = [w \in Waiters |-> [at |-> 0, gen |-> 0, quiet |-> TRUE]]
  /\ result = [w \in Waiters |-> None]
  /\ rounds = [w \in Waiters |-> 0]

Goto(a, l) == pc' = [pc EXCEPT ![a] = l]
-----------------------------------------------------------------------------
(* TriggerMatcher.check, on a buffer whose lock is held.                   *)

CountNewlines(b) == Cardinality({i \in 1..Len(b) : b[i] \in newlines})

\* The newline rule: a check goes on after a new newline, or the first time.
NewlineAllows(b) ==
  matcher.mode = "plain" \/ CountNewlines(b) > matcher.count \/ matcher.first

Counted(b) ==
  IF matcher.mode = "plain" THEN matcher
  ELSE IF CountNewlines(b) > matcher.count
       THEN [matcher EXCEPT !.count = CountNewlines(b)]
       ELSE [matcher EXCEPT !.first = FALSE]
\* Mutant of ScanStart: the scan begins with the buffer, not with the window.
ScanStartOfBuffer(b) == 0

ScanStart(b) == IF matcher.start < Len(b) THEN matcher.start ELSE Len(b)
ScanLimit(b) ==
  IF ScanStart(b) + MaxScan < Len(b) THEN ScanStart(b) + MaxScan ELSE Len(b)
\* Mutant of Scanned: only the new bytes are kept.
ScannedNoOverlap(b, gen) ==
  LET old == IF cache.gen = gen THEN cache
             ELSE [cache EXCEPT !.gen = gen, !.end = ScanStart(b), !.text = 0]
      new == ScanLimit(b) - old.end
  IN  IF new <= 0 THEN old ELSE [old EXCEPT !.end = ScanLimit(b), !.text = new]

\* The cache after the bytes up to the limit were decoded: rebuilt from the
\* start of the window if the buffer was trimmed, cut to the overlap and the
\* new bytes otherwise.
Scanned(b, gen) ==
  LET old  == IF cache.gen = gen THEN cache
              ELSE [cache EXCEPT !.gen = gen, !.end = ScanStart(b), !.text = 0]
      new  == ScanLimit(b) - old.end
      keep == Overlap + new
  IN  IF new <= 0 THEN old
      ELSE [old EXCEPT !.end = ScanLimit(b),
                       !.text = IF @ + new > keep THEN keep ELSE @ + new]

\* The pattern occurs within the cached text.
FoundIn(pat, c, base) ==
  \E p \in occurs[pat] : base + c.end - c.text <= p /\ p + Width <= base + c.end

\* What check works out from the state it copied, for buffer contents b.
CheckOf(b, base, gen) ==
  LET c == Scanned(b, gen)
  IN  [found |-> FoundIn(matcher.pattern, c, base), cache |-> c]

Checkable(b) == matcher.pattern # NoPattern /\ ~ matcher.matched /\ NewlineAllows(b)

\* The state is copied under the state lock; the search runs without it.
StartCheck(a, b, base, gen, busy, done) ==
  IF Checkable(b)
  THEN /\ matcher' = Counted(b)
       /\ check' = CheckOf(b, base, gen)
       /\ bufLock' = a
       /\ Goto(a, busy)
  ELSE /\ Goto(a, done)
       /\ UNCHANGED <<matcher, check, bufLock>>

\* The verdict is stored, whatever was set or cleared meanwhile; the cache
\* only if its version is still the one that was copied.
FinishCheck(a, busy, done) ==
  /\ pc[a] = busy
  /\ matcher' = [matcher EXCEPT !.matched = @ \/ check.found]
  /\ cache' = IF cache.version = check.cache.version THEN check.cache ELSE cache
  /\ check' = NoCheck
  /\ bufLock' = None
  /\ Goto(a, done)
-----------------------------------------------------------------------------
(* The reader thread.                                                      *)

\* Threads._process_chunk: append and check under one hold of the buffer lock.
ReaderAppend(n) ==
  /\ pc[Reader] = "idle"
  /\ bufLock = None
  /\ produced + n <= MaxStream
  /\ AppendBytes(n)
  /\ StartCheck(Reader, buf', trimBase', trimGen', "checking", "idle")
  /\ UNCHANGED <<dataVars, cache, trigLock, start, wants, mode, since, result, rounds>>

ReaderChecked ==
  /\ FinishCheck(Reader, "checking", "idle")
  /\ UNCHANGED <<bufferVars, dataVars, trigLock, start, wants, mode, since, result, rounds>>
-----------------------------------------------------------------------------
(* A wait: set_trigger, the lock, wait_for_trigger, clear_trigger.         *)

\* set_trigger takes the length of the buffer for the start of the window; the
\* first exec of a session starts it at 0.
MeasureBuffer(w, pat, m) ==
  /\ pc[w] = "idle"
  /\ rounds[w] < MaxRounds
  /\ bufLock = None
  /\ \E s \in {0, Len(buf)} : start' = [start EXCEPT ![w] = s]
  /\ wants' = [wants EXCEPT ![w] = pat]
  /\ mode' = [mode EXCEPT ![w] = m]
  /\ since' = [since EXCEPT ![w] = [at |-> trimBase + start'[w], gen |-> trimGen, quiet |-> TRUE]]
  /\ rounds' = [rounds EXCEPT ![w] = @ + 1]
  /\ Goto(w, "measured")
  /\ UNCHANGED <<bufferVars, dataVars, matcher, cache, check, bufLock, trigLock, result>>

\* TriggerMatcher.set, under the state lock only.
SetTrigger(w) ==
  /\ pc[w] = "measured"
  /\ matcher' = [matcher EXCEPT !.pattern = wants[w], !.matched = FALSE,
                                !.start = start[w], !.mode = mode[w]]
  /\ cache' = EmptyCache(cache.version + 1)
  /\ since' = [since EXCEPT ![w].quiet = bufLock = None]
  /\ Goto(w, "setting")
  /\ UNCHANGED <<bufferVars, dataVars, check, bufLock, trigLock, start, wants, mode, result,
                 rounds>>

\* Its last assignments come after the lock; a check may see the old values.
ResetNewlines(w) ==
  /\ pc[w] = "setting"
  /\ matcher' = [matcher EXCEPT !.first = mode[w] = "newline", !.count = 0]
  /\ Goto(w, "set")
  /\ UNCHANGED <<bufferVars, dataVars, cache, check, bufLock, trigLock, start, wants, mode, since,
                 result, rounds>>

\* set_trigger counts the newlines that are there ...
CountAtSet(w) ==
  /\ pc[w] = "set"
  /\ bufLock = None
  /\ matcher' = [matcher EXCEPT !.count = CountNewlines(buf)]
  /\ Goto(w, "counted")
  /\ UNCHANGED <<bufferVars, dataVars, cache, check, bufLock, trigLock, start, wants, mode, since,
                 result, rounds>>

\* ... and checks what is there.
CheckAtSet(w) ==
  /\ pc[w] = "counted"
  /\ bufLock = None
  /\ StartCheck(w, buf, trimBase, trimGen, "setcheck", "queue")
  /\ UNCHANGED <<bufferVars, dataVars, cache, trigLock, start, wants, mode, since, result, rounds>>

CheckedAtSet(w) ==
  /\ FinishCheck(w, "setcheck", "queue")
  /\ UNCHANGED <<bufferVars, dataVars, trigLock, start, wants, mode, since, result, rounds>>

\* Only now the session's trigger lock is taken.
TakeTrigLock(w) ==
  /\ pc[w] = "queue"
  /\ trigLock = None
  /\ trigLock' = w
  /\ Goto(w, "waiting")
  /\ UNCHANGED <<bufferVars, dataVars, matcher, cache, check, bufLock, start, wants, mode, since,
                 result, rounds>>

\* Mutant of EndWait: the wait goes on after its deadline.
EndWaitOnMatchOnly(w, r) ==
  /\ pc[w] = "waiting"
  /\ result' = [result EXCEPT ![w] = r]
  /\ Goto(w, IF r = "matched" THEN "clear" ELSE "waiting")
  /\ UNCHANGED <<bufferVars, dataVars, matcher, cache, check, bufLock, trigLock, start, wants,
                 mode, since, rounds>>

EndWait(w, r) ==
  /\ pc[w] = "waiting"
  /\ result' = [result EXCEPT ![w] = r]
  /\ Goto(w, "clear")
  /\ UNCHANGED <<bufferVars, dataVars, matcher, cache, check, bufLock, trigLock, start, wants,
                 mode, since, rounds>>

SeesMatch(w) == matcher.matched /\ EndWait(w, "matched")

\* Timeout, idle timeout, end of the session, crash, window, cancel, plugin:
\* several of these are looked at before the match is.
GivesUp(w) == EndWait(w, "other")
\* clear_trigger resets the matcher, then the lock is released.
ClearTrigger(w) ==
  /\ pc[w] = "clear"
  /\ matcher' = [IdleMatcher EXCEPT !.start = matcher.start, !.mode = matcher.mode]
  /\ cache' = EmptyCache(cache.version + 1)
  /\ trigLock' = None
  /\ Goto(w, "idle")
  /\ UNCHANGED <<bufferVars, dataVars, check, bufLock, start, wants, mode, since, result, rounds>>

Wait(w) ==
  \/ SetTrigger(w) \/ ResetNewlines(w) \/ CountAtSet(w) \/ CheckAtSet(w) \/ CheckedAtSet(w) \/ TakeTrigLock(w)
  \/ SeesMatch(w) \/ GivesUp(w) \/ ClearTrigger(w)

\* The bounds on output and waits are used up.
Exhausted ==
  /\ produced = MaxStream
  /\ \A w \in Waiters : rounds[w] = MaxRounds
  /\ \A a \in Waiters \cup {Reader} : pc[a] = "idle"
  /\ UNCHANGED vars

Next ==
  \/ \E n \in 1..MaxChunk : ReaderAppend(n)
  \/ ReaderChecked
  \/ Exhausted
  \/ \E w \in Waiters :
       \/ \E p \in Patterns, m \in Modes : MeasureBuffer(w, p, m)
       \/ Wait(w)

Spec == Init /\ [][Next]_vars

\* Every thread that can go on does, and every wait has a deadline.
Fairness ==
  /\ WF_vars(ReaderChecked)
  /\ \A w \in Waiters :
       WF_vars(SetTrigger(w) \/ ResetNewlines(w) \/ CountAtSet(w) \/ CheckAtSet(w)
               \/ CheckedAtSet(w) \/ TakeTrigLock(w) \/ GivesUp(w) \/ ClearTrigger(w))

FairSpec == Spec /\ Fairness
-----------------------------------------------------------------------------
WaiterPcs == {"idle", "measured", "setting", "set", "counted", "setcheck", "queue", "waiting", "clear"}
Caches == [gen : Nat \cup {-1}, end : Nat, text : Nat, version : Nat]

TypeOK ==
  /\ BufferTypeOK
  /\ occurs \in [Patterns -> SUBSET Nat] /\ newlines \subseteq Nat
  /\ matcher \in [pattern : Patterns \cup {NoPattern}, matched : BOOLEAN, start : Nat,
                  mode : Modes, count : Nat, first : BOOLEAN]
  /\ cache \in Caches /\ check \in [found : BOOLEAN, cache : Caches]
  /\ bufLock \in Waiters \cup {Reader, None} /\ trigLock \in Waiters \cup {None}
  /\ pc \in [Waiters \cup {Reader} -> WaiterPcs \cup {"checking"}]
  /\ \A w \in Waiters : pc[w] \in WaiterPcs
  /\ start \in [Waiters -> Nat] /\ mode \in [Waiters -> Modes]
  /\ wants \in [Waiters -> Patterns \cup {NoPattern}]
  /\ \A w \in Waiters : pc[w] # "idle" => wants[w] \in Patterns
  /\ since \in [Waiters -> [at : Nat, gen : Nat, quiet : BOOLEAN]]
  /\ result \in [Waiters -> {None, "matched", "other"}]
  /\ rounds \in [Waiters -> 0..MaxRounds]

\* A text that matches w's pattern has come since w's window began, within the
\* part that is ever searched, and in newline mode a newline no earlier.
Due(w) ==
  \E p \in occurs[wants[w]] :
    /\ since[w].at <= p
    /\ p + Width <= produced
    /\ p + Width <= since[w].at + MaxScan
    /\ mode[w] = "newline" => \E q \in newlines : p + Width <= q + 1 /\ q < produced

\* Output that matches is found however it is cut into chunks and whether it
\* comes before, while or after the trigger is set, as long as the buffer was
\* not trimmed since (trigger_matcher.py, check and its rolling cache).
NoMissedMatch ==
  \A w \in Waiters :
    pc[w] = "waiting" /\ bufLock = None /\ trimGen = since[w].gen /\ Due(w)
      => matcher.matched

\* A wait that reports a match has one in its window, unless a check was
\* under way when the pattern was set (trigger_matcher.py, check).
MatchIsReal ==
  \A w \in Waiters :
    pc[w] = "clear" /\ result[w] = "matched" /\ since[w].quiet =>
      \E p \in occurs[wants[w]] : since[w].at <= p /\ p + Width <= produced

\* The pattern in the matcher is the one of the waiter that holds the trigger
\* lock: one waiter at a time (session.py, _trig_lock).
WaiterOwnsTrigger ==
  \A w \in Waiters : pc[w] = "waiting" => trigLock = w /\ matcher.pattern = wants[w]

\* A request that set its trigger returns and gives the lock back.
WaitReturns == \A w \in Waiters : (pc[w] = "measured") ~> (pc[w] = "idle")
=============================================================================
