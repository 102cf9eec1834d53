---------------------------- MODULE OutputStream ----------------------------
(***************************************************************************)
(* Incremental delivery of a session's output.  The reader thread appends  *)
(* to the OutputBuffer while handlers (one thread per client connection)   *)
(* deliver from it.  Each delivery takes its base offset, reads the        *)
(* buffer, asks for the stream end, advances the session's consumption     *)
(* cursor and answers; every one of these is a separate step, because each *)
(* takes and drops the buffer lock or touches the session without a lock.  *)
(*                                                                         *)
(* Kinds of delivery (read_handler.py, execution.py, session.py):          *)
(*   incremental  from the consumption cursor, advances it                 *)
(*   full         exec/send --full: from 0, advances the cursor            *)
(*   query        read --full, -l, --column: from 0, cursor untouched      *)
(*   offset       read --offset N: from N, advances the cursor             *)
(*   stderr       read_new_err_output on the stderr buffer, whose cursor   *)
(*                is overwritten with the stream end                       *)
(***************************************************************************)
EXTENDS OutputBuffer, SequencesExt

CONSTANTS
  Handlers,   \* handler threads
  Kinds       \* kinds of delivery they make

AllKinds == {"incremental", "full", "query", "offset", "stderr"}

ASSUME KindsAssumption ==
  /\ Kinds \subseteq AllKinds
  /\ "stderr" \in Kinds => Kinds = {"stderr"}

VARIABLES
  cursor,      \* _stdout_cursor or _stderr_read_offset
  pc,          \* where each handler is
  kind,        \* what it delivers
  base,        \* the offset it reads from
  out,         \* what read_stream gave it
  end,         \* the stream end it will report
  next,        \* the cursor value it is about to store
  delivered    \* stream positions clients have received from consuming reads (history)

handlerVars == <<pc, kind, base, out, end, next>>
vars == <<bufferVars, cursor, handlerVars, delivered>>

Steps == {"idle", "based", "read", "ended", "storing", "respond"}
Consuming(h) == kind[h] # "query"

Init ==
  /\ BufferInit
  /\ cursor = 0
  /\ pc = [h \in Handlers |-> "idle"]
  /\ kind = [h \in Handlers |-> "query"]
  /\ base = [h \in Handlers |-> 0]
  /\ out = [h \in Handlers |-> NoRead]
  /\ end = [h \in Handlers |-> 0]
  /\ next = [h \in Handlers |-> 0]
  /\ delivered = {}

\* The reader thread hands a chunk to the buffer.
ReaderAppend(n) ==
  /\ produced + n <= MaxStream
  /\ AppendBytes(n)
  /\ UNCHANGED <<cursor, handlerVars, delivered>>

\* Session.read_base for the kinds that use it, 0 or the client's offset
\* for the others.
Bases(k) ==
  CASE k \in {"incremental", "stderr"} -> {cursor}
    [] k \in {"full", "query"}         -> {0}
    [] k = "offset"                    -> 0..MaxStream

Begin(h, k) ==
  /\ pc[h] = "idle"
  /\ pc' = [pc EXCEPT ![h] = "based"]
  /\ kind' = [kind EXCEPT ![h] = k]
  /\ \E b \in Bases(k) : base' = [base EXCEPT ![h] = b]
  /\ UNCHANGED <<bufferVars, cursor, out, end, next, delivered>>

Read(h) ==
  /\ pc[h] = "based"
  /\ pc' = [pc EXCEPT ![h] = "read"]
  /\ out' = [out EXCEPT ![h] = ReadStream(base[h])]
  /\ UNCHANGED <<bufferVars, cursor, kind, base, end, next, delivered>>

\* The end is a second, later look at the buffer.
TakeEnd(h) ==
  /\ pc[h] = "read"
  /\ pc' = [pc EXCEPT ![h] = IF Consuming(h) THEN "ended" ELSE "respond"]
  /\ end' = [end EXCEPT ![h] = StreamEnd]
  /\ UNCHANGED <<bufferVars, cursor, kind, base, out, next, delivered>>
\* Mutant of AdvanceLoad: the end of the delivered text, without the maximum.
AdvanceLoadNoMax(h) ==
  /\ pc[h] = "ended"
  /\ pc' = [pc EXCEPT ![h] = "storing"]
  /\ next' = [next EXCEPT ![h] = base[h] + Len(out[h].data)]
  /\ UNCHANGED <<bufferVars, cursor, kind, base, out, end, delivered>>

\* advance_stdout_cursor evaluates max(cursor, end) ...
AdvanceLoad(h) ==
  /\ pc[h] = "ended"
  /\ pc' = [pc EXCEPT ![h] = "storing"]
  /\ next' = [next EXCEPT ![h] =
                IF kind[h] # "stderr" /\ cursor > end[h] THEN cursor ELSE end[h]]
  /\ UNCHANGED <<bufferVars, cursor, kind, base, out, end, delivered>>

\* ... and stores it; another handler may have stored in between.
AdvanceStore(h) ==
  /\ pc[h] = "storing"
  /\ pc' = [pc EXCEPT ![h] = "respond"]
  /\ cursor' = next[h]
  /\ UNCHANGED <<bufferVars, kind, base, out, end, next, delivered>>

\* The client gets the text that was read, or an error (a rejected -l filter,
\* a closed connection) after the cursor has moved.
Respond(h) ==
  /\ pc[h] = "respond"
  /\ pc' = [pc EXCEPT ![h] = "idle"]
  /\ delivered' = IF Consuming(h) THEN delivered \cup ToSet(out[h].data) ELSE delivered
  /\ UNCHANGED <<bufferVars, cursor, kind, base, out, end, next>>

RespondFails(h) ==
  /\ pc[h] = "respond"
  /\ pc' = [pc EXCEPT ![h] = "idle"]
  /\ UNCHANGED <<bufferVars, cursor, kind, base, out, end, next, delivered>>

Deliver(h) ==
  \/ \E k \in Kinds : Begin(h, k)
  \/ Read(h) \/ TakeEnd(h) \/ AdvanceLoad(h) \/ AdvanceStore(h)
  \/ Respond(h) \/ RespondFails(h)

Next ==
  \/ \E n \in 1..MaxChunk : ReaderAppend(n)
  \/ \E h \in Handlers : Deliver(h)

Spec == Init /\ [][Next]_vars
-----------------------------------------------------------------------------
ReadResult == [from : Nat, data : Seq(Nat), dropped : BOOLEAN]

TypeOK ==
  /\ BufferTypeOK
  /\ cursor \in Nat
  /\ pc \in [Handlers -> Steps]
  /\ kind \in [Handlers -> AllKinds]
  /\ base \in [Handlers -> Nat]
  /\ out \in [Handlers -> ReadResult]
  /\ end \in [Handlers -> Nat]
  /\ next \in [Handlers -> Nat]
  /\ delivered \subseteq Nat

\* The cursor never points past the newest byte, so the next incremental
\* read cannot start in bytes that do not exist yet and lose them when they
\* come; whatever --offset a client asked for (session.py, advance_stdout_cursor).
CursorWithinStream ==
  /\ cursor <= StreamEnd
  /\ \A h \in Handlers : pc[h] = "storing" => next[h] <= StreamEnd

\* Text handed to a client is a gap-free piece of the stream that begins at
\* the requested offset, or at a later one only when the buffer said that
\* the start had been trimmed (buffer.py, read_stream).
ReadIsContiguous ==
  \A h \in Handlers : pc[h] \in {"read", "ended", "storing", "respond"} =>
    /\ \A i \in 1..Len(out[h].data) : out[h].data[i] = out[h].from + i - 1
    /\ out[h].dropped \/ out[h].from = base[h]

\* Every byte a consuming read has delivered lies below the cursor, so no
\* later incremental read delivers it again.
DeliveredBelowCursor == \A p \in delivered : p < cursor

\* "Output written between two calls is not lost": the end a delivery
\* reports, to which the cursor moves, is the end of the text it delivers
\* (SKILL.md, incremental semantics; get_output_with_offset).
EndIsEndOfText ==
  \A h \in Handlers : pc[h] = "ended" /\ kind[h] = "incremental" =>
    end[h] = out[h].from + Len(out[h].data)

\* With one consumer the session is the abstract window.
Window == INSTANCE StreamWindow WITH
  Cap <- SoftCap, lo <- trimBase, hi <- StreamEnd, at <- cursor

ImplementsWindow == Window!Spec
=============================================================================
