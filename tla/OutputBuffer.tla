---------------------------- MODULE OutputBuffer ----------------------------
(***************************************************************************)
(* The bounded byte buffer between the reader thread of a session and the  *)
(* handlers that read its output (src/session/buffer.py).                  *)
(*                                                                         *)
(* A byte is represented by its position in the stream the child wrote     *)
(* (0, 1, 2, ...), so that the contents of a read can be compared with the *)
(* absolute offsets the code computes for it.  Every operation holds the   *)
(* buffer's RLock from its first to its last line: one step each.          *)
(***************************************************************************)
EXTENDS Integers, Sequences

CONSTANTS
  MaxSize,    \* capacity in bytes (MAX_OUTPUT_BUFFER)
  MaxChunk,   \* bound: most bytes one append carries
  MaxStream   \* bound: most bytes the child ever writes

ASSUME BufferAssumption ==
  /\ MaxSize \in Nat \ {0}
  /\ MaxChunk \in Nat \ {0}
  /\ MaxStream \in Nat

VARIABLES
  produced,   \* bytes the child has handed to append (history)
  buf,        \* the retained bytes
  trimBase,   \* absolute offset of the first retained byte
  trimGen     \* number of trims so far

bufferVars == <<produced, buf, trimBase, trimGen>>

\* The soft cap: only a buffer longer than this is trimmed, back to MaxSize.
SoftCap == MaxSize + MaxSize \div 4

StreamEnd == trimBase + Len(buf)

\* Where a read that asks for an absolute offset really starts.
ActualStart(start) == IF start >= trimBase THEN start ELSE trimBase
\* Mutant of ReadStream: the reader is not told that the start was trimmed.
ReadStreamNeverDropped(start) ==
  [from    |-> ActualStart(start),
   data    |-> SubSeq(buf, ActualStart(start) - trimBase + 1, Len(buf)),
   dropped |-> FALSE]

\* What read_stream returns for a requested absolute offset.
ReadStream(start) ==
  [from    |-> ActualStart(start),
   data    |-> SubSeq(buf, ActualStart(start) - trimBase + 1, Len(buf)),
   dropped |-> start < trimBase]

NoRead == [from |-> 0, data |-> << >>, dropped |-> FALSE]

BufferInit ==
  /\ produced = 0
  /\ buf = << >>
  /\ trimBase = 0
  /\ trimGen = 0

NewBytes(n) == [i \in 1..n |-> produced + i - 1]
\* Mutant of AppendBytes: the base moves by the chunk, not by what was dropped.
AppendBytesBaseByChunk(n) ==
  LET all  == buf \o NewBytes(n)
      drop == Len(all) - MaxSize
  IN  /\ produced' = produced + n
      /\ IF Len(all) > SoftCap
         THEN /\ buf' = SubSeq(all, drop + 1, Len(all))
              /\ trimBase' = trimBase + n
              /\ trimGen' = trimGen + 1
         ELSE /\ buf' = all
              /\ UNCHANGED <<trimBase, trimGen>>

\* n new bytes at the tail; past the soft cap the oldest bytes go.
AppendBytes(n) ==
  LET all  == buf \o NewBytes(n)
      drop == Len(all) - MaxSize
  IN  /\ produced' = produced + n
      /\ IF Len(all) > SoftCap
         THEN /\ buf' = SubSeq(all, drop + 1, Len(all))
              /\ trimBase' = trimBase + drop
              /\ trimGen' = trimGen + 1
         ELSE /\ buf' = all
              /\ UNCHANGED <<trimBase, trimGen>>

BufferTypeOK ==
  /\ produced \in Nat
  /\ buf \in Seq(Nat)
  /\ trimBase \in Nat
  /\ trimGen \in Nat

\* An absolute offset names the same byte before and after any number of
\* trims: the byte at index i is the one the child wrote at trimBase + i - 1,
\* and the buffer ends with the newest byte (buffer.py, trim_base).
NoDrift ==
  /\ \A i \in 1..Len(buf) : buf[i] = trimBase + i - 1
  /\ StreamEnd = produced

\* Trimming in batches never lets the buffer outgrow the soft cap, and a trim
\* leaves a full MaxSize of newest bytes behind (buffer.py, append).
RetentionBounds ==
  /\ Len(buf) <= SoftCap
  /\ trimBase > 0 => Len(buf) >= MaxSize
=============================================================================
