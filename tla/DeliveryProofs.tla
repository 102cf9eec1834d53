--------------------------- MODULE DeliveryProofs ---------------------------
(***************************************************************************)
(* Proofs about the delivery of output.                                    *)
(*                                                                         *)
(* In the first part, to the clients of the command line: OutputStream,    *)
(* for every buffer size, chunk size, stream length and set of handlers.   *)
(* In the second part, to browsers: WebSubscription, for every set of      *)
(* connections, every limit of a queue, and any number of chunks and       *)
(* requests.  The two parts share no definition.                           *)
(***************************************************************************)
EXTENDS OutputStream, WebSubscription, FiniteSetTheorems, SequenceTheorems, TLAPS


\* The soft cap is a number at or above the capacity.
LEMMA SoftCapBound == SoftCap \in Nat /\ SoftCap >= MaxSize
BY BufferAssumption DEF SoftCap

\* A suffix of a sequence keeps its elements in place.
LEMMA SuffixOfSeq ==
  ASSUME NEW s \in Seq(Nat), NEW k \in Nat, k <= Len(s)
  PROVE  LET t == SubSeq(s, k + 1, Len(s)) IN
         /\ t \in Seq(Nat)
         /\ Len(t) = Len(s) - k
         /\ \A i \in 1..Len(t) : t[i] = s[k + i] /\ k + i \in 1..Len(s)
OBVIOUS

\* Two sequences end to end.
LEMMA ConcatOfSeq ==
  ASSUME NEW s \in Seq(Nat), NEW t \in Seq(Nat)
  PROVE  /\ s \o t \in Seq(Nat)
         /\ Len(s \o t) = Len(s) + Len(t)
         /\ \A i \in 1..Len(s) : (s \o t)[i] = s[i]
         /\ \A i \in 1..Len(t) : (s \o t)[Len(s) + i] = t[i]
OBVIOUS

\* A run of consecutive positions followed by the positions that come next
\* is one longer run.
LEMMA RunsJoin ==
  ASSUME NEW s \in Seq(Nat), NEW t \in Seq(Nat), NEW b \in Nat,
         \A i \in 1..Len(s) : s[i] = b + i - 1,
         \A i \in 1..Len(t) : t[i] = b + Len(s) + i - 1
  PROVE  \A i \in 1..Len(s \o t) : (s \o t)[i] = b + i - 1
<1> DEFINE u == s \o t
<1>1. /\ Len(u) = Len(s) + Len(t)
      /\ \A i \in 1..Len(s) : u[i] = s[i]
      /\ \A i \in 1..Len(t) : u[Len(s) + i] = t[i]
  BY ConcatOfSeq
<1>2. Len(s) \in Nat /\ Len(t) \in Nat
  OBVIOUS
<1> HIDE DEF u
<1>3. ASSUME NEW i \in 1..Len(u) PROVE u[i] = b + i - 1
  <2>1. CASE i <= Len(s)
    BY <2>1, <1>1, <1>2
  <2>2. CASE i > Len(s)
    <3>1. i - Len(s) \in 1..Len(t) /\ Len(s) + (i - Len(s)) = i
      BY <2>2, <1>1, <1>2
    <3>2. u[i] = t[i - Len(s)]
      BY <3>1, <1>1
    <3> QED BY <3>1, <3>2, <1>2
  <2> QED BY <2>1, <2>2, <1>1, <1>2
<1> QED BY <1>3 DEF u

\* Dropping the head of a run moves its base by what was dropped.
LEMMA RunSuffix ==
  ASSUME NEW s \in Seq(Nat), NEW b \in Nat, NEW k \in Nat, k <= Len(s),
         \A i \in 1..Len(s) : s[i] = b + i - 1,
         NEW t, t = SubSeq(s, k + 1, Len(s))
  PROVE  /\ t \in Seq(Nat)
         /\ Len(t) = Len(s) - k
         /\ \A i \in 1..Len(t) : t[i] = b + k + i - 1
<1>1. /\ t \in Seq(Nat) /\ Len(t) = Len(s) - k
      /\ \A i \in 1..Len(t) : t[i] = s[k + i] /\ k + i \in 1..Len(s)
  BY SuffixOfSeq
<1>2. \A i \in 1..Len(t) : t[i] = b + k + i - 1
  BY <1>1
<1> QED BY <1>1, <1>2

\* The chunk handed to append is the run of positions after what was produced.
LEMMA NewBytesRun ==
  ASSUME NEW n \in Nat, produced \in Nat
  PROVE  /\ NewBytes(n) \in Seq(Nat)
         /\ Len(NewBytes(n)) = n
         /\ \A i \in 1..n : NewBytes(n)[i] = produced + i - 1
BY DEF NewBytes

\* What one append does to the buffer, in either branch: the stream end moves
\* by n, the window slides forward, and every retained byte stays at its
\* absolute offset (OutputBuffer.append).
LEMMA AppendEffect ==
  ASSUME NEW n \in 1..MaxChunk, BufferTypeOK, NoDrift, RetentionBounds,
         AppendBytes(n)
  PROVE  /\ BufferTypeOK' /\ NoDrift' /\ RetentionBounds'
         /\ StreamEnd' = StreamEnd + n
         /\ trimBase' >= trimBase
<1>0. PICK all : all = buf \o NewBytes(n)
  OBVIOUS
<1>1. /\ n \in Nat /\ n > 0 /\ MaxSize \in Nat /\ MaxSize > 0
      /\ SoftCap \in Nat /\ SoftCap >= MaxSize
  BY BufferAssumption, SoftCapBound
<1>2. /\ produced \in Nat /\ trimBase \in Nat /\ trimGen \in Nat
      /\ buf \in Seq(Nat) /\ Len(buf) \in Nat
      /\ trimBase + Len(buf) = produced
  BY DEF BufferTypeOK, NoDrift, StreamEnd
<1>3. /\ all \in Seq(Nat)
      /\ Len(all) = Len(buf) + n
      /\ \A i \in 1..Len(all) : all[i] = trimBase + i - 1
  <2>1. NewBytes(n) \in Seq(Nat) /\ Len(NewBytes(n)) = n
        /\ \A i \in 1..n : NewBytes(n)[i] = trimBase + Len(buf) + i - 1
    BY <1>1, <1>2, NewBytesRun
  <2>2. all \in Seq(Nat) /\ Len(all) = Len(buf) + n
    BY <1>0, <1>2, <2>1, ConcatOfSeq
  <2>3. \A i \in 1..Len(all) : all[i] = trimBase + i - 1
    BY <1>0, <1>2, <2>1, RunsJoin DEF NoDrift
  <2> QED BY <2>2, <2>3
<1>4. /\ produced' = produced + n
      /\ IF Len(all) > SoftCap
         THEN /\ buf' = SubSeq(all, Len(all) - MaxSize + 1, Len(all))
              /\ trimBase' = trimBase + (Len(all) - MaxSize)
              /\ trimGen' = trimGen + 1
         ELSE buf' = all /\ trimBase' = trimBase /\ trimGen' = trimGen
  BY <1>0 DEF AppendBytes
<1>5. /\ buf' \in Seq(Nat)
      /\ trimBase' \in Nat /\ trimBase' >= trimBase
      /\ trimGen' \in Nat
      /\ trimBase' + Len(buf') = produced'
      /\ \A i \in 1..Len(buf') : buf'[i] = trimBase' + i - 1
      /\ Len(buf') <= SoftCap
      /\ \/ Len(buf') >= MaxSize
         \/ trimBase' = trimBase /\ Len(buf') >= Len(buf)
  <2>1. CASE Len(all) > SoftCap
    <3>0. Len(all) \in Nat /\ Len(all) = Len(buf) + n
      BY <1>3
    <3>1. PICK drop \in Nat : drop = Len(all) - MaxSize /\ drop <= Len(all)
      <4>1. Len(all) >= MaxSize
        BY <1>1, <2>1, <3>0
      <4>2. Len(all) - MaxSize \in Nat /\ Len(all) - MaxSize <= Len(all)
        BY <1>1, <3>0, <4>1
      <4> QED BY <4>2
    <3>2. /\ buf' = SubSeq(all, drop + 1, Len(all))
          /\ trimBase' = trimBase + drop
          /\ trimGen' = trimGen + 1
      BY <1>4, <2>1, <3>1
    <3>3. /\ buf' \in Seq(Nat)
          /\ Len(buf') = Len(all) - drop
          /\ \A i \in 1..Len(buf') : buf'[i] = trimBase + drop + i - 1
      <4>1. trimBase \in Nat /\ all \in Seq(Nat)
            /\ \A i \in 1..Len(all) : all[i] = trimBase + i - 1
        BY <1>2, <1>3
      <4>2. buf' = SubSeq(all, drop + 1, Len(all)) /\ drop \in Nat /\ drop <= Len(all)
        BY <3>1, <3>2
      <4> QED BY ONLY <4>1, <4>2, RunSuffix
    <3>4. Len(buf') = Len(all) - drop /\ Len(buf') \in Nat
      BY <3>3
    <3>5. Len(buf') = MaxSize
      BY <1>1, <3>0, <3>1, <3>4
    <3>6. trimBase' + Len(buf') = produced'
      <4>1. produced' = produced + n /\ trimBase' = trimBase + drop
        BY <1>4, <3>2
      <4> QED BY <1>1, <1>2, <3>0, <3>1, <3>5, <4>1
    <3>7. \A i \in 1..Len(buf') : buf'[i] = trimBase' + i - 1
      BY <3>2, <3>3
    <3>8. trimBase' \in Nat /\ trimBase' >= trimBase /\ trimGen' \in Nat
      BY <1>2, <3>1, <3>2
    <3>9. Len(buf') <= SoftCap /\ Len(buf') >= MaxSize
      BY <1>1, <3>5
    <3> QED BY <3>3, <3>6, <3>7, <3>8, <3>9
  <2>2. CASE ~ (Len(all) > SoftCap)
    <3>1. buf' = all /\ trimBase' = trimBase /\ trimGen' = trimGen
      BY <1>4, <2>2
    <3>2. Len(buf') \in Nat /\ Len(buf') = Len(buf) + n /\ Len(buf') <= SoftCap
      BY <1>1, <1>2, <1>3, <2>2, <3>1
    <3>3. trimBase' + Len(buf') = produced'
      BY <1>1, <1>2, <1>4, <3>1, <3>2
    <3>4. \A i \in 1..Len(buf') : buf'[i] = trimBase' + i - 1
      BY <1>3, <3>1
    <3> QED BY <1>1, <1>2, <1>3, <3>1, <3>2, <3>3, <3>4
  <2> QED BY <2>1, <2>2
<1>6. produced' \in Nat
  BY <1>1, <1>2, <1>4
<1>7. BufferTypeOK' /\ NoDrift'
  BY <1>5, <1>6 DEF BufferTypeOK, NoDrift, StreamEnd
<1>8. RetentionBounds'
  <2>1. Len(buf') \in Nat
    BY <1>5
  <2> QED BY <1>1, <1>2, <1>5, <2>1 DEF RetentionBounds
<1>9. StreamEnd' = StreamEnd + n
  BY <1>2, <1>4, <1>5 DEF StreamEnd
<1> QED BY <1>5, <1>7, <1>8, <1>9

\* What read_stream returns: well typed, contiguous from the offset it claims,
\* ending at the stream end, and starting late only when it says so.
LEMMA ReadStreamResult ==
  ASSUME NEW start \in Nat, BufferTypeOK, NoDrift, NEW r, r = ReadStream(start)
  PROVE  /\ r \in ReadResult
         /\ \A i \in 1..Len(r.data) : r.data[i] = r.from + i - 1
         /\ r.dropped \/ r.from = start
         /\ \A i \in 1..Len(r.data) : r.data[i] < StreamEnd
<1>1. /\ trimBase \in Nat /\ buf \in Seq(Nat) /\ Len(buf) \in Nat
  BY DEF BufferTypeOK
<1>2. PICK a \in Nat : /\ a = ActualStart(start)
                       /\ a >= trimBase /\ a >= start
                       /\ start < trimBase \/ a = start
  BY <1>1 DEF ActualStart
<1>3. PICK rel \in Nat : rel = a - trimBase
  BY <1>1, <1>2
<1>4. PICK d : d = SubSeq(buf, rel + 1, Len(buf))
  OBVIOUS
<1>5. r = [from |-> a, data |-> d, dropped |-> (start < trimBase)]
  BY <1>2, <1>3, <1>4 DEF ReadStream
<1>6. /\ d \in Seq(Nat)
      /\ \A i \in 1..Len(d) : d[i] = a + i - 1
      /\ \A i \in 1..Len(d) : d[i] < StreamEnd
  <2>1. CASE rel <= Len(buf)
    <3>1. /\ d \in Seq(Nat)
          /\ Len(d) = Len(buf) - rel
          /\ \A i \in 1..Len(d) : d[i] = trimBase + rel + i - 1
      <4>1. \A i \in 1..Len(buf) : buf[i] = trimBase + i - 1
        BY DEF NoDrift
      <4>2. buf \in Seq(Nat) /\ trimBase \in Nat /\ rel \in Nat
        BY <1>1
      <4> QED BY ONLY <4>1, <4>2, <1>4, <2>1, RunSuffix
    <3>2. trimBase + rel = a /\ a + Len(d) = StreamEnd /\ Len(d) \in Nat
      BY <1>1, <1>2, <1>3, <3>1 DEF StreamEnd
    <3>3. \A i \in 1..Len(d) : d[i] = a + i - 1
      BY <3>1, <3>2
    <3> QED BY <1>2, <3>1, <3>2, <3>3
  <2>2. CASE rel > Len(buf)
    <3>1. d = << >>
      BY <1>1, <1>4, <2>2
    <3> QED BY <3>1
  <2> QED BY <1>1, <2>1, <2>2
<1>7. r \in ReadResult
  BY <1>5, <1>6 DEF ReadResult
<1>8. r.from = a /\ r.data = d /\ r.dropped = (start < trimBase)
  BY <1>5
<1>9. r.dropped \/ r.from = start
  BY <1>2, <1>8
<1> QED BY <1>6, <1>7, <1>8, <1>9
-----------------------------------------------------------------------------
(* The inductive invariant.  CursorWithinStream by itself is not inductive: *)
(* a handler carries the end it took from the buffer, and only because that *)
(* end was inside the stream when it was taken, and the stream never        *)
(* shrinks, is the cursor it later stores inside the stream.                *)
EndsWithinStream ==
  \A h \in Handlers : pc[h] = "ended" => end[h] <= StreamEnd

IInv ==
  /\ TypeOK
  /\ NoDrift
  /\ RetentionBounds
  /\ CursorWithinStream
  /\ EndsWithinStream
  /\ ReadIsContiguous

\* The initial state.
LEMMA InitIInv == Init => IInv
<1> SUFFICES ASSUME Init PROVE IInv
  OBVIOUS
<1>1. NoRead \in ReadResult
  BY DEF NoRead, ReadResult
<1>2. BufferTypeOK /\ buf = << >> /\ trimBase = 0 /\ produced = 0
  BY DEF Init, BufferInit, BufferTypeOK
<1>3. TypeOK
  BY <1>1, <1>2 DEF Init, TypeOK, Steps, AllKinds
<1>4. NoDrift /\ StreamEnd = 0
  BY <1>2 DEF NoDrift, StreamEnd
<1>5. RetentionBounds
  BY <1>2, SoftCapBound DEF RetentionBounds
<1>6. CursorWithinStream /\ EndsWithinStream /\ ReadIsContiguous
  BY <1>4 DEF Init, CursorWithinStream, EndsWithinStream, ReadIsContiguous
<1> QED BY <1>3, <1>4, <1>5, <1>6 DEF IInv

\* The stream end is a number in every typed state.
LEMMA StreamEndNat == BufferTypeOK => StreamEnd \in Nat
BY DEF BufferTypeOK, StreamEnd

\* The reader thread's append preserves the invariant.
LEMMA AppendIInv ==
  ASSUME IInv, NEW n \in 1..MaxChunk, ReaderAppend(n)
  PROVE  IInv'
<1>1. /\ BufferTypeOK' /\ NoDrift' /\ RetentionBounds'
      /\ StreamEnd' = StreamEnd + n
  BY AppendEffect DEF IInv, TypeOK, ReaderAppend
<1>2. /\ StreamEnd \in Nat /\ n \in Nat
      /\ UNCHANGED <<cursor, pc, kind, base, out, end, next, delivered>>
  BY StreamEndNat, BufferAssumption DEF IInv, TypeOK, ReaderAppend, handlerVars
<1>3. TypeOK'
  BY <1>1, <1>2 DEF IInv, TypeOK
<1>4. CursorWithinStream'
  BY <1>1, <1>2 DEF IInv, TypeOK, CursorWithinStream
<1>5. EndsWithinStream'
  BY <1>1, <1>2 DEF IInv, TypeOK, EndsWithinStream
<1>6. ReadIsContiguous'
  BY <1>2 DEF IInv, ReadIsContiguous
<1> QED BY <1>1, <1>3, <1>4, <1>5, <1>6 DEF IInv

\* A handler's step leaves the buffer alone.
LEMMA DeliverKeepsBuffer ==
  ASSUME IInv, UNCHANGED bufferVars
  PROVE  /\ BufferTypeOK' /\ NoDrift' /\ RetentionBounds'
         /\ StreamEnd' = StreamEnd /\ StreamEnd \in Nat
BY StreamEndNat DEF IInv, TypeOK, bufferVars, BufferTypeOK, NoDrift, RetentionBounds, StreamEnd

\* Every step of a delivery preserves the invariant.
LEMMA DeliverIInv ==
  ASSUME IInv, NEW h \in Handlers, Deliver(h)
  PROVE  IInv'
<1>1. CASE \E k \in Kinds : Begin(h, k)
  <2>1. PICK k \in Kinds : Begin(h, k)
    BY <1>1
  <2>2. PICK b \in Bases(k) : base' = [base EXCEPT ![h] = b]
    BY <2>1 DEF Begin
  <2>3. b \in Nat /\ k \in AllKinds
    BY KindsAssumption, BufferAssumption DEF Bases, AllKinds, IInv, TypeOK
  <2>4. /\ BufferTypeOK' /\ NoDrift' /\ RetentionBounds' /\ StreamEnd' = StreamEnd
    BY <2>1, DeliverKeepsBuffer DEF Begin
  <2>5. TypeOK'
    BY <2>1, <2>2, <2>3, <2>4 DEF Begin, IInv, TypeOK, Steps
  <2>6. CursorWithinStream' /\ EndsWithinStream' /\ ReadIsContiguous'
    BY <2>1, <2>2, <2>4 DEF Begin, IInv, TypeOK, CursorWithinStream, EndsWithinStream, ReadIsContiguous
  <2> QED BY <2>4, <2>5, <2>6 DEF IInv
<1>2. CASE Read(h)
  <2>1. PICK r : r = ReadStream(base[h])
    OBVIOUS
  <2>2. /\ r \in ReadResult
        /\ \A i \in 1..Len(r.data) : r.data[i] = r.from + i - 1
        /\ r.dropped \/ r.from = base[h]
    BY <2>1, ReadStreamResult DEF IInv, TypeOK
  <2>3. /\ BufferTypeOK' /\ NoDrift' /\ RetentionBounds' /\ StreamEnd' = StreamEnd
    BY <1>2, DeliverKeepsBuffer DEF Read
  <2>4. out' = [out EXCEPT ![h] = r]
    BY <1>2, <2>1 DEF Read
  <2>5. TypeOK'
    BY <1>2, <2>2, <2>3, <2>4 DEF Read, IInv, TypeOK, Steps
  <2>6. CursorWithinStream' /\ EndsWithinStream'
    BY <1>2, <2>3 DEF Read, IInv, TypeOK, CursorWithinStream, EndsWithinStream
  <2>7. ReadIsContiguous'
    BY <1>2, <2>2, <2>4 DEF Read, IInv, TypeOK, ReadIsContiguous
  <2> QED BY <2>3, <2>5, <2>6, <2>7 DEF IInv
<1>3. CASE TakeEnd(h)
  <2>1. /\ BufferTypeOK' /\ NoDrift' /\ RetentionBounds' /\ StreamEnd' = StreamEnd
        /\ StreamEnd \in Nat
    BY <1>3, DeliverKeepsBuffer DEF TakeEnd
  <2>2. TypeOK'
    BY <1>3, <2>1 DEF TakeEnd, IInv, TypeOK, Steps
  <2>3. CursorWithinStream' /\ EndsWithinStream'
    BY <1>3, <2>1 DEF TakeEnd, IInv, TypeOK, CursorWithinStream, EndsWithinStream
  <2>4. ReadIsContiguous'
    BY <1>3 DEF TakeEnd, IInv, TypeOK, ReadIsContiguous
  <2> QED BY <2>1, <2>2, <2>3, <2>4 DEF IInv
<1>4. CASE AdvanceLoad(h)
  <2>1. /\ BufferTypeOK' /\ NoDrift' /\ RetentionBounds' /\ StreamEnd' = StreamEnd
        /\ StreamEnd \in Nat
    BY <1>4, DeliverKeepsBuffer DEF AdvanceLoad
  <2>2. TypeOK'
    BY <1>4, <2>1 DEF AdvanceLoad, IInv, TypeOK, Steps
  <2>3. CursorWithinStream' /\ EndsWithinStream'
    BY <1>4, <2>1 DEF AdvanceLoad, IInv, TypeOK, CursorWithinStream, EndsWithinStream
  <2>4. ReadIsContiguous'
    BY <1>4 DEF AdvanceLoad, IInv, TypeOK, ReadIsContiguous
  <2> QED BY <2>1, <2>2, <2>3, <2>4 DEF IInv
<1>5. CASE AdvanceStore(h)
  <2>1. /\ BufferTypeOK' /\ NoDrift' /\ RetentionBounds' /\ StreamEnd' = StreamEnd
        /\ StreamEnd \in Nat
    BY <1>5, DeliverKeepsBuffer DEF AdvanceStore
  <2>2. TypeOK'
    BY <1>5, <2>1 DEF AdvanceStore, IInv, TypeOK, Steps
  <2>3. CursorWithinStream' /\ EndsWithinStream'
    BY <1>5, <2>1 DEF AdvanceStore, IInv, TypeOK, CursorWithinStream, EndsWithinStream
  <2>4. ReadIsContiguous'
    BY <1>5 DEF AdvanceStore, IInv, TypeOK, ReadIsContiguous
  <2> QED BY <2>1, <2>2, <2>3, <2>4 DEF IInv
<1>6. CASE Respond(h) \/ RespondFails(h)
  <2>1. /\ BufferTypeOK' /\ NoDrift' /\ RetentionBounds' /\ StreamEnd' = StreamEnd
    BY <1>6, DeliverKeepsBuffer DEF Respond, RespondFails
  <2>2. delivered' \subseteq Nat
    <3>1. out[h].data \in Seq(Nat)
      BY DEF IInv, TypeOK, ReadResult
    <3>2. ToSet(out[h].data) \subseteq Nat
      BY <3>1 DEF ToSet
    <3> QED BY <1>6, <3>2 DEF Respond, RespondFails, IInv, TypeOK
  <2>3. TypeOK'
    BY <1>6, <2>1, <2>2 DEF Respond, RespondFails, IInv, TypeOK, Steps
  <2>4. CursorWithinStream' /\ EndsWithinStream' /\ ReadIsContiguous'
    BY <1>6, <2>1
    DEF Respond, RespondFails, IInv, TypeOK, CursorWithinStream, EndsWithinStream, ReadIsContiguous
  <2> QED BY <2>1, <2>3, <2>4 DEF IInv
<1> QED BY <1>1, <1>2, <1>3, <1>4, <1>5, <1>6 DEF Deliver

\* The invariant holds of every reachable state, for any number of handlers.
THEOREM Invariance == Spec => []IInv
<1>1. IInv /\ [Next]_vars => IInv'
  <2> SUFFICES ASSUME IInv, [Next]_vars PROVE IInv'
    OBVIOUS
  <2>1. CASE \E n \in 1..MaxChunk : ReaderAppend(n)
    BY <2>1, AppendIInv
  <2>2. CASE \E h \in Handlers : Deliver(h)
    BY <2>2, DeliverIInv
  <2>3. CASE UNCHANGED vars
    <3>1. BufferTypeOK' /\ NoDrift' /\ RetentionBounds' /\ StreamEnd' = StreamEnd
      BY <2>3, DeliverKeepsBuffer DEF vars
    <3> QED
      BY <2>3, <3>1 DEF vars, handlerVars, IInv, TypeOK, CursorWithinStream,
         EndsWithinStream, ReadIsContiguous
  <2> QED BY <2>1, <2>2, <2>3 DEF Next
<1> QED BY InitIInv, <1>1, PTL DEF Spec

\* Type correctness of the whole state.
THEOREM TypeCorrect == Spec => []TypeOK
<1>1. IInv => TypeOK
  BY DEF IInv
<1> QED BY Invariance, <1>1, PTL

\* Absolute offsets name the same byte before and after any number of trims
\* (OutputBuffer.append and read_stream).
THEOREM OffsetsNeverDrift == Spec => []NoDrift
<1>1. IInv => NoDrift
  BY DEF IInv
<1> QED BY Invariance, <1>1, PTL

\* However many handlers race, and whatever offsets clients ask for, the
\* consumption cursor never points past the newest byte.
THEOREM CursorSafe == Spec => []CursorWithinStream
<1>1. IInv => CursorWithinStream
  BY DEF IInv
<1> QED BY Invariance, <1>1, PTL

\* Every text a handler holds is a gap-free piece of the stream.
THEOREM TextContiguous == Spec => []ReadIsContiguous
<1>1. IInv => ReadIsContiguous
  BY DEF IInv
<1> QED BY Invariance, <1>1, PTL
-----------------------------------------------------------------------------
(* Refinement: a session with one consumer is the abstract window.  Over    *)
(* the invariant above this needs that the one handler's cursor value in    *)
(* flight is not behind the cursor, which no second handler can move.       *)
OneConsumer == \A g, h \in Handlers : g = h

NeverBack ==
  \A h \in Handlers :
    /\ pc[h] = "ended" /\ kind[h] = "stderr" => end[h] >= cursor
    /\ pc[h] = "storing" => next[h] >= cursor

\* A delivery of the only handler keeps what it carries ahead of the cursor.
LEMMA DeliverNeverBack ==
  ASSUME IInv, OneConsumer, NeverBack, NEW h \in Handlers, Deliver(h)
  PROVE  NeverBack'
<1> SUFFICES /\ pc'[h] = "ended" /\ kind'[h] = "stderr" => end'[h] >= cursor'
             /\ pc'[h] = "storing" => next'[h] >= cursor'
  BY DEF OneConsumer, NeverBack
<1> USE DEF IInv, TypeOK, NeverBack, Steps
<1>1. CASE \E k \in Kinds : Begin(h, k)
  BY <1>1 DEF Begin
<1>2. CASE Read(h)
  BY <1>2 DEF Read
<1>3. CASE TakeEnd(h)
  BY <1>3, StreamEndNat DEF TakeEnd, CursorWithinStream
<1>4. CASE AdvanceLoad(h)
  BY <1>4 DEF AdvanceLoad
<1>5. CASE AdvanceStore(h)
  BY <1>5 DEF AdvanceStore
<1>6. CASE Respond(h) \/ RespondFails(h)
  BY <1>6 DEF Respond, RespondFails
<1> QED BY <1>1, <1>2, <1>3, <1>4, <1>5, <1>6 DEF Deliver

\* The end e of a piece that begins at b and is l long, after a growth by n.
LEMMA GrowthArithmetic ==
  ASSUME NEW a \in Nat, NEW b \in Nat, NEW d \in Nat, NEW e \in Nat, NEW l \in Nat,
         NEW n \in Nat, NEW c \in Nat,
         n > 0, b >= a, e = d + n, e = b + l, l <= c
  PROVE  e > d /\ b \in a..e /\ e - b <= c
OBVIOUS

\* An append is a growth of the window.
LEMMA AppendGrows ==
  ASSUME IInv, NEW n \in 1..MaxChunk, ReaderAppend(n)
  PROVE  Window!Grow
<1>1. /\ RetentionBounds' /\ BufferTypeOK'
      /\ StreamEnd' = StreamEnd + n /\ trimBase' >= trimBase
  BY AppendEffect DEF IInv, TypeOK, ReaderAppend
<1>2. /\ n \in Nat /\ n > 0 /\ SoftCap \in Nat
      /\ StreamEnd \in Nat /\ trimBase \in Nat
      /\ trimBase' \in Nat /\ Len(buf') \in Nat
  BY <1>1, StreamEndNat, BufferAssumption, SoftCapBound
  DEF IInv, TypeOK, BufferTypeOK
<1>3. StreamEnd' = trimBase' + Len(buf') /\ Len(buf') <= SoftCap
  BY <1>1 DEF StreamEnd, RetentionBounds
<1>4. /\ StreamEnd' > StreamEnd
      /\ trimBase' \in trimBase..StreamEnd'
      /\ StreamEnd' - trimBase' <= SoftCap
  <2>1. StreamEnd' \in Nat
    BY <1>2, <1>3
  <2> QED BY ONLY <1>1, <1>2, <1>3, <2>1, GrowthArithmetic
<1>5. UNCHANGED cursor
  BY DEF ReaderAppend
<1> QED BY <1>4, <1>5 DEF Window!Grow

\* A step of a delivery moves the consumer forward within the stream, or does
\* nothing the window can see.
LEMMA DeliverConsumes ==
  ASSUME IInv, NeverBack, NEW h \in Handlers, Deliver(h)
  PROVE  Window!Consume \/ UNCHANGED Window!vars
<1>1. UNCHANGED bufferVars
  BY DEF Deliver, Begin, Read, TakeEnd, AdvanceLoad, AdvanceStore, Respond, RespondFails
<1>2. trimBase' = trimBase /\ StreamEnd' = StreamEnd
  BY <1>1 DEF bufferVars, StreamEnd
<1>3. CASE AdvanceStore(h)
  <2>1. /\ cursor' = next[h] /\ next[h] \in Nat /\ cursor \in Nat
        /\ next[h] >= cursor /\ next[h] <= StreamEnd
    BY <1>3 DEF AdvanceStore, IInv, TypeOK, NeverBack, CursorWithinStream
  <2>2. CASE next[h] = cursor
    BY <1>2, <2>1, <2>2 DEF Window!vars
  <2>3. CASE next[h] > cursor
    BY <1>2, <2>1, <2>3 DEF Window!Consume
  <2> QED BY <2>1, <2>2, <2>3
<1>4. CASE ~AdvanceStore(h)
  <2>1. UNCHANGED cursor
    BY <1>4 DEF Deliver, Begin, Read, TakeEnd, AdvanceLoad, Respond, RespondFails
  <2> QED BY <1>2, <2>1 DEF Window!vars
<1> QED BY <1>3, <1>4

\* One consumer sees a stream that only grows, a retained window that only
\* moves forward and stays under the soft cap, and a cursor that never goes
\* back and never passes the end, for stdout and for stderr deliveries and
\* every interleaving with the reader (buffer.py; session.py, read_base).
THEOREM WindowRefined ==
  ASSUME OneConsumer
  PROVE  Spec => ImplementsWindow
<1>1. Init => NeverBack /\ Window!Init
  BY DEF Init, BufferInit, NeverBack, StreamEnd, Window!Init
<1>2. IInv /\ NeverBack /\ [Next]_vars => NeverBack' /\ [Window!Next]_(Window!vars)
  <2> SUFFICES ASSUME IInv, NeverBack, [Next]_vars
               PROVE  NeverBack' /\ [Window!Next]_(Window!vars)
    OBVIOUS
  <2>1. CASE \E n \in 1..MaxChunk : ReaderAppend(n)
    <3>1. NeverBack'
      BY <2>1 DEF ReaderAppend, handlerVars, NeverBack
    <3>2. Window!Next
      BY <2>1, AppendGrows DEF Window!Next
    <3> QED BY <3>1, <3>2
  <2>2. CASE \E h \in Handlers : Deliver(h)
    <3>1. NeverBack'
      BY <2>2, DeliverNeverBack
    <3>2. Window!Consume \/ UNCHANGED Window!vars
      BY <2>2, DeliverConsumes
    <3> QED BY <3>1, <3>2 DEF Window!Next
  <2>3. CASE UNCHANGED vars
    BY <2>3 DEF vars, handlerVars, bufferVars, NeverBack, StreamEnd, Window!vars
  <2> QED BY <2>1, <2>2, <2>3 DEF Next
<1> QED BY <1>1, <1>2, Invariance, PTL DEF Spec, ImplementsWindow, Window!Spec

-----------------------------------------------------------------------------
(***************************************************************************)
(* The second part: browsers.                                              *)
(***************************************************************************)
USE WebSubscriptionAssumption

(***************************************************************************)
(* The inductive invariant.                                                *)
(***************************************************************************)
\* Handlers run for open connections; a connection that has its session created has made
\* no request yet; who has unregistered the session and where it stands.
Placed ==
  /\ loop.at = "none" <=> loop.conn = NoOne
  /\ loop.conn # NoOne => loop.conn \in open
  /\ awaiting \subseteq open \ {loop.conn, killer.conn}
  /\ killer.at = "none" <=> killer.conn = NoOne
  /\ killer.at \in {"stop", "join", "release", "removed"} => ~registered
  /\ running => stop = "no" /\ reader.at \in {"read", "fed", "notify"}
  /\ reader.at \in {"manager", "tell", "gone"} => ~registered

\* What the count of holds is worth: each holder counts once, and the creation hold until
\* it is taken over.
Held ==
  /\ held = subscribed /\ IsFiniteSet(held)
  /\ holds = Cardinality(held) + (IF prehold THEN 1 ELSE 0)
  /\ pending => holds > 0

GivenUp == refused \/ pending \/ freeing # {} \/ released

\* A handler that subscribes becomes a holder; and of a session that nobody knows any more
\* the release is about to be asked for, was refused, waits for the last holder to leave,
\* is decided, or done.
Counting ==
  /\ Held
  /\ awaiting \cap subscribed = {}
  /\ loop.at = "hold" => loop.conn \notin subscribed
  /\ loop.at \in {"snapshot", "output", "end", "reply"} => loop.conn \in subscribed
  /\ KeptWhileHeld
  /\ ~registered => GivenUp \/ reader.at = "manager" \/ killer.at \in {"stop", "join", "release"}

\* A connection has one closure at most among the subscribers, the newest one, and none
\* when it is about to register one.
Enrols(c) ==
  \/ c \in awaiting
  \/ registered /\ c \notin subscribed
  \/ loop.conn = c /\ loop.at \in {"hold", "snapshot", "output"}
OneClosure ==
  /\ \A cb \in subs : cb = Closure(cb[1]) /\ ~Enrols(cb[1])
  /\ reader.at = "notify" => \A a, b \in reader.left : a[1] = b[1] => a = b

\* The newest chunk is on its way to the connection.
Due(c) == reader.at = "fed" \/ (reader.at = "notify" /\ \E cb \in reader.left : cb[1] = c)

\* What was pushed to a connection was in order and not newer than what is fed, and older
\* than a chunk that is on its way.
Pushed(messages, below) ==
  /\ InOrder(messages)
  /\ \A i \in DOMAIN messages : messages[i].type = "output" => messages[i].n < below
Ordered == \A c \in Conns : Pushed(seen[c], IF Due(c) THEN fed ELSE fed + 1)

\* A connection that is about to subscribe follows nothing, whatever it was sent before.
Fresh(c) == c \in dropped \/ Told(c, "unsubscribed") \/ ~Told(c, "subscribed")
MaySubscribe(c) ==
  \/ c \in awaiting
  \/ registered /\ c \notin subscribed /\ killer.conn # c
  \/ loop.conn = c
Anew == \A c \in open : MaySubscribe(c) => Fresh(c)

\* A connection that follows the session was told its end or is going to be.
WillBeTold(c) ==
  \/ Told(c, "session_ended")
  \/ reader.at \in {"read", "fed", "notify", "exit"} /\ Closure(c) \in ends
  \/ reader.at \in {"manager", "tell"} /\ Closure(c) \in reader.left
Expected ==
  /\ loop.at = "reply" => Closure(loop.conn) \in ends
  /\ \A c \in Conns : Following(c) => WillBeTold(c)

\* It is among the subscribers, and has the output that is not on its way.
Whole(messages, newest) ==
  /\ Covers(messages, newest)
  /\ \A i \in Since(messages) : messages[i].type = "subscribed" => messages[i].n <= newest
Complete ==
  /\ loop.at \in {"end", "reply"} => Closure(loop.conn) \in subs
  /\ loop.at \in {"output", "end", "reply"} /\ loop.conn \notin crossed =>
       loop.replay = fed /\ ~Due(loop.conn)
  /\ \A c \in Conns : Following(c) =>
       /\ Closure(c) \in subs
       /\ c \notin crossed => Whole(seen[c], IF Due(c) THEN fed - 1 ELSE fed)

WebInv ==
  /\ WebTypeOK /\ Placed /\ Counting /\ OneClosure /\ Ordered /\ Anew /\ Expected /\ Complete
-----------------------------------------------------------------------------
(***************************************************************************)
(* One more message.                                                       *)
(***************************************************************************)
LEMMA MessageAt ==
  ASSUME NEW s \in Seq(Messages), NEW i \in 1..Len(s)
  PROVE  s[i] \in Messages /\ s[i].n \in Nat
<1>1. s[i] \in Messages
  OBVIOUS
<1> QED BY <1>1 DEF Messages

\* The story of a subscription begins anew with its answer and goes on with all else.
LEMMA SinceAppend ==
  ASSUME NEW s \in Seq(Messages), NEW m \in Messages
  PROVE  Since(Append(s, m)) =
           IF m.type = "subscribed" THEN {Len(s) + 1} ELSE Since(s) \cup {Len(s) + 1}
<1> DEFINE t == Append(s, m)
<1>1. /\ DOMAIN t = 1..(Len(s) + 1) /\ DOMAIN s = 1..Len(s) /\ Len(s) \in Nat
      /\ t[Len(s) + 1] = m
      /\ \A i \in 1..Len(s) : t[i] = s[i]
  OBVIOUS
<1>2. CASE m.type = "subscribed"
  BY <1>1, <1>2 DEF Since
<1>3. CASE m.type # "subscribed"
  BY <1>1, <1>3 DEF Since
<1> QED BY <1>2, <1>3

LEMMA TellsAppend ==
  ASSUME NEW s \in Seq(Messages), NEW m \in Messages, NEW type
  PROVE  Tells(Append(s, m), type) <=>
           (m.type = type \/ (m.type # "subscribed" /\ Tells(s, type)))
<1> DEFINE t == Append(s, m)
<1>1. /\ Len(s) \in Nat
      /\ t[Len(s) + 1] = m
      /\ \A i \in Since(s) : i \in 1..Len(s) /\ t[i] = s[i]
  BY DEF Since
<1>2. CASE m.type = "subscribed"
  <2>1. Since(t) = {Len(s) + 1}
    BY <1>2, SinceAppend
  <2> QED BY <1>1, <1>2, <2>1 DEF Tells
<1>3. CASE m.type # "subscribed"
  <2>1. Since(t) = Since(s) \cup {Len(s) + 1}
    BY <1>3, SinceAppend
  <2> QED BY <1>1, <1>3, <2>1 DEF Tells
<1> QED BY <1>2, <1>3

\* A chunk that is newer than all that was pushed keeps the order, and so does any
\* message that is no output.
LEMMA PushedAppend ==
  ASSUME NEW s \in Seq(Messages), NEW m \in Messages, NEW b \in Nat,
         Pushed(s, b),
         m.type = "output" => m.n = b
  PROVE  Pushed(Append(s, m), IF m.type = "output" THEN b + 1 ELSE b)
<1> DEFINE t == Append(s, m)
<1>1. /\ DOMAIN t = 1..(Len(s) + 1) /\ DOMAIN s = 1..Len(s) /\ Len(s) \in Nat
      /\ t[Len(s) + 1] = m
      /\ \A i \in 1..Len(s) : t[i] = s[i]
  OBVIOUS
<1>2. \A i \in 1..Len(s) : s[i] \in Messages /\ s[i].n \in Nat
  BY MessageAt
<1>3. CASE m.type = "output"
  <2>1. \A i \in DOMAIN t : t[i].type = "output" => t[i].n < b + 1
    BY <1>1, <1>2, <1>3 DEF Pushed
  <2>2. InOrder(t)
    BY <1>1, <1>2, <1>3 DEF Pushed, InOrder
  <2> QED BY <1>3, <2>1, <2>2 DEF Pushed
<1>4. CASE m.type # "output"
  <2>1. \A i \in DOMAIN t : t[i].type = "output" => t[i].n < b
    BY <1>1, <1>2, <1>4 DEF Pushed
  <2>2. InOrder(t)
    BY <1>1, <1>2, <1>4 DEF Pushed, InOrder
  <2> QED BY <1>4, <2>1, <2>2 DEF Pushed
<1> QED BY <1>3, <1>4

\* The next chunk completes what was complete to the one before, the answer is complete
\* by its replay, and another message changes nothing.
LEMMA WholeAppend ==
  ASSUME NEW s \in Seq(Messages), NEW m \in Messages, NEW newest \in Int,
         m.type # "subscribed", Whole(s, newest),
         m.type = "output" => m.n = newest + 1
  PROVE  Whole(Append(s, m), IF m.type = "output" THEN newest + 1 ELSE newest)
<1> DEFINE t == Append(s, m)
           last == IF m.type = "output" THEN newest + 1 ELSE newest
<1>1. /\ Len(s) \in Nat
      /\ t[Len(s) + 1] = m
      /\ \A i \in Since(s) : i \in 1..Len(s) /\ t[i] = s[i] /\ s[i].n \in Nat
  BY MessageAt DEF Since
<1>2. Since(t) = Since(s) \cup {Len(s) + 1}
  BY SinceAppend
<1>3. Outputs(t) = IF m.type = "output" THEN Outputs(s) \cup {Len(s) + 1} ELSE Outputs(s)
  <2>1. CASE m.type = "output"
    BY <1>1, <1>2, <2>1 DEF Outputs
  <2>2. CASE m.type # "output"
    BY <1>1, <1>2, <2>2 DEF Outputs
  <2> QED BY <2>1, <2>2
<1>4. {t[k].n : k \in Outputs(s)} = {s[k].n : k \in Outputs(s)}
  BY <1>1 DEF Outputs
<1>5. {t[k].n : k \in Outputs(t)} =
        IF m.type = "output" THEN {s[k].n : k \in Outputs(s)} \cup {m.n} ELSE {s[k].n : k \in Outputs(s)}
  BY <1>1, <1>3, <1>4
<1>6. ASSUME NEW i \in Since(t), t[i].type = "subscribed"
      PROVE  {t[k].n : k \in Outputs(t)} = (t[i].n + 1)..last /\ t[i].n <= last
  <2>1. i \in Since(s) /\ t[i] = s[i] /\ s[i].n \in Nat
    BY <1>1, <1>2, <1>6
  <2>2. {s[k].n : k \in Outputs(s)} = (s[i].n + 1)..newest /\ s[i].n <= newest
    BY <1>6, <2>1 DEF Whole, Covers
  <2>3. CASE m.type = "output"
    <3>1. {t[k].n : k \in Outputs(t)} = (s[i].n + 1)..newest \cup {newest + 1}
      BY <1>5, <2>2, <2>3
    <3>2. (s[i].n + 1)..newest \cup {newest + 1} = (s[i].n + 1)..(newest + 1)
      BY <2>1, <2>2
    <3>3. t[i].n = s[i].n /\ last = newest + 1
      BY <2>1, <2>3
    <3>4. {t[k].n : k \in Outputs(t)} = (t[i].n + 1)..last
      BY <3>1, <3>2, <3>3, Zenon
    <3>5. t[i].n <= last
      BY <2>1, <2>2, <3>3
    <3> QED BY <3>4, <3>5, Zenon
  <2>4. CASE m.type # "output"
    BY <1>5, <2>1, <2>2, <2>4
  <2> QED BY <2>3, <2>4
<1> QED BY <1>6 DEF Whole, Covers

LEMMA WholeAnswer ==
  ASSUME NEW s \in Seq(Messages), NEW n \in Nat
  PROVE  Whole(Append(s, Message("subscribed", n)), n)
<1> DEFINE m == Message("subscribed", n)
           t == Append(s, m)
<1>1. m \in Messages /\ m.type = "subscribed" /\ m.n = n
  BY DEF Message, Messages
<1>2. Since(t) = {Len(s) + 1} /\ t[Len(s) + 1] = m
  BY <1>1, SinceAppend
<1>3. Outputs(t) = {}
  BY <1>1, <1>2 DEF Outputs
<1> QED BY <1>1, <1>2, <1>3 DEF Whole, Covers
-----------------------------------------------------------------------------
(***************************************************************************)
(* The queue of a connection.                                              *)
(***************************************************************************)
\* A message was handed over: it is the newest of the queue, or the queue was full, or
\* there is no connection any more.
Given(c, m) ==
  \/ seen'[c] = Append(seen[c], m)
  \/ seen'[c] = seen[c] /\ (c \in open => c \in dropped')

\* What put_nowait changes, whatever the messages.
LEMMA PutTypes ==
  ASSUME WebTypeOK, NEW c \in Conns, NEW messages \in Seq(Messages), Put(c, messages)
  PROVE  /\ seen' \in [Conns -> Seq(Messages)] /\ waiting' \in [Conns -> 0..Limit]
         /\ \A d \in Conns \ {c} : seen'[d] = seen[d]
         /\ dropped' \in {dropped, dropped \cup {c}}
<1> DEFINE room == Limit - waiting[c]
           put == IF c \notin open THEN <<>>
                  ELSE IF Len(messages) > room THEN SubSeq(messages, 1, room) ELSE messages
<1>1. waiting \in [Conns -> 0..Limit] /\ seen \in [Conns -> Seq(Messages)]
  BY Zenon DEF WebTypeOK
<1>2. waiting[c] \in 0..Limit /\ seen[c] \in Seq(Messages) /\ Limit \in Nat
  BY <1>1
<1>3. room \in 0..Limit
  BY <1>2
<1>4. put \in Seq(Messages) /\ Len(put) \in 0..room
  BY <1>3
<1>5. /\ seen' = [seen EXCEPT ![c] = @ \o put]
      /\ waiting' = [waiting EXCEPT ![c] = @ + Len(put)]
      /\ dropped' = IF c \in open /\ Len(messages) > room THEN dropped \cup {c} ELSE dropped
  BY Zenon DEF Put
<1> HIDE DEF put
<1>6. seen[c] \o put \in Seq(Messages) /\ waiting[c] + Len(put) \in 0..Limit
  BY <1>2, <1>4
<1>7. seen' \in [Conns -> Seq(Messages)] /\ \A d \in Conns \ {c} : seen'[d] = seen[d]
  BY <1>1, <1>5, <1>6
<1>8. waiting' \in [Conns -> 0..Limit]
  BY <1>1, <1>5, <1>6
<1> QED BY <1>5, <1>7, <1>8

\* What of them enters the queue.
LEMMA PutSome ==
  ASSUME WebTypeOK, NEW c \in Conns, NEW messages \in Seq(Messages), Put(c, messages)
  PROVE  /\ seen[c] \in Seq(Messages)
         /\ \/ seen'[c] = seen[c] \o messages
            \/ /\ \E k \in 0..Len(messages) - 1 : seen'[c] = seen[c] \o SubSeq(messages, 1, k)
               /\ c \in open => c \in dropped'
            \/ seen'[c] = seen[c] /\ c \notin open
<1>1. waiting \in [Conns -> 0..Limit] /\ seen \in [Conns -> Seq(Messages)]
  BY Zenon DEF WebTypeOK
<1>2. waiting[c] \in 0..Limit /\ seen[c] \in Seq(Messages) /\ Len(messages) \in Nat
  BY <1>1
<1>3. CASE c \notin open
  <2>1. seen' = [seen EXCEPT ![c] = @ \o <<>>]
    BY <1>3 DEF Put
  <2>2. seen'[c] = seen[c] \o <<>>
    BY <1>1, <2>1
  <2> QED BY <1>2, <1>3, <2>2, ConcatEmptySeq
<1>4. CASE c \in open /\ Len(messages) > Limit - waiting[c]
  <2> DEFINE room == Limit - waiting[c]
  <2>1. room \in 0..Len(messages) - 1
    BY <1>2, <1>4
  <2>2. seen' = [seen EXCEPT ![c] = @ \o SubSeq(messages, 1, room)] /\ c \in dropped'
    BY <1>4 DEF Put
  <2>3. seen'[c] = seen[c] \o SubSeq(messages, 1, room)
    BY <1>1, <2>2
  <2> QED BY <1>2, <2>1, <2>2, <2>3
<1>5. CASE c \in open /\ ~(Len(messages) > Limit - waiting[c])
  <2>1. seen' = [seen EXCEPT ![c] = @ \o messages]
    BY <1>5 DEF Put
  <2> QED BY <1>1, <1>2, <2>1
<1> QED BY <1>3, <1>4, <1>5

\* One message.
LEMMA PutOne ==
  ASSUME WebTypeOK, NEW c \in Conns, NEW m \in Messages, Put(c, <<m>>)
  PROVE  /\ seen' \in [Conns -> Seq(Messages)] /\ waiting' \in [Conns -> 0..Limit]
         /\ \A d \in Conns \ {c} : seen'[d] = seen[d]
         /\ dropped' \in {dropped, dropped \cup {c}}
         /\ Given(c, m)
<1>1. <<m>> \in Seq(Messages) /\ Len(<<m>>) = 1 /\ SubSeq(<<m>>, 1, 0) = <<>>
  OBVIOUS
<1>2. seen[c] \in Seq(Messages)
  BY <1>1, PutSome
<1>3. seen[c] \o <<m>> = Append(seen[c], m) /\ seen[c] \o <<>> = seen[c]
  BY <1>2, AppendIsConcat, ConcatEmptySeq
<1>4. \/ seen'[c] = seen[c] \o <<m>>
      \/ seen'[c] = seen[c] \o <<>> /\ (c \in open => c \in dropped')
      \/ seen'[c] = seen[c] /\ c \notin open
  <2>1. \A k \in 0..Len(<<m>>) - 1 : k = 0
    BY <1>1
  <2> QED BY <1>1, <2>1, PutSome
<1> QED BY <1>1, <1>3, <1>4, PutTypes DEF Given

LEMMA AppendTwo ==
  ASSUME NEW s \in Seq(Messages), NEW m \in Messages, NEW n \in Messages
  PROVE  s \o <<m, n>> = Append(Append(s, m), n)
<1> DEFINE t == s \o <<m, n>>
           u == Append(Append(s, m), n)
<1>1. /\ t \in Seq(Messages) /\ Len(t) = Len(s) + 2
      /\ \A i \in 1..Len(s) + 2 :
           t[i] = IF i <= Len(s) THEN s[i] ELSE IF i = Len(s) + 1 THEN m ELSE n
  OBVIOUS
<1>2. /\ u \in Seq(Messages) /\ Len(u) = Len(s) + 2
      /\ \A i \in 1..Len(s) + 2 :
           u[i] = IF i <= Len(s) THEN s[i] ELSE IF i = Len(s) + 1 THEN m ELSE n
  OBVIOUS
<1>3. t = u
  BY <1>1, <1>2, SeqEqual
<1> QED BY <1>3

\* Two messages, of which the second, or both, may find the queue full.
LEMMA PutTwo ==
  ASSUME WebTypeOK, NEW c \in Conns, NEW m \in Messages, NEW n \in Messages,
         Put(c, <<m, n>>)
  PROVE  /\ seen' \in [Conns -> Seq(Messages)] /\ waiting' \in [Conns -> 0..Limit]
         /\ \A d \in Conns \ {c} : seen'[d] = seen[d]
         /\ dropped' \in {dropped, dropped \cup {c}}
         /\ \/ seen'[c] = Append(Append(seen[c], m), n)
            \/ /\ seen'[c] \in {seen[c], Append(seen[c], m)}
               /\ c \in open => c \in dropped'
<1> DEFINE both == <<m, n>>
<1>1. both \in Seq(Messages) /\ Len(both) = 2 /\ SubSeq(both, 1, 0) = <<>>
  OBVIOUS
<1>2. SubSeq(both, 1, 1) = <<m>>
  <2>1. SubSeq(both, 1, 1) = SubSeq(both, 1, 0) \o <<m>>
    BY SubSeqRecursiveSecond
  <2>2. <<>> \o <<m>> = <<m>>
    OBVIOUS
  <2> QED BY <1>1, <2>1, <2>2
<1>3. seen[c] \in Seq(Messages)
  BY <1>1, PutSome
<1>4. /\ seen[c] \o <<m>> = Append(seen[c], m) /\ seen[c] \o <<>> = seen[c]
      /\ seen[c] \o both = Append(Append(seen[c], m), n)
  BY <1>3, AppendIsConcat, ConcatEmptySeq, AppendTwo
<1>5. \/ seen'[c] = seen[c] \o both
      \/ seen'[c] \in {seen[c] \o <<>>, seen[c] \o <<m>>} /\ (c \in open => c \in dropped')
      \/ seen'[c] = seen[c] /\ c \notin open
  <2>1. \A k \in 0..Len(both) - 1 : k = 0 \/ k = 1
    BY <1>1
  <2> QED BY <1>1, <1>2, <2>1, PutSome
<1> QED BY <1>1, <1>4, <1>5, PutTypes
-----------------------------------------------------------------------------
(***************************************************************************)
(* What a step does to the queues.                                         *)
(***************************************************************************)
Types == {"output", "session_ended", "already_subscribed", "error", "subscribed", "unsubscribed"}

LEMMA MessageTypes ==
  ASSUME NEW type \in Types, NEW n \in Nat
  PROVE  /\ Message(type, n) \in Messages
         /\ Message(type, n).type = type /\ Message(type, n).n = n
BY DEF Message, Messages, Types

\* A connection hears at most of other things than its subscription and the output.
Hears(d) ==
  /\ d \in dropped => d \in dropped'
  /\ \/ seen'[d] = seen[d]
     \/ \E m \in Messages : m.type \notin {"subscribed", "output"} /\ Given(d, m)
Queues ==
  /\ seen' \in [Conns -> Seq(Messages)] /\ waiting' \in [Conns -> 0..Limit]
  /\ dropped' \subseteq Conns

LEMMA PutHears ==
  ASSUME WebTypeOK, NEW c \in Conns, NEW type \in Types \ {"subscribed", "output"},
         Put(c, <<Message(type, 0)>>)
  PROVE  Queues /\ \A d \in Conns : Hears(d)
<1> DEFINE m == Message(type, 0)
<1>1. m \in Messages /\ m.type = type /\ Put(c, <<m>>)
  BY MessageTypes
<1>2. /\ Queues /\ Given(c, m) /\ \A d \in Conns \ {c} : seen'[d] = seen[d]
      /\ dropped' \in {dropped, dropped \cup {c}}
  <2>1. dropped \subseteq Conns
    BY DEF WebTypeOK
  <2> HIDE DEF m
  <2> QED BY <1>1, <2>1, PutOne DEF Queues
<1> HIDE DEF m
<1> QED BY <1>1, <1>2 DEF Hears

LEMMA KeepHears ==
  ASSUME WebTypeOK, UNCHANGED <<seen, dropped>>, UNCHANGED waiting \/ \E c \in Conns : Produce(c)
  PROVE  Queues /\ \A d \in Conns : Hears(d)
<1>1. /\ seen \in [Conns -> Seq(Messages)] /\ waiting \in [Conns -> 0..Limit]
      /\ dropped \subseteq Conns /\ Limit \in Nat
  BY DEF WebTypeOK
<1>2. waiting' \in [Conns -> 0..Limit]
  <2>1. CASE waiting' = waiting
    BY <1>1, <2>1
  <2>2. CASE \E c \in Conns : Produce(c)
    <3>1. PICK c \in Conns : Produce(c)
      BY <2>2
    <3>2. waiting' = [waiting EXCEPT ![c] = 0] /\ 0 \in 0..Limit
      BY <1>1, <3>1 DEF Produce
    <3> QED BY <1>1, <3>2
  <2> QED BY <2>1, <2>2
<1>3. seen' = seen /\ dropped' = dropped
  OBVIOUS
<1>4. \A d \in Conns : Hears(d)
  BY <1>3 DEF Hears
<1> QED BY <1>1, <1>2, <1>3, <1>4 DEF Queues

\* The reader hands out the newest chunk.
LEMMA NotifyHears ==
  ASSUME WebTypeOK, NEW cb \in reader.left, Notify(cb)
  PROVE  /\ Queues
         /\ cb \in Closures /\ cb[1] \in Conns /\ fed \in Nat
         /\ Message("output", fed) \in Messages
         /\ Message("output", fed).type = "output" /\ Message("output", fed).n = fed
         /\ Given(cb[1], Message("output", fed))
         /\ \A d \in Conns \ {cb[1]} : Hears(d)
         /\ \A d \in Conns : d \in dropped => d \in dropped'
<1> DEFINE m == Message("output", fed)
<1>1. cb \in Closures /\ cb[1] \in Conns
  BY DEF WebTypeOK, Closures
<1>2. fed \in Nat /\ dropped \subseteq Conns
  BY DEF WebTypeOK
<1>3. m \in Messages /\ m.type = "output" /\ m.n = fed
  BY <1>2, MessageTypes DEF Types
<1> HIDE DEF m
<1>4. Put(cb[1], <<m>>)
  BY DEF Notify, m
<1>5. /\ Queues /\ Given(cb[1], m) /\ \A d \in Conns \ {cb[1]} : seen'[d] = seen[d]
      /\ dropped' \in {dropped, dropped \cup {cb[1]}}
  BY <1>1, <1>2, <1>3, <1>4, PutOne DEF Queues
<1>6. \A d \in Conns \ {cb[1]} : Hears(d)
  BY <1>5 DEF Hears
<1> QED BY <1>1, <1>2, <1>3, <1>5, <1>6 DEF m

\* The subscription is answered, with the end or without it.
Answered(c) == Reply(c) /\ ~released

LEMMA ReplyHears ==
  ASSUME WebTypeOK, Placed, NEW c \in Conns, Answered(c)
  PROVE  /\ Queues
         /\ \A d \in Conns \ {c} : Hears(d)
         /\ loop.replay \in Nat
         /\ LET t == Append(seen[c], Message("subscribed", loop.replay)) IN
            \/ c \in dropped' /\ seen'[c] \in {seen[c], t}
            \/ running /\ seen'[c] = t
            \/ ~running /\ seen'[c] = Append(t, Message("session_ended", 0))
<1> DEFINE m == Message("subscribed", loop.replay)
           n == Message("session_ended", 0)
<1>1. loop.replay \in Nat /\ dropped \subseteq Conns /\ c \in open
  BY DEF WebTypeOK, Placed, Answered, Reply
<1>2. m \in Messages /\ n \in Messages
  BY <1>1, MessageTypes DEF Types
<1> HIDE DEF m, n
<1>3. CASE running
  <2>1. Put(c, <<m>>)
    BY <1>3 DEF Answered, Reply, Fails, Answer, m, n
  <2>2. /\ Queues /\ Given(c, m) /\ \A d \in Conns \ {c} : seen'[d] = seen[d]
        /\ dropped' \in {dropped, dropped \cup {c}}
    BY <1>1, <1>2, <2>1, PutOne DEF Queues
  <2>3. \A d \in Conns \ {c} : Hears(d)
    BY <2>2 DEF Hears
  <2> QED BY <1>1, <1>3, <2>2, <2>3 DEF Given, m
<1>4. CASE ~running
  <2>1. Put(c, <<m, n>>)
    BY <1>4 DEF Answered, Reply, Fails, Answer, m, n
  <2>2. /\ Queues /\ \A d \in Conns \ {c} : seen'[d] = seen[d]
        /\ dropped' \in {dropped, dropped \cup {c}}
        /\ \/ seen'[c] = Append(Append(seen[c], m), n)
           \/ c \in dropped' /\ seen'[c] \in {seen[c], Append(seen[c], m)}
    BY <1>1, <1>2, <2>1, PutTwo DEF Queues
  <2>3. \A d \in Conns \ {c} : Hears(d)
    BY <2>2 DEF Hears
  <2> QED BY <1>1, <1>4, <2>2, <2>3 DEF m, n
<1> QED BY <1>3, <1>4

\* A subscription that fails is answered an error.
LEMMA FailHears ==
  ASSUME WebTypeOK, NEW c \in Conns, Fails(c)
  PROVE  Queues /\ \A d \in Conns : Hears(d)
<1>1. Put(c, <<Message("error", 0)>>) /\ "error" \in Types \ {"subscribed", "output"}
  BY DEF Fails, Answer, Types
<1> QED BY <1>1, PutHears

\* The queue goes with the connection.
LEMMA CloseHears ==
  ASSUME WebTypeOK, NEW c \in Conns, Close(c)
  PROVE  Queues /\ seen'[c] = <<>> /\ \A d \in Conns \ {c} : Hears(d)
<1>1. /\ seen \in [Conns -> Seq(Messages)] /\ waiting \in [Conns -> 0..Limit]
      /\ dropped \subseteq Conns /\ Limit \in Nat
  BY DEF WebTypeOK
<1>2. /\ seen' = [seen EXCEPT ![c] = <<>>] /\ waiting' = [waiting EXCEPT ![c] = 0]
      /\ dropped' = dropped \ {c}
  BY DEF Close
<1>3. <<>> \in Seq(Messages) /\ 0 \in 0..Limit
  BY <1>1
<1> QED BY <1>1, <1>2, <1>3 DEF Queues, Hears

\* What the threads do that stop the session.
Stopping == Remover \/ Poller \/ \E thread \in Threads : Free(thread)

LEMMA QueueStep ==
  ASSUME WebTypeOK, Placed, WebNext
  PROVE  /\ Queues
         /\ \A d \in Conns :
              \/ Hears(d)
              \/ \E cb \in reader.left : cb[1] = d /\ Notify(cb)
              \/ Answered(d) \/ Close(d)
<1>1. {"session_ended", "already_subscribed", "error", "unsubscribed"}
        \subseteq Types \ {"subscribed", "output"}
  BY DEF Types
<1>2. CASE \/ Feed \/ CaptureSubs \/ Notified \/ ReaderExit \/ CaptureEnds \/ ManagerReleases
           \/ ReaderGone \/ Stopping
  BY <1>2, KeepHears DEF Feed, CaptureSubs, Notified, ReaderExit, CaptureEnds, ManagerReleases,
    ReaderGone, Stopping, Remover, RemoveSession, RemoverStops, RemoverReleases, Poller, PollerStops,
    PollerJoins, Free, queueVars
<1>3. CASE \E cb \in reader.left : Notify(cb)
  BY <1>3, NotifyHears
<1>4. CASE \E cb \in reader.left : TellEnd(cb)
  <2>1. PICK cb \in reader.left : TellEnd(cb)
    BY <1>4
  <2>2. cb[1] \in Conns
    BY DEF WebTypeOK, Closures
  <2> QED BY <1>1, <2>1, <2>2, PutHears DEF TellEnd
<1>5. ASSUME NEW c \in Conns, Handler(c)
      PROVE  /\ Queues
             /\ \A d \in Conns : Hears(d) \/ Answered(d) \/ Close(d)
  <2>1. CASE AlreadySubscribed(c)
    BY <1>1, <2>1, PutHears DEF AlreadySubscribed
  <2>2. CASE NotFound(c)
    BY <1>1, <2>2, PutHears DEF NotFound
  <2>3. CASE Created(c)
    BY <1>1, <2>3, PutHears, KeepHears DEF Created, queueVars
  <2>4. CASE Snapshot(c) \/ RegisterOutput(c) \/ RegisterEnd(c)
    BY <2>4, FailHears, KeepHears DEF Snapshot, RegisterOutput, RegisterEnd, queueVars
  <2>5. CASE Unsubscribe(c)
    BY <1>1, <2>5, PutHears DEF Unsubscribe
  <2>6. CASE Killed(c)
    BY <1>1, <2>6, PutHears DEF Killed
  <2>7. CASE Subscribe(c) \/ Hold(c)
    BY <2>7, KeepHears DEF Subscribe, Hold, queueVars
  <2>11. CASE Kill(c)
    BY <2>11, KeepHears DEF Kill, queueVars
  <2>8. CASE Produce(c)
    BY <2>8, KeepHears DEF Produce
  <2>9. CASE Reply(c)
    BY <2>9, ReplyHears, FailHears DEF Answered, Reply
  <2>10. CASE Close(c)
    BY <2>10, CloseHears
  <2> QED BY <1>5, <2>1, <2>2, <2>3, <2>4, <2>5, <2>6, <2>7, <2>8, <2>9, <2>10, <2>11 DEF Handler
<1> QED BY <1>2, <1>3, <1>4, <1>5 DEF WebNext, Reader, Stopping
-----------------------------------------------------------------------------
(***************************************************************************)
(* Where everybody stands, and who holds the session.                      *)
(***************************************************************************)
LEMMA PlacedStep ==
  ASSUME WebTypeOK, Placed, WebNext
  PROVE  Placed'
<1>1. CASE Feed
  BY <1>1 DEF Feed, Reading, Placed, connVars
<1>2. CASE CaptureSubs
  BY <1>2 DEF CaptureSubs, Placed, connVars
<1>3. CASE \E cb \in reader.left : Notify(cb)
  BY <1>3 DEF Notify, WebTypeOK, Placed, connVars
<1>4. CASE Notified
  BY <1>4 DEF Notified, Reading, Placed, connVars
<1>5. CASE ReaderExit
  BY <1>5 DEF ReaderExit, Reading, Placed, connVars
<1>6. CASE CaptureEnds
  BY <1>6 DEF CaptureEnds, Placed, connVars
<1>7. CASE ManagerReleases
  BY <1>7 DEF ManagerReleases, WebTypeOK, Placed, connVars
<1>8. CASE \E cb \in reader.left : TellEnd(cb)
  BY <1>8 DEF TellEnd, WebTypeOK, Placed, connVars
<1>9. CASE ReaderGone
  BY <1>9 DEF ReaderGone, Reading, Placed, connVars
<1>10. CASE RemoveSession
  BY <1>10 DEF RemoveSession, WebTypeOK, Placed, connVars
<1>11. CASE Stopping
  <2>1. CASE RemoverStops
    BY <2>1 DEF RemoverStops, StopBegins, WebTypeOK, Placed, connVars
  <2>2. CASE RemoverReleases
    BY <2>2 DEF RemoverReleases, WebTypeOK, Placed, connVars
  <2>3. CASE PollerStops \/ PollerJoins
    <3>1. UNCHANGED <<registered, reader, killer, loop, open, awaiting>>
      BY <2>3 DEF PollerStops, PollerJoins, connVars
    <3>2. running' => running /\ (stop # "no" \/ reader.at = "gone")
      BY <2>3, Zenon DEF PollerStops, PollerJoins, StopBegins
    <3> QED BY <3>1, <3>2 DEF Placed
  <2>4. CASE \E thread \in Threads : Free(thread)
    BY <2>4 DEF Free, Placed, sessionVars, threadVars, connVars
  <2> QED BY <1>10, <1>11, <2>1, <2>2, <2>3, <2>4 DEF Stopping, Remover, Poller
<1>12. ASSUME NEW c \in Conns, Handler(c)
       PROVE  Placed'
  <2>1. CASE AlreadySubscribed(c) \/ NotFound(c) \/ Unsubscribe(c) \/ Produce(c)
    BY <2>1 DEF AlreadySubscribed, NotFound, Unsubscribe, Produce, Placed, sessionVars, threadVars,
      connVars
  <2>2. CASE Subscribe(c)
    BY <2>2 DEF Subscribe, Request, LoopFree, Idle, StartHandler, Placed, sessionVars, threadVars,
      connVars
  <2>3. CASE Created(c)
    BY <2>3 DEF Created, Idle, StartHandler, WebTypeOK, Placed, sessionVars, threadVars
  <2>4. CASE Hold(c) \/ Snapshot(c) \/ RegisterOutput(c) \/ RegisterEnd(c) \/ Reply(c)
    <3>1. /\ loop' \in {NoHandler} \cup [at : {"snapshot", "output", "end", "reply"}, conn : {loop.conn},
                                         replay : {loop.replay, fed}]
          /\ loop.at # "none" /\ loop.conn = c
      BY <2>4 DEF Hold, Snapshot, RegisterOutput, RegisterEnd, Reply, Fails, Answer, WebTypeOK
    <3>2. UNCHANGED <<sessionVars, open, awaiting>>
      BY <2>4 DEF Hold, Snapshot, RegisterOutput, RegisterEnd, Reply, connVars
    <3> QED BY <3>1, <3>2 DEF NoHandler, WebTypeOK, Placed, sessionVars, threadVars
  <2>5. CASE Close(c)
    BY <2>5 DEF Close, Idle, Placed, sessionVars, threadVars
  <2>6. CASE Kill(c)
    BY <2>6 DEF Kill, Request, LoopFree, Idle, Placed
  <2>7. CASE Killed(c)
    <3>1. /\ UNCHANGED <<registered, running, reader, stop, loop, open, awaiting>>
          /\ killer' = [at |-> "none", conn |-> NoOne]
      BY <2>7 DEF Killed, NoKill, connVars
    <3>2. NoOne \notin awaiting
      BY DEF WebTypeOK
    <3> QED BY <3>1, <3>2 DEF Placed
  <2> QED BY <1>12, <2>1, <2>2, <2>3, <2>4, <2>5, <2>6, <2>7 DEF Handler
<1> QED BY <1>1, <1>2, <1>3, <1>4, <1>5, <1>6, <1>7, <1>8, <1>9, <1>10, <1>11, <1>12
  DEF WebNext, Reader, Stopping

Bools ==
  /\ {prehold, pending, released, refused} \subseteq BOOLEAN
  /\ freeing \subseteq Threads /\ late \subseteq Conns

\* A connection leaves, whether it had subscribed or not.  The components go with the last.
LEMMA LeaveCounts ==
  ASSUME Bools, Held, KeptWhileHeld, holds \in Nat, NEW c \in Conns, Leave(c)
  PROVE  /\ Held' /\ Bools' /\ KeptWhileHeld' /\ holds' \in Nat
         /\ subscribed' = subscribed \ {c}
         /\ GivenUp => GivenUp'
<1>1. /\ held' = held \ {c} /\ subscribed' = subscribed \ {c} /\ late' = late \ {c}
      /\ held' = subscribed' /\ UNCHANGED <<prehold, released, refused>>
  BY DEF Leave, Held
<1>2. IsFiniteSet(held) /\ Cardinality(held) \in Nat
  BY FS_CardinalityType DEF Held
<1>3. /\ IsFiniteSet(held')
      /\ Cardinality(held') = IF c \in held THEN Cardinality(held) - 1 ELSE Cardinality(held)
      /\ Cardinality(held') \in Nat
      /\ Cardinality(held') = 0 <=> held' = {}
  BY <1>1, <1>2, FS_RemoveElement, FS_CardinalityType, FS_EmptySet
<1>4. CASE c \in held
  <2>1. /\ holds' = holds - 1
        /\ pending' = (pending /\ holds # 1)
        /\ freeing' = IF pending /\ holds = 1 THEN freeing \cup {"loop"} ELSE freeing
    BY <1>4, Zenon DEF Leave, ReleaseHold
  <2>2. holds' = Cardinality(held') + (IF prehold' THEN 1 ELSE 0) /\ holds' \in Nat
    BY <1>1, <1>2, <1>3, <1>4, <2>1 DEF Held
  <2>3. /\ holds > 0 /\ holds # 1 => holds' > 0
        /\ holds = 1 => held' = {}
    BY <1>1, <1>2, <1>3, <1>4, <2>1 DEF Held
  <2>4. Bools'
    BY <1>1, <2>1 DEF Bools, Threads
  <2>5. pending' => holds' > 0
    BY <2>1, <2>3, Zenon DEF Held
  <2>6. Held'
    BY <1>1, <1>3, <2>2, <2>5, Zenon DEF Held
  <2>7. CASE pending /\ holds = 1
    BY <1>1, <2>1, <2>2, <2>3, <2>4, <2>6, <2>7 DEF KeptWhileHeld, GivenUp
  <2>8. CASE ~(pending /\ holds = 1)
    <3>1. freeing' = freeing /\ pending' = pending
      BY <2>1, <2>8 DEF Bools
    <3> QED BY <1>1, <2>2, <2>4, <2>6, <3>1 DEF KeptWhileHeld, GivenUp
  <2> QED BY <2>7, <2>8
<1>5. CASE c \notin held
  <2>1. UNCHANGED <<holds, pending, freeing>> /\ held' = held
    BY <1>1, <1>5 DEF Leave
  <2> QED BY <1>1, <1>5, <2>1 DEF Held, Bools, KeptWhileHeld, GivenUp
<1> QED BY <1>4, <1>5

\* A connection becomes a holder, and takes the creation hold over if nobody has yet.
LEMMA AcquireCounts ==
  ASSUME Bools, Held, holds \in Nat, NEW c \in Conns, c \notin held, AcquireHold,
         held' = held \cup {c}, subscribed' = subscribed \cup {c}, late' \subseteq Conns,
         UNCHANGED <<pending, released, refused, freeing>>
  PROVE  Held' /\ Bools' /\ holds' \in Nat
<1>1. IsFiniteSet(held) /\ Cardinality(held) \in Nat
  BY FS_CardinalityType DEF Held
<1>2. IsFiniteSet(held') /\ Cardinality(held') = Cardinality(held) + 1
  BY <1>1, FS_AddElement
<1>3. prehold' = FALSE /\ holds' = IF prehold THEN holds ELSE holds + 1
  BY DEF AcquireHold
<1>4. holds' = Cardinality(held') + (IF prehold' THEN 1 ELSE 0) /\ holds' \in Nat
  BY <1>1, <1>2, <1>3 DEF Held
<1>5. holds > 0 => holds' > 0
  BY <1>3
<1>6. /\ pending' = pending /\ Bools'
  BY <1>3 DEF Bools
<1>7. held' = subscribed'
  BY DEF Held
<1>8. pending' => holds' > 0
  BY <1>5, <1>6 DEF Held
<1>9. Held'
  BY <1>2, <1>4, <1>7, <1>8, Zenon DEF Held
<1> QED BY <1>4, <1>6, <1>9, Zenon

\* The release is asked for: it is refused, or decided now, or left to the last holder.
LEMMA ReleaseCounts ==
  ASSUME Bools, Held, KeptWhileHeld, holds \in Nat, NEW thread \in Threads, NEW stopped \in BOOLEAN,
         ReleaseComponents(thread, stopped), UNCHANGED <<held, subscribed>>
  PROVE  Held' /\ Bools' /\ KeptWhileHeld' /\ GivenUp' /\ holds' \in Nat
<1>1. IsFiniteSet(held) /\ Cardinality(held) \in Nat
  BY FS_CardinalityType DEF Held
<1>2. holds = 0 => held = {}
  BY <1>1, FS_EmptySet DEF Held
<1>3. /\ refused' = (refused \/ ~stopped)
      /\ pending' = IF stopped THEN holds > 0 ELSE pending
      /\ freeing' = IF stopped /\ holds = 0 THEN freeing \cup {thread} ELSE freeing
      /\ UNCHANGED <<holds, prehold, released, late, held, subscribed>>
  BY DEF ReleaseComponents
<1>4. Bools'
  <2>1. CASE stopped
    <3>1. /\ refused' \in BOOLEAN /\ pending' = (holds > 0)
          /\ freeing' \in {freeing, freeing \cup {thread}}
      BY <1>3, <2>1, Zenon
    <3>2. pending' \in BOOLEAN
      BY <3>1
    <3> QED BY <1>3, <3>1, <3>2 DEF Bools
  <2>2. CASE ~stopped
    <3>1. refused' = TRUE /\ pending' = pending /\ freeing' = freeing
      BY <1>3, <2>2
    <3> QED BY <1>3, <3>1 DEF Bools
  <2> QED BY <2>1, <2>2
<1>5. pending' => holds' > 0
  BY <1>3 DEF Held
<1>6. Held'
  BY <1>3, <1>5, Zenon DEF Held
<1>7. CASE stopped /\ holds = 0
  BY <1>2, <1>3, <1>4, <1>6, <1>7 DEF KeptWhileHeld, GivenUp
<1>8. CASE stopped /\ holds > 0
  <2>1. pending' = (holds > 0)
    BY <1>3, <1>8, Zenon
  <2>2. UNCHANGED <<released, late, held, freeing>>
    BY <1>3, <1>8
  <2>3. pending'
    BY <1>8, <2>1
  <2>4. KeptWhileHeld'
    BY <2>2 DEF KeptWhileHeld
  <2>5. GivenUp' /\ holds' \in Nat
    BY <1>3, <2>3, Zenon DEF GivenUp
  <2> QED BY <1>4, <1>6, <2>4, <2>5
<1>9. CASE ~stopped
  BY <1>3, <1>4, <1>6, <1>9 DEF KeptWhileHeld, GivenUp
<1> QED BY <1>7, <1>8, <1>9

LEMMA CountingStep ==
  ASSUME WebTypeOK, Placed, Counting, WebNext
  PROVE  Counting' /\ Bools' /\ holds' \in Nat
<1>1. Bools /\ Held /\ holds \in Nat /\ KeptWhileHeld
  BY DEF WebTypeOK, Counting, Bools
<1>2. ASSUME UNCHANGED <<holdVars, held, subscribed>>
      PROVE  /\ Held' /\ Bools' /\ KeptWhileHeld' /\ holds' \in Nat
             /\ GivenUp => GivenUp'
             /\ subscribed' = subscribed
  BY <1>1, <1>2 DEF Held, Bools, KeptWhileHeld, GivenUp, holdVars
<1>3. CASE \/ Feed \/ CaptureSubs \/ Notified \/ ReaderExit \/ CaptureEnds \/ ReaderGone
           \/ \E cb \in reader.left : Notify(cb) \/ TellEnd(cb)
           \/ RemoveSession \/ RemoverStops \/ Poller
  <2>1. /\ UNCHANGED <<holdVars, held, subscribed>> /\ loop' = loop /\ awaiting' = awaiting
    BY <1>3 DEF Feed, CaptureSubs, Notified, ReaderExit, CaptureEnds, ReaderGone, Notify, TellEnd,
      RemoveSession, RemoverStops, Poller, PollerStops, PollerJoins, connVars
  <2>2. ~registered' => reader'.at = "manager" \/ killer'.at = "stop" \/ ~registered
    <3>1. CASE CaptureEnds
      BY <3>1 DEF CaptureEnds
    <3>2. CASE RemoveSession
      BY <3>2 DEF RemoveSession, WebTypeOK
    <3>3. CASE ~CaptureEnds /\ ~RemoveSession
      BY <1>3, <3>3 DEF Feed, CaptureSubs, Notified, ReaderExit, ReaderGone, Notify, TellEnd,
        RemoverStops, Poller, PollerStops, PollerJoins
    <3> QED BY <3>1, <3>2, <3>3
  <2>3. /\ reader.at = "manager" => reader'.at = "manager"
        /\ killer.at \in {"stop", "join", "release"} => killer'.at \in {"stop", "join", "release"}
    BY <1>3 DEF Feed, CaptureSubs, Notified, ReaderExit, CaptureEnds, ReaderGone, Notify, TellEnd,
      RemoveSession, RemoverStops, Poller, PollerStops, PollerJoins, WebTypeOK
  <2> QED BY <1>2, <2>1, <2>2, <2>3, Zenon DEF Counting
<1>4. CASE ManagerReleases \/ RemoverReleases
  <2>1. /\ \E thread \in Threads : ReleaseComponents(thread, stop' = "finished")
        /\ UNCHANGED <<held, subscribed>>
        /\ loop' = loop /\ subscribed' = subscribed /\ awaiting' = awaiting
    BY <1>4 DEF ManagerReleases, RemoverReleases, connVars, Threads
  <2>2. Held' /\ Bools' /\ KeptWhileHeld' /\ GivenUp' /\ holds' \in Nat
    BY <1>1, <2>1, ReleaseCounts
  <2> QED BY <2>1, <2>2, Zenon DEF Counting
<1>6. ASSUME NEW thread \in Threads, Free(thread)
      PROVE  Counting' /\ Bools' /\ holds' \in Nat
  <2>1. /\ thread \in freeing /\ freeing' = freeing \ {thread} /\ released' = TRUE
        /\ UNCHANGED <<sessionVars, holds, prehold, pending, refused, late, connVars, loop>>
    BY <1>6 DEF Free
  <2>2. Held' /\ Bools' /\ KeptWhileHeld' /\ GivenUp'
    BY <1>1, <2>1 DEF Held, Bools, KeptWhileHeld, GivenUp, connVars
  <2>3. loop' = loop /\ subscribed' = subscribed /\ awaiting' = awaiting /\ holds' = holds
    BY <2>1 DEF connVars
  <2> QED BY <1>1, <2>2, <2>3, Zenon DEF Counting
<1>5. ASSUME NEW c \in Conns, Handler(c)
      PROVE  Counting' /\ Bools' /\ holds' \in Nat
  <2>1. CASE \/ AlreadySubscribed(c) \/ NotFound(c) \/ Subscribe(c) \/ Created(c) \/ Snapshot(c)
             \/ RegisterOutput(c) \/ RegisterEnd(c) \/ Reply(c) \/ Killed(c) \/ Produce(c)
    <3>1. /\ UNCHANGED <<holdVars, held, subscribed>> /\ subscribed' = subscribed
          /\ registered' = registered /\ reader' = reader
          /\ killer.at \in {"stop", "join", "release"} => killer' = killer
      BY <2>1 DEF AlreadySubscribed, NotFound, Subscribe, Created, Snapshot, RegisterOutput,
        RegisterEnd, Reply, Killed, Produce, sessionVars, threadVars, connVars
    <3>2. /\ awaiting' \cap subscribed = {}
          /\ loop'.at = "hold" => loop'.conn \notin subscribed
          /\ loop'.at \in {"snapshot", "output", "end", "reply"} => loop'.conn \in subscribed
      <4>1. CASE Created(c)
        BY <4>1 DEF Created, StartHandler, Counting
      <4>2. CASE Subscribe(c)
        BY <4>2 DEF Subscribe, StartHandler, Counting, connVars
      <4>3. CASE Snapshot(c) \/ Reply(c)
        <5>1. /\ awaiting' = awaiting
              /\ loop' = NoHandler \/ (loop'.at = "output" /\ loop'.conn = loop.conn)
          <6>1. CASE Snapshot(c)
            BY <6>1 DEF Snapshot, Fails, Answer, WebTypeOK, connVars
          <6>2. CASE Reply(c)
            BY <6>2 DEF Reply, Fails, Answer, connVars
          <6> QED BY <4>3, <6>1, <6>2
        <5>2. loop.conn \in subscribed
          BY <4>3 DEF Snapshot, Reply, Counting
        <5> QED BY <5>1, <5>2 DEF NoHandler, Counting
      <4>4. CASE RegisterOutput(c) \/ RegisterEnd(c)
        <5>1. /\ awaiting' = awaiting /\ loop.conn \in subscribed
              /\ loop' = NoHandler \/ (loop'.at \in {"end", "reply"} /\ loop'.conn = loop.conn)
          BY <4>4 DEF RegisterOutput, RegisterEnd, Fails, Answer, WebTypeOK, Counting, connVars
        <5> QED BY <5>1 DEF NoHandler, Counting
      <4>5. CASE AlreadySubscribed(c) \/ NotFound(c) \/ Killed(c) \/ Produce(c)
        BY <4>5 DEF AlreadySubscribed, NotFound, Killed, Produce, Counting, connVars
      <4> QED BY <2>1, <4>1, <4>2, <4>3, <4>4, <4>5
    <3> QED BY <1>2, <3>1, <3>2, Zenon DEF Counting
  <2>2. CASE Hold(c)
    <3>1. /\ c \notin held /\ AcquireHold
          /\ held' = held \cup {c} /\ subscribed' = subscribed \cup {c}
          /\ UNCHANGED <<pending, released, refused, freeing>>
          /\ late' = IF released \/ freeing # {} THEN late \cup {c} ELSE late
          /\ registered' = registered /\ reader' = reader /\ killer' = killer
      BY <1>1, <2>2 DEF Hold, Counting, Held, sessionVars, threadVars
    <3>2. Held' /\ Bools' /\ holds' \in Nat
      <4>1. late' \subseteq Conns
        BY <1>1, <3>1 DEF Bools
      <4> QED BY <1>1, <3>1, <4>1, AcquireCounts
    <3>3. loop'.at # "hold" /\ loop'.conn \in subscribed' /\ awaiting' \cap subscribed' = {}
      BY <2>2, <3>1 DEF Hold, WebTypeOK, Placed, Counting
    <3>4. KeptWhileHeld' /\ (GivenUp => GivenUp')
      BY <1>1, <3>1 DEF KeptWhileHeld, GivenUp
    <3> QED BY <3>1, <3>2, <3>3, <3>4, Zenon DEF Counting
  <2>3. CASE Unsubscribe(c) \/ Close(c) \/ Kill(c)
    <3>1. /\ Leave(c) /\ loop' = loop /\ registered' = registered /\ reader' = reader
          /\ killer.at \in {"stop", "join", "release"} => killer' = killer
          /\ loop.at = "none"
      BY <2>3 DEF Unsubscribe, Close, Kill, NoKill, Request, LoopFree, Idle, sessionVars, threadVars
    <3>2. /\ Held' /\ Bools' /\ KeptWhileHeld' /\ holds' \in Nat
          /\ subscribed' = subscribed \ {c}
          /\ GivenUp => GivenUp'
      BY <1>1, <3>1, LeaveCounts
    <3>3. /\ awaiting' \cap subscribed' = {}
          /\ loop'.at # "hold"
          /\ loop'.at \notin {"snapshot", "output", "end", "reply"}
      BY <2>3, <3>1, <3>2 DEF Unsubscribe, Close, Kill, Counting
    <3> QED BY <3>1, <3>2, <3>3, Zenon DEF Counting
  <2> QED BY <1>5, <2>1, <2>2, <2>3 DEF Handler
<1> QED BY <1>3, <1>4, <1>5, <1>6 DEF WebNext, Reader, Remover

\* What a step may do to the bounds, the requests, and what the connections keep.
LEMMA TypeStep ==
  ASSUME WebTypeOK, Placed, Counting, WebNext
  PROVE  WebTypeOK'
<1>1. Bools' /\ holds' \in Nat
  BY CountingStep
<1>2. seen' \in [Conns -> Seq(Messages)] /\ waiting' \in [Conns -> 0..Limit] /\ dropped' \subseteq Conns
  BY QueueStep DEF Queues
<1> DEFINE Rest ==
      /\ {registered, running} \subseteq BOOLEAN
      /\ fed \in 0..MaxChunks /\ requests \in 0..MaxRequests
      /\ reader \in [at : Labels, left : SUBSET Closures]
      /\ killer \in [at : {"none", "remove", "stop", "join", "release", "removed"},
                     conn : Conns \cup {NoOne}]
      /\ poller \in {"none", "join"} /\ stop \in {"no", "begun", "finished"}
      /\ loop \in [at : {"none", "hold", "snapshot", "output", "end", "reply"},
                   conn : Conns \cup {NoOne}, replay : 0..fed]
      /\ subs \cup ends \subseteq Closures
      /\ open \cup awaiting \cup subscribed \cup held \cup crossed \subseteq Conns
      /\ callback \in [Conns -> Nat]
<1>3. Rest
  BY DEF WebTypeOK
<1>4. SUFFICES Rest'
  BY <1>1, <1>2 DEF WebTypeOK, Bools
<1>5. CASE Feed
  <2>1. MaxChunks \in Nat /\ fed' \in 0..MaxChunks /\ fed' = fed + 1
    BY <1>3, <1>5 DEF Feed
  <2>2. loop \in [at : {"none", "hold", "snapshot", "output", "end", "reply"},
                  conn : Conns \cup {NoOne}, replay : 0..fed']
    BY <1>3, <2>1
  <2>3. SubscribingConn \subseteq Conns
    BY <1>3, Placed DEF SubscribingConn, Placed
  <2> QED BY <1>3, <1>5, <2>1, <2>2, <2>3 DEF Feed, Reading, Labels, publisherVars, connVars
<1>6. CASE CaptureSubs
  BY <1>3, <1>6 DEF CaptureSubs, Labels, publisherVars, connVars
<1>7. CASE \E cb \in reader.left : Notify(cb)
  BY <1>3, <1>7 DEF Notify, Labels, publisherVars, connVars
<1>8. CASE Notified \/ ReaderExit \/ ReaderGone
  <2>1. /\ reader' \in [at : {"read", "exit", "gone"}, left : {{}}] /\ running' \in {running, FALSE}
        /\ UNCHANGED <<registered, fed, killer, poller, stop, loop, publisherVars, connVars, crossed,
                       requests>>
    <3>1. CASE Notified
      BY <3>1 DEF Notified, Reading
    <3>2. CASE ReaderExit
      BY <3>2 DEF ReaderExit, Reading
    <3>3. CASE ReaderGone
      BY <3>3 DEF ReaderGone, Reading
    <3> QED BY <1>8, <3>1, <3>2, <3>3
  <2>2. reader' \in [at : Labels, left : SUBSET Closures] /\ running' \in BOOLEAN
    <3>1. {} \in SUBSET Closures
      OBVIOUS
    <3>2. reader' \in [at : Labels, left : SUBSET Closures]
      BY <2>1, <3>1 DEF Labels
    <3>3. running' \in BOOLEAN
      BY <1>3, <2>1
    <3> QED BY <3>2, <3>3
  <2> QED BY <1>3, <2>1, <2>2 DEF publisherVars, connVars
<1>9. CASE CaptureEnds
  BY <1>3, <1>9 DEF CaptureEnds, Labels, publisherVars, connVars
<1>10. CASE ManagerReleases
  BY <1>3, <1>10 DEF ManagerReleases, Labels, publisherVars, connVars
<1>11. CASE \E cb \in reader.left : TellEnd(cb)
  BY <1>3, <1>11 DEF TellEnd, Labels, publisherVars, connVars
<1>12. CASE Stopping
  <2>1. CASE RemoveSession
    BY <1>3, <2>1 DEF RemoveSession, publisherVars, connVars
  <2>2. CASE RemoverReleases
    BY <1>3, <2>2 DEF RemoverReleases, publisherVars, connVars
  <2>3. CASE RemoverStops
    <3>1. UNCHANGED <<registered, fed, reader, poller, publisherVars, connVars, loop, requests, crossed>>
      BY <2>3 DEF RemoverStops
    <3>2. /\ killer' = [killer EXCEPT !.at = killer'.at] /\ killer'.at \in {"join", "release"}
          /\ stop' \in {stop, "begun"}
      BY <1>3, <2>3 DEF RemoverStops, StopBegins
    <3>3. running' \in BOOLEAN
      BY <2>3, Zenon DEF RemoverStops, StopBegins
    <3> QED BY <1>3, <3>1, <3>2, <3>3 DEF publisherVars, connVars
  <2>4. CASE Poller
    <3>1. UNCHANGED <<registered, fed, reader, killer, publisherVars, connVars, loop, crossed>>
      BY <2>4 DEF Poller, PollerStops, PollerJoins
    <3>2. poller' \in {"none", "join"} /\ stop' \in {stop, "begun", "finished"}
      BY <2>4 DEF Poller, PollerStops, PollerJoins, StopBegins
    <3>3. running' \in BOOLEAN
      <4>1. CASE PollerStops
        BY <4>1, Zenon DEF PollerStops, StopBegins
      <4>2. CASE PollerJoins
        BY <1>3, <4>2 DEF PollerJoins
      <4> QED BY <2>4, <4>1, <4>2 DEF Poller
    <3>4. requests' \in 0..MaxRequests
      BY <1>3, <2>4, WebSubscriptionAssumption DEF Poller, PollerStops, PollerJoins
    <3> QED BY <1>3, <3>1, <3>2, <3>3, <3>4 DEF publisherVars, connVars
  <2>5. CASE \E thread \in Threads : Free(thread)
    BY <1>3, <2>5 DEF Free, sessionVars, threadVars, publisherVars, connVars
  <2> QED BY <1>12, <2>1, <2>2, <2>3, <2>4, <2>5 DEF Stopping, Remover
<1>13. ASSUME NEW c \in Conns, Handler(c)
       PROVE  Rest'
  <2>1. CASE AlreadySubscribed(c) \/ NotFound(c)
    BY <1>3, <2>1 DEF AlreadySubscribed, NotFound, Request, sessionVars, threadVars, publisherVars, connVars
  <2>2. CASE Subscribe(c)
    BY <1>3, <2>2 DEF Subscribe, StartHandler, Request, sessionVars, threadVars, publisherVars, connVars
  <2>3. CASE Created(c)
    BY <1>3, <2>3 DEF Created, StartHandler, sessionVars, threadVars, publisherVars
  <2>4. CASE Hold(c)
    BY <1>3, <2>4 DEF Hold, sessionVars, threadVars, publisherVars
  <2>5. CASE Snapshot(c)
    <3>1. loop' = NoHandler \/ loop' = [loop EXCEPT !.at = "output", !.replay = fed]
      BY <2>5 DEF Snapshot, Fails, Answer
    <3>2. crossed' \in {crossed, crossed \cup {c}, crossed \ {c}}
      BY <2>5 DEF Snapshot, Fails
    <3>3. UNCHANGED <<sessionVars, publisherVars, connVars, requests>>
      BY <2>5 DEF Snapshot, Fails, publisherVars
    <3>4. fed \in 0..fed /\ 0 \in 0..fed
      BY <1>3
    <3>5. loop' \in [at : {"none", "hold", "snapshot", "output", "end", "reply"},
                     conn : Conns \cup {NoOne}, replay : 0..fed]
      <4>1. CASE loop' = NoHandler
        BY <3>4, <4>1 DEF NoHandler
      <4>2. CASE loop' = [loop EXCEPT !.at = "output", !.replay = fed]
        <5>1. loop \in [at : {"none", "hold", "snapshot", "output", "end", "reply"},
                        conn : Conns \cup {NoOne}, replay : 0..fed]
          BY <1>3
        <5> QED BY <3>4, <4>2, <5>1
      <4> QED BY <3>1, <4>1, <4>2
    <3>6. crossed' \subseteq Conns
      BY <1>3, <3>2
    <3> QED BY <1>3, <3>3, <3>5, <3>6 DEF sessionVars, threadVars, publisherVars, connVars
  <2>6. CASE RegisterOutput(c)
    BY <1>3, <2>6 DEF RegisterOutput, Fails, Answer, NoHandler, Closures, sessionVars, threadVars
  <2>7. CASE RegisterEnd(c)
    BY <1>3, <2>7 DEF RegisterEnd, Fails, Answer, NoHandler, Closure, Closures, sessionVars, threadVars,
      connVars
  <2>8. CASE Reply(c)
    BY <1>3, <2>8 DEF Reply, Fails, Answer, NoHandler, sessionVars, threadVars, publisherVars, connVars
  <2>9. CASE Unsubscribe(c)
    BY <1>3, <2>9 DEF Unsubscribe, Leave, Request, sessionVars, threadVars, publisherVars
  <2>10. CASE Close(c)
    BY <1>3, <2>10 DEF Close, Leave, sessionVars, threadVars, publisherVars
  <2>11. CASE Kill(c)
    BY <1>3, <2>11 DEF Kill, Leave, Request, threadVars, publisherVars
  <2>12. CASE Killed(c)
    BY <1>3, <2>12 DEF Killed, NoKill, publisherVars, connVars
  <2>13. CASE Produce(c)
    BY <1>3, <2>13 DEF Produce, sessionVars, threadVars, publisherVars, connVars
  <2> QED BY <1>13, <2>1, <2>2, <2>3, <2>4, <2>5, <2>6, <2>7, <2>8, <2>9, <2>10, <2>11, <2>12,
    <2>13 DEF Handler
<1>14. Reader => Rest'
  BY <1>5, <1>6, <1>7, <1>8, <1>9, <1>10, <1>11 DEF Reader
<1>15. WebNext => Reader \/ Stopping \/ \E c \in Conns : Handler(c)
  BY DEF WebNext, Stopping
<1> QED BY <1>12, <1>13, <1>14, <1>15
-----------------------------------------------------------------------------
(***************************************************************************)
(* What each kind of step leaves alone.                                    *)
(***************************************************************************)
ReaderStep ==
  \/ Feed \/ CaptureSubs \/ Notified \/ ReaderExit \/ CaptureEnds \/ ManagerReleases \/ ReaderGone
  \/ \E cb \in reader.left : Notify(cb) \/ TellEnd(cb)
Leaving(c) == Unsubscribe(c) \/ Close(c) \/ Kill(c)
Entering(c) == Subscribe(c) \/ Created(c)
Subscribing(c) == Hold(c) \/ Snapshot(c) \/ RegisterOutput(c) \/ RegisterEnd(c) \/ Reply(c)
Aside(c) == AlreadySubscribed(c) \/ NotFound(c) \/ Killed(c) \/ Produce(c)

LEMMA StepKinds ==
  WebNext => \/ ReaderStep \/ Stopping
             \/ \E c \in Conns : Leaving(c) \/ Entering(c) \/ Subscribing(c) \/ Aside(c)
BY DEF WebNext, Reader, Handler, Stopping, ReaderStep, Leaving, Entering, Subscribing, Aside

LEMMA ReaderKeeps ==
  ASSUME ReaderStep
  PROVE  /\ publisherVars' = publisherVars /\ connVars' = connVars /\ loop' = loop
         /\ killer' = killer /\ (registered' => registered)
         /\ crossed' = crossed \/ Feed
<1>1. CASE Feed \/ CaptureSubs \/ Notified \/ ReaderExit
  BY <1>1 DEF Feed, CaptureSubs, Notified, ReaderExit
<1>2. CASE CaptureEnds \/ ManagerReleases \/ ReaderGone
  BY <1>2 DEF CaptureEnds, ManagerReleases, ReaderGone
<1>3. CASE \E cb \in reader.left : Notify(cb) \/ TellEnd(cb)
  BY <1>3 DEF Notify, TellEnd
<1> QED BY <1>1, <1>2, <1>3 DEF ReaderStep

LEMMA StoppingKeeps ==
  ASSUME WebTypeOK, Stopping
  PROVE  /\ publisherVars' = publisherVars /\ connVars' = connVars /\ loop' = loop
         /\ reader' = reader /\ fed' = fed
         /\ (registered' => registered)
         /\ killer'.conn = killer.conn /\ crossed' = crossed
<1>0. killer = [at |-> killer.at, conn |-> killer.conn]
  BY DEF WebTypeOK
<1>1. CASE Remover
  BY <1>0, <1>1 DEF Remover, RemoveSession, RemoverStops, RemoverReleases
<1>2. CASE Poller
  BY <1>2 DEF Poller, PollerStops, PollerJoins
<1>3. CASE \E thread \in Threads : Free(thread)
  BY <1>3 DEF Free, sessionVars, threadVars
<1> QED BY <1>1, <1>2, <1>3 DEF Stopping

LEMMA LeavingKeeps ==
  ASSUME NEW c \in Conns, Leaving(c)
  PROVE  /\ Leave(c) /\ loop.at = "none" /\ loop' = loop /\ callback' = callback
         /\ reader' = reader /\ fed' = fed /\ running' = running /\ registered' = registered
         /\ subscribed' = subscribed \ {c}
         /\ open' \in {open, open \ {c}} /\ awaiting' \subseteq awaiting
         /\ \A d \in Conns \ {c} : d \in crossed' <=> d \in crossed
         /\ killer' = killer \/ (killer = NoKill /\ killer'.conn = c)
         /\ \A d \in Conns \ {c} : d \in open' <=> d \in open
<1>1. CASE Unsubscribe(c)
  BY <1>1 DEF Unsubscribe, Request, LoopFree, Idle, sessionVars, threadVars, Leave
<1>2. CASE Close(c)
  BY <1>2 DEF Close, Idle, sessionVars, threadVars, Leave
<1>3. CASE Kill(c)
  BY <1>3 DEF Kill, Request, LoopFree, Idle, Leave
<1> QED BY <1>1, <1>2, <1>3 DEF Leaving

LEMMA EnteringKeeps ==
  ASSUME NEW c \in Conns, Entering(c)
  PROVE  /\ publisherVars' = publisherVars /\ sessionVars' = sessionVars /\ callback' = callback
         /\ open' = open /\ awaiting' \subseteq awaiting /\ subscribed' = subscribed
         /\ crossed' = crossed /\ loop.at = "none" 
         /\ \/ c \in awaiting
            \/ registered /\ c \notin subscribed /\ killer.conn # c
         /\ loop' = loop \/ loop' = [at |-> "hold", conn |-> c, replay |-> 0]
<1>1. CASE Subscribe(c)
  BY <1>1 DEF Subscribe, Request, LoopFree, Idle, StartHandler, sessionVars, threadVars, connVars
<1>2. CASE Created(c)
  BY <1>2 DEF Created, Idle, StartHandler
<1> QED BY <1>1, <1>2 DEF Entering

LEMMA SubscribingKeeps ==
  ASSUME NEW c \in Conns, WebTypeOK, Subscribing(c)
  PROVE  /\ sessionVars' = sessionVars /\ open' = open /\ awaiting' = awaiting
         /\ loop.conn = c /\ loop.at \in {"hold", "snapshot", "output", "end", "reply"}
         /\ loop' = NoHandler \/ (loop'.conn = c /\ loop'.at \in {"snapshot", "output", "end", "reply"})
         /\ \A d \in Conns \ {c} : callback'[d] = callback[d] /\ (d \in crossed' <=> d \in crossed)
                                   /\ (d \in subscribed' <=> d \in subscribed)
<1>0. /\ callback \in [Conns -> Nat]
      /\ loop \in [at : {"none", "hold", "snapshot", "output", "end", "reply"},
                  conn : Conns \cup {NoOne}, replay : 0..fed]
  BY DEF WebTypeOK
<1>1. CASE Hold(c)
  BY <1>0, <1>1 DEF Hold, sessionVars, threadVars
<1>2. CASE Snapshot(c)
  BY <1>0, <1>2 DEF Snapshot, Fails, Answer, connVars
<1>3. CASE RegisterOutput(c)
  BY <1>0, <1>3 DEF RegisterOutput, Fails, Answer, NoHandler
<1>4. CASE RegisterEnd(c)
  BY <1>0, <1>4 DEF RegisterEnd, Fails, Answer, NoHandler, connVars
<1>5. CASE Reply(c)
  BY <1>0, <1>5 DEF Reply, Fails, Answer, connVars
<1> QED BY <1>1, <1>2, <1>3, <1>4, <1>5 DEF Subscribing

LEMMA AsideKeeps ==
  ASSUME NEW c \in Conns, Aside(c)
  PROVE  /\ sessionVars' = sessionVars \/ Killed(c)
         /\ publisherVars' = publisherVars /\ connVars' = connVars /\ loop' = loop
         /\ registered' = registered /\ reader' = reader /\ fed' = fed /\ running' = running
         /\ crossed' = crossed
<1>1. CASE AlreadySubscribed(c) \/ NotFound(c)
  BY <1>1 DEF AlreadySubscribed, NotFound, sessionVars, threadVars
<1>2. CASE Killed(c) \/ Produce(c)
  BY <1>2 DEF Killed, Produce, sessionVars, threadVars
<1> QED BY <1>1, <1>2 DEF Aside
-----------------------------------------------------------------------------
(***************************************************************************)
(* Who is told what.                                                       *)
(***************************************************************************)
\* The types of two messages differ.
LEMMA AppendKeeps ==
  ASSUME NEW s \in Seq(Messages), NEW m \in Messages, m.type # "subscribed", NEW t,
         t \in {s, Append(s, m)}
  PROVE  /\ Tells(t, "subscribed") <=> Tells(s, "subscribed")
         /\ Tells(s, "unsubscribed") => Tells(t, "unsubscribed")
         /\ Tells(s, "session_ended") => Tells(t, "session_ended")
BY TellsAppend

LEMMA HearsKeeps ==
  ASSUME WebTypeOK, NEW d \in Conns, Hears(d)
  PROVE  /\ Tells(seen'[d], "subscribed") <=> Tells(seen[d], "subscribed")
         /\ Tells(seen[d], "unsubscribed") => Tells(seen'[d], "unsubscribed")
         /\ Tells(seen[d], "session_ended") => Tells(seen'[d], "session_ended")
         /\ \A b \in Nat : Pushed(seen[d], b) => Pushed(seen'[d], b)
         /\ \A n \in Int : Whole(seen[d], n) => Whole(seen'[d], n)
<1>1. seen[d] \in Seq(Messages)
  BY DEF WebTypeOK
<1>2. CASE seen'[d] = seen[d]
  BY <1>2
<1>3. ASSUME NEW m \in Messages, m.type \notin {"subscribed", "output"},
             seen'[d] = Append(seen[d], m)
      PROVE  /\ Tells(seen'[d], "subscribed") <=> Tells(seen[d], "subscribed")
             /\ Tells(seen[d], "unsubscribed") => Tells(seen'[d], "unsubscribed")
             /\ Tells(seen[d], "session_ended") => Tells(seen'[d], "session_ended")
             /\ \A b \in Nat : Pushed(seen[d], b) => Pushed(seen'[d], b)
             /\ \A n \in Int : Whole(seen[d], n) => Whole(seen'[d], n)
  <2>1. m.type # "subscribed" /\ m.type # "output"
    BY <1>3
  <2>2. \A b \in Nat : Pushed(seen[d], b) => Pushed(seen'[d], b)
    BY <1>1, <1>3, <2>1, PushedAppend
  <2>3. \A n \in Int : Whole(seen[d], n) => Whole(seen'[d], n)
    BY <1>1, <1>3, <2>1, WholeAppend
  <2> QED BY <1>1, <1>3, <2>1, <2>2, <2>3, AppendKeeps
<1> QED BY <1>2, <1>3 DEF Hears, Given

\* The reader has a chunk or the end for the connection, and nothing else changes.
LEMMA NotifyKeeps ==
  ASSUME WebTypeOK, NEW cb \in reader.left, Notify(cb), NEW d, d = cb[1]
  PROVE  /\ Tells(seen'[d], "subscribed") <=> Tells(seen[d], "subscribed")
         /\ Tells(seen[d], "unsubscribed") => Tells(seen'[d], "unsubscribed")
         /\ Tells(seen[d], "session_ended") => Tells(seen'[d], "session_ended")
<1> DEFINE m == Message("output", fed)
<1>1. /\ d \in Conns /\ m \in Messages /\ m.type = "output"
      /\ Given(d, m)
  BY NotifyHears
<1>2. seen[d] \in Seq(Messages) /\ m.type # "subscribed"
  BY <1>1 DEF WebTypeOK
<1> HIDE DEF m
<1> DEFINE t == seen'[d]
<1>3. t \in {seen[d], Append(seen[d], m)}
  BY <1>1 DEF Given
<1> HIDE DEF t
<1>4. /\ Tells(t, "subscribed") <=> Tells(seen[d], "subscribed")
      /\ Tells(seen[d], "unsubscribed") => Tells(t, "unsubscribed")
      /\ Tells(seen[d], "session_ended") => Tells(t, "session_ended")
  BY <1>1, <1>2, <1>3, AppendKeeps
<1> QED BY <1>4 DEF t

\* A connection that is not answered now was told what it is told, and loses nothing of it.
LEMMA ToldStep ==
  ASSUME WebTypeOK, Placed, WebNext, NEW d \in Conns, d \in open', ~Answered(d)
  PROVE  /\ Hears(d) \/ \E cb \in reader.left : cb[1] = d /\ Notify(cb)
         /\ d \in dropped => d \in dropped'
         /\ Told(d, "subscribed")' <=> Told(d, "subscribed")
         /\ Told(d, "unsubscribed") => Told(d, "unsubscribed")'
         /\ Told(d, "session_ended") => Told(d, "session_ended")'
         /\ Fresh(d) => Fresh(d)'
<1>1. Hears(d) \/ \E cb \in reader.left : cb[1] = d /\ Notify(cb)
  BY QueueStep DEF Close
<1>2. /\ d \in dropped => d \in dropped'
      /\ Tells(seen'[d], "subscribed") <=> Tells(seen[d], "subscribed")
      /\ Tells(seen[d], "unsubscribed") => Tells(seen'[d], "unsubscribed")
      /\ Tells(seen[d], "session_ended") => Tells(seen'[d], "session_ended")
  <2>1. CASE Hears(d)
    BY <2>1, HearsKeeps, Zenon DEF Hears
  <2>2. CASE \E cb \in reader.left : cb[1] = d /\ Notify(cb)
    BY <2>2, NotifyKeeps, NotifyHears
  <2> QED BY <1>1, <2>1, <2>2
<1> QED BY <1>1, <1>2, Zenon DEF Told, Fresh

LEMMA AnewStep ==
  ASSUME WebTypeOK, Placed, Counting, Anew, WebNext
  PROVE  Anew'
<1> SUFFICES ASSUME NEW c \in open', MaySubscribe(c)'
             PROVE  Fresh(c)'
  BY DEF Anew
<1>1. open' \subseteq open /\ awaiting' \subseteq awaiting /\ open \subseteq Conns
      /\ (registered' => registered)
  <2>1. open \subseteq Conns
    BY DEF WebTypeOK
  <2>2. ASSUME NEW d \in Conns, Leaving(d) \/ Entering(d) \/ Subscribing(d) \/ Aside(d)
        PROVE  open' \subseteq open /\ awaiting' \subseteq awaiting /\ (registered' => registered)
    BY <2>2, LeavingKeeps, EnteringKeeps, SubscribingKeeps, AsideKeeps DEF connVars, sessionVars
  <2>3. ASSUME ReaderStep \/ Stopping
        PROVE  open' \subseteq open /\ awaiting' \subseteq awaiting /\ (registered' => registered)
    <3>1. connVars' = connVars /\ (registered' => registered)
      BY <2>3, ReaderKeeps, StoppingKeeps
    <3> QED BY <3>1 DEF connVars
  <2>4. open' \subseteq open /\ awaiting' \subseteq awaiting /\ (registered' => registered)
    BY <2>2, <2>3, StepKinds, Zenon
  <2> QED BY <2>1, <2>4, Zenon
<1>2. ASSUME Fresh(c), ~Answered(c)
      PROVE  Fresh(c)'
  BY <1>1, <1>2, ToldStep
<1>3. CASE c \in awaiting'
  <2>1. c \in awaiting /\ loop.conn # c
    BY <1>1, <1>3 DEF Placed
  <2> QED BY <1>1, <1>2, <2>1 DEF Anew, MaySubscribe, Answered, Reply
<1>4. CASE registered' /\ c \notin subscribed' /\ killer'.conn # c
  <2>1. CASE Unsubscribe(c)
    <3>1. Put(c, <<Message("unsubscribed", 0)>>)
      BY <2>1 DEF Unsubscribe
    <3>2. /\ Message("unsubscribed", 0) \in Messages
          /\ Message("unsubscribed", 0).type = "unsubscribed"
      BY MessageTypes DEF Types
    <3>3. Given(c, Message("unsubscribed", 0)) /\ c \in open /\ c \in Conns /\ seen[c] \in Seq(Messages)
      BY <1>1, <3>1, <3>2, PutOne DEF WebTypeOK
    <3>4. Tells(Append(seen[c], Message("unsubscribed", 0)), "unsubscribed")
      BY <3>2, <3>3, TellsAppend
    <3> QED BY <3>3, <3>4 DEF Given, Fresh, Told
  <2>2. CASE ~Unsubscribe(c)
    <3>1. c \notin subscribed
      <4>1. ~Close(c) /\ ~Kill(c)
        <5>1. CASE Close(c)
          BY <5>1 DEF Close
        <5>2. CASE Kill(c)
          BY <1>4, <5>2 DEF Kill
        <5> QED BY <5>1, <5>2
      <4>2. ASSUME NEW d \in Conns, Leaving(d) \/ Entering(d) \/ Subscribing(d) \/ Aside(d), c \in subscribed
            PROVE  c \in subscribed'
        <5>1. CASE Leaving(d)
          <6>1. d # c
            BY <2>2, <4>1, <5>1 DEF Leaving
          <6> QED BY <4>2, <5>1, <6>1, LeavingKeeps
        <5>2. CASE Subscribing(d)
          BY <1>1, <4>2, <5>2 DEF Subscribing, Hold, Snapshot, RegisterOutput, RegisterEnd, Reply,
            connVars
        <5> QED BY <4>2, <5>1, <5>2, EnteringKeeps, AsideKeeps DEF connVars
      <4> QED BY <1>4, <4>2, StepKinds, ReaderKeeps, StoppingKeeps DEF connVars
    <3>2. killer.conn # c
      <4>1. CASE Killed(c)
        <5>1. killer.at = "removed" /\ registered' = registered
          BY <4>1 DEF Killed
        <5> QED BY <1>4, <5>1 DEF Placed
      <4>2. CASE ~Killed(c)
        <5>1. ASSUME NEW d \in Conns, Aside(d), killer.conn = c
              PROVE  killer'.conn = c
          BY <4>2, <5>1 DEF Aside, AlreadySubscribed, NotFound, Killed, Produce, sessionVars, threadVars
        <5>2. ASSUME NEW d \in Conns, Leaving(d), killer.conn = c
              PROVE  killer'.conn = c
          BY <1>1, <5>2, LeavingKeeps DEF NoKill
        <5>3. ASSUME NEW d \in Conns, Entering(d) \/ Subscribing(d), killer.conn = c
              PROVE  killer'.conn = c
          BY <5>3, EnteringKeeps, SubscribingKeeps DEF sessionVars, threadVars
        <5>4. ASSUME Stopping, killer.conn = c
              PROVE  killer'.conn = c
          BY <5>4, StoppingKeeps
        <5> QED BY <1>4, <5>1, <5>2, <5>3, <5>4, StepKinds, ReaderKeeps
      <4> QED BY <4>1, <4>2
    <3>3. ~Answered(c)
      BY <3>1 DEF Answered, Reply, Counting
    <3> QED BY <1>1, <1>2, <1>4, <3>1, <3>2, <3>3 DEF Anew, MaySubscribe
  <2> QED BY <2>1, <2>2
<1>5. CASE loop'.conn = c
  <2>1. c \in Conns /\ c # NoOne
    BY <1>1
  <2>2. ~Answered(c)
    BY <1>5, <2>1 DEF Answered, Reply, Fails, Answer, NoHandler
  <2>3. \/ loop.conn = c \/ c \in awaiting
        \/ registered /\ c \notin subscribed /\ killer.conn # c
    <3>1. ASSUME NEW d \in Conns, Leaving(d) \/ Subscribing(d) \/ Aside(d)
          PROVE  loop.conn = c
      BY <1>5, <2>1, <3>1, LeavingKeeps, SubscribingKeeps, AsideKeeps DEF NoHandler
    <3>2. ASSUME NEW d \in Conns, Entering(d)
          PROVE  \/ loop.conn = c \/ c \in awaiting
                 \/ registered /\ c \notin subscribed /\ killer.conn # c
      BY <1>5, <3>2, EnteringKeeps
    <3> QED BY <1>5, <3>1, <3>2, StepKinds, ReaderKeeps, StoppingKeeps
  <2> QED BY <1>1, <1>2, <2>2, <2>3 DEF Anew, MaySubscribe
<1> QED BY <1>3, <1>4, <1>5 DEF MaySubscribe

\* A connection that follows the session and was not answered just now followed it before,
\* and keeps its closure.
LEMMA FollowingStep ==
  ASSUME WebTypeOK, Placed, Anew, WebNext, NEW d \in Conns, Following(d)', ~Answered(d)
  PROVE  /\ Following(d) /\ ~Leaving(d) /\ loop.conn # d
         /\ Closure(d)' = Closure(d)
         /\ d \in crossed => d \in crossed'
<1>1. /\ d \in open' /\ d \in subscribed' /\ d \notin dropped' /\ loop'.conn # d
      /\ Told(d, "subscribed")' /\ ~Told(d, "unsubscribed")' /\ ~Fresh(d)'
  BY DEF Following, Fresh
<1>2. d \notin dropped /\ Told(d, "subscribed") /\ ~Told(d, "unsubscribed") /\ ~Fresh(d)
  BY <1>1, ToldStep
<1>3. ~Leaving(d)
  <2>1. ~Unsubscribe(d) /\ ~Kill(d) /\ ~Close(d)
    BY <1>1 DEF Unsubscribe, Kill, Close, Leave
  <2> QED BY <2>1 DEF Leaving
<1>4. ASSUME NEW c \in Conns, Leaving(c) \/ Entering(c) \/ Subscribing(c) \/ Aside(c)
      PROVE  /\ d \in open /\ (d \in subscribed \/ loop.conn = d)
             /\ loop.conn # d => Closure(d)' = Closure(d) /\ (d \in crossed => d \in crossed')
  <2>1. CASE Leaving(c)
    <3>1. d # c
      BY <1>3, <2>1
    <3> QED BY <1>1, <2>1, <3>1, LeavingKeeps DEF Closure
  <2>2. CASE Entering(c) \/ Aside(c)
    BY <1>1, <2>2, EnteringKeeps, AsideKeeps DEF Closure, connVars
  <2>3. CASE Subscribing(c)
    BY <1>1, <2>3, SubscribingKeeps DEF Closure
  <2> QED BY <1>4, <2>1, <2>2, <2>3
<1>5. ASSUME ReaderStep \/ Stopping
      PROVE  /\ d \in open /\ (d \in subscribed \/ loop.conn = d)
             /\ loop.conn # d => Closure(d)' = Closure(d) /\ (d \in crossed => d \in crossed')
  <2>1. connVars' = connVars /\ (crossed' = crossed \/ Feed)
    BY <1>5, ReaderKeeps, StoppingKeeps
  <2> QED BY <1>1, <2>1 DEF Closure, connVars, Feed
<1>6. /\ d \in open /\ (d \in subscribed \/ loop.conn = d)
      /\ loop.conn # d => Closure(d)' = Closure(d) /\ (d \in crossed => d \in crossed')
  BY <1>4, <1>5, StepKinds, Zenon
<1>7. loop.conn # d
  BY <1>2, <1>6 DEF Anew, MaySubscribe
<1> QED BY <1>2, <1>3, <1>6, <1>7 DEF Following
-----------------------------------------------------------------------------
(***************************************************************************)
(* The subscribers, and the order of what they are pushed.                 *)
(***************************************************************************)
\* A connection that is about to register was about to before, unless it leaves.
LEMMA EnrolsStep ==
  ASSUME WebTypeOK, WebNext, NEW d \in Conns, Enrols(d)'
  PROVE  Enrols(d) \/ (Leaving(d) /\ registered)
<1>1. ASSUME NEW c \in Conns, Leaving(c)
      PROVE  Enrols(d) \/ (Leaving(d) /\ registered)
  <2>1. CASE d = c
    BY <1>1, <2>1, LeavingKeeps DEF Enrols
  <2>2. CASE d # c
    BY <1>1, <2>2, LeavingKeeps DEF Enrols
  <2> QED BY <2>1, <2>2
<1>2. ASSUME NEW c \in Conns, Entering(c)
      PROVE  Enrols(d)
  BY <1>2, EnteringKeeps DEF Enrols, sessionVars
<1>3. ASSUME NEW c \in Conns, Subscribing(c)
      PROVE  Enrols(d)
  <2>1. /\ registered' = registered /\ awaiting' = awaiting /\ loop.conn = c
        /\ d # c => (d \in subscribed' <=> d \in subscribed)
    BY <1>3, SubscribingKeeps DEF sessionVars, threadVars
  <2>3. loop'.conn = d => d = c /\ loop'.at # "hold"
    BY <1>3, SubscribingKeeps DEF NoHandler
  <2>4. loop'.conn = d /\ loop'.at \in {"snapshot", "output"} => Hold(c) \/ Snapshot(c)
    <3>1. CASE RegisterOutput(c) \/ RegisterEnd(c)
      BY <3>1 DEF RegisterOutput, RegisterEnd, Fails, Answer, NoHandler, WebTypeOK
    <3>2. CASE Reply(c)
      BY <3>2 DEF Reply, Fails, Answer, NoHandler
    <3> QED BY <1>3, <3>1, <3>2 DEF Subscribing
  <2>5. d = c /\ d \notin subscribed' => d \notin subscribed
    BY <1>3 DEF Subscribing, Hold, Snapshot, RegisterOutput, RegisterEnd, Reply,
            connVars
  <2> QED BY <2>1, <2>3, <2>4, <2>5 DEF Enrols, Hold, Snapshot
<1>4. ASSUME NEW c \in Conns, Aside(c)
      PROVE  Enrols(d)
  BY <1>4, AsideKeeps DEF Enrols, connVars
<1>5. ASSUME ReaderStep \/ Stopping
      PROVE  Enrols(d)
  <2>1. connVars' = connVars /\ loop' = loop /\ (registered' => registered)
    BY <1>5, ReaderKeeps, StoppingKeeps
  <2> QED BY <2>1 DEF Enrols, connVars
<1> QED BY <1>1, <1>2, <1>3, <1>4, <1>5, StepKinds, Zenon

LEMMA OneClosureStep ==
  ASSUME WebTypeOK, Placed, Counting, OneClosure, WebNext
  PROVE  OneClosure'
<1>1. \A cb \in subs' : cb = Closure(cb[1])' /\ ~Enrols(cb[1])'
  <2> SUFFICES ASSUME NEW cb \in subs'
               PROVE  cb = Closure(cb[1])' /\ ~Enrols(cb[1])'
    OBVIOUS
  <2>1. ASSUME NEW c \in Conns, RegisterOutput(c), cb \notin subs
        PROVE  cb = Closure(cb[1])' /\ ~Enrols(cb[1])'
    <3>1. /\ cb = <<c, callback[c] + 1>> /\ callback' = [callback EXCEPT ![c] = @ + 1]
          /\ loop'.at = "end" /\ loop.conn = c /\ loop.at = "output"
          /\ awaiting' = awaiting /\ subscribed' = subscribed
      BY <2>1 DEF RegisterOutput, Fails, WebTypeOK
    <3>2. cb[1] = c /\ callback'[c] = callback[c] + 1
      BY <3>1 DEF WebTypeOK
    <3>3. c \notin awaiting /\ c \in subscribed
      BY <3>1 DEF Placed, Counting
    <3> QED BY <3>1, <3>2, <3>3 DEF Closure, Enrols
  <2>2. ASSUME cb \in subs, ~(\E c \in Conns : RegisterOutput(c) /\ c = cb[1])
        PROVE  callback'[cb[1]] = callback[cb[1]] /\ (Leaving(cb[1]) /\ registered => cb \notin subs')
    <3>1. cb[1] \in Conns /\ cb = Closure(cb[1])
      BY <2>2 DEF OneClosure, WebTypeOK, Closures
    <3>2. Leaving(cb[1]) /\ registered => cb \notin subs'
      <4>1. ASSUME NEW c \in Conns, Leaving(c), registered
            PROVE  subs' = subs \ {Closure(c)}
        BY <4>1, LeavingKeeps DEF Leave
      <4> QED BY <3>1, <4>1
    <3>3. ASSUME NEW c \in Conns, Leaving(c) \/ Entering(c) \/ Aside(c)
          PROVE  callback'[cb[1]] = callback[cb[1]]
      BY <3>3, LeavingKeeps, EnteringKeeps, AsideKeeps DEF connVars
    <3>4. ASSUME NEW c \in Conns, Subscribing(c)
          PROVE  callback'[cb[1]] = callback[cb[1]]
      <4>1. CASE cb[1] = c
        BY <2>2, <3>4, <4>1 DEF Subscribing, Hold, Snapshot, RegisterEnd, Reply, connVars
      <4>2. CASE cb[1] # c
        BY <3>1, <3>4, <4>2, SubscribingKeeps
      <4> QED BY <4>1, <4>2
    <3>5. ASSUME ReaderStep \/ Stopping
          PROVE  callback'[cb[1]] = callback[cb[1]]
      <4>1. connVars' = connVars
        BY <3>5, ReaderKeeps, StoppingKeeps
      <4> QED BY <4>1 DEF connVars
    <3>6. callback'[cb[1]] = callback[cb[1]]
      BY <3>3, <3>4, <3>5, StepKinds, Zenon
    <3> QED BY <3>2, <3>6
  <2>3. ASSUME NEW c \in Conns, RegisterOutput(c)
        PROVE  cb \in subs => cb[1] # c
    BY <2>3 DEF RegisterOutput, OneClosure, Enrols
  <2>4. CASE cb \in subs
    <3>1. cb = Closure(cb[1]) /\ ~Enrols(cb[1]) /\ cb[1] \in Conns
      BY <2>4 DEF OneClosure, WebTypeOK, Closures
    <3>2. callback'[cb[1]] = callback[cb[1]] /\ ~(Leaving(cb[1]) /\ registered)
      BY <2>2, <2>3, <2>4
    <3> QED BY <3>1, <3>2, EnrolsStep DEF Closure
  <2>5. CASE cb \notin subs
    <3>1. \E c \in Conns : RegisterOutput(c)
      <4>1. ASSUME NEW c \in Conns, Leaving(c)
            PROVE  FALSE
        BY <2>5, <4>1, LeavingKeeps DEF Leave, publisherVars
      <4>2. ASSUME NEW c \in Conns, Entering(c) \/ Aside(c)
            PROVE  FALSE
        BY <2>5, <4>2, EnteringKeeps, AsideKeeps DEF publisherVars
      <4>3. ASSUME NEW c \in Conns, Subscribing(c)
            PROVE  RegisterOutput(c)
        BY <2>5, <4>3 DEF Subscribing, Hold, Snapshot, RegisterEnd, Reply, Fails, publisherVars
      <4>4. ASSUME ReaderStep \/ Stopping
            PROVE  FALSE
        <5>1. publisherVars' = publisherVars
          BY <4>4, ReaderKeeps, StoppingKeeps
        <5> QED BY <2>5, <5>1 DEF publisherVars
      <4> QED BY <4>1, <4>2, <4>3, <4>4, StepKinds, Zenon
    <3> QED BY <2>1, <2>5, <3>1
  <2> QED BY <2>4, <2>5
<1>2. reader'.at = "notify" => \A a, b \in reader'.left : a[1] = b[1] => a = b
  <2>1. CASE CaptureSubs
    BY <2>1 DEF CaptureSubs, OneClosure
  <2>2. CASE \E cb \in reader.left : Notify(cb)
    BY <2>2 DEF Notify, OneClosure, WebTypeOK
  <2>3. CASE ReaderStep /\ ~CaptureSubs /\ ~\E cb \in reader.left : Notify(cb)
    BY <2>3 DEF ReaderStep, Feed, Notified, ReaderExit, CaptureEnds, ManagerReleases, ReaderGone,
      TellEnd, Reading, WebTypeOK
  <2>4. ASSUME NEW c \in Conns, Leaving(c) \/ Entering(c) \/ Subscribing(c) \/ Aside(c)
        PROVE  reader' = reader
    BY <2>4, LeavingKeeps, EnteringKeeps, SubscribingKeeps, AsideKeeps DEF sessionVars, threadVars
  <2>5. CASE reader' = reader
    BY <2>5 DEF OneClosure
  <2> QED BY <2>1, <2>2, <2>3, <2>4, <2>5, StepKinds, StoppingKeeps
<1> QED BY <1>1, <1>2 DEF OneClosure

\* When a chunk is on its way to a connection, and when no longer.
LEMMA DueStep ==
  ASSUME WebTypeOK, Placed, OneClosure, WebNext, NEW d \in Conns
  PROVE  \/ Feed /\ fed' = fed + 1 /\ Due(d)' /\ ~Due(d)
         \/ /\ fed' = fed /\ Due(d) /\ CaptureSubs
            /\ Closure(d) \in subs => Due(d)'
         \/ fed' = fed /\ Due(d) /\ ~Due(d)' /\ \E cb \in reader.left : cb[1] = d /\ Notify(cb)
         \/ fed' = fed /\ (Due(d)' <=> Due(d)) /\ ~\E cb \in reader.left : cb[1] = d /\ Notify(cb)
<1>1. CASE Feed
  BY <1>1 DEF Feed, Reading, Due
<1>2. CASE CaptureSubs
  BY <1>2 DEF CaptureSubs, Due, Closure
<1>3. CASE \E cb \in reader.left : Notify(cb)
  <2>1. PICK cb \in reader.left : Notify(cb)
    BY <1>3
  <2>2. /\ reader.at = "notify" /\ reader'.at = "notify" /\ reader'.left = reader.left \ {cb}
        /\ fed' = fed
    BY <2>1 DEF Notify, WebTypeOK
  <2>3. CASE cb[1] = d
    <3>1. Due(d)
      BY <2>2, <2>3 DEF Due
    <3>2. ~Due(d)'
      BY <2>2, <2>3 DEF Due, OneClosure
    <3> QED BY <2>1, <2>2, <2>3, <3>1, <3>2
  <2>4. CASE cb[1] # d
    <3>1. Due(d)' <=> Due(d)
      BY <2>2, <2>4 DEF Due
    <3>2. \A b \in reader.left : b[1] = d => ~Notify(b)
      BY <2>1, <2>2, <2>4 DEF Notify, WebTypeOK
    <3> QED BY <2>2, <3>1, <3>2
  <2> QED BY <2>3, <2>4
<1>4. ASSUME reader' = reader, fed' = fed
      PROVE  /\ Due(d)' <=> Due(d)
             /\ ~\E cb \in reader.left : cb[1] = d /\ Notify(cb)
  BY <1>4 DEF Due, Notify, WebTypeOK
<1>5. ASSUME NEW c \in Conns, Leaving(c) \/ Entering(c) \/ Subscribing(c) \/ Aside(c)
      PROVE  reader' = reader /\ fed' = fed
  BY <1>5, LeavingKeeps, EnteringKeeps, SubscribingKeeps, AsideKeeps DEF sessionVars, threadVars
<1>6. ASSUME ReaderExit \/ CaptureEnds \/ ManagerReleases \/ ReaderGone \/ Notified
             \/ \E cb \in reader.left : TellEnd(cb)
      PROVE  /\ fed' = fed /\ ~Due(d) /\ ~Due(d)'
             /\ ~\E cb \in reader.left : cb[1] = d /\ Notify(cb)
  <2>1. CASE ReaderExit \/ CaptureEnds \/ ManagerReleases \/ ReaderGone \/ Notified
    <3>1. /\ fed' = fed /\ (reader.at \in {"read", "exit", "manager", "tell"} \/ reader.left = {})
          /\ reader.at # "fed" /\ reader'.at \in {"exit", "manager", "tell", "gone", "read"}
      <4>1. CASE ReaderExit \/ CaptureEnds
        BY <4>1 DEF ReaderExit, CaptureEnds, Reading
      <4>2. CASE ManagerReleases
        BY <4>2 DEF ManagerReleases, WebTypeOK
      <4>3. CASE ReaderGone \/ Notified
        BY <4>3 DEF ReaderGone, Notified, Reading
      <4> QED BY <2>1, <4>1, <4>2, <4>3
    <3> QED BY <3>1 DEF Due, Notify
  <2>2. CASE \E cb \in reader.left : TellEnd(cb)
    <3>1. fed' = fed /\ reader.at = "tell" /\ reader'.at = "tell"
      BY <2>2 DEF TellEnd, WebTypeOK
    <3> QED BY <3>1 DEF Due, Notify
  <2> QED BY <1>6, <2>1, <2>2
<1>7. CASE ReaderStep
  BY <1>1, <1>2, <1>3, <1>6, <1>7 DEF ReaderStep
<1> QED BY <1>4, <1>5, <1>7, StepKinds, StoppingKeeps

\* A chunk pushed twice or late would have to be older than one that was pushed.
LEMMA OrderedStep ==
  ASSUME WebTypeOK, Placed, OneClosure, Ordered, WebNext
  PROVE  Ordered'
<1> SUFFICES ASSUME NEW d \in Conns
             PROVE  Pushed(seen'[d], IF Due(d)' THEN fed' ELSE fed' + 1)
  BY DEF Ordered
<1>1. /\ fed \in Nat /\ seen[d] \in Seq(Messages)
      /\ Pushed(seen[d], IF Due(d) THEN fed ELSE fed + 1)
  BY DEF WebTypeOK, Ordered
<1>2. ASSUME NEW s, NEW b \in Nat, Pushed(s, b), s \in Seq(Messages)
      PROVE  Pushed(s, b + 1)
  <2>1. \A i \in DOMAIN s : s[i].n \in Nat
    BY <1>2, MessageAt
  <2> QED BY <1>2, <2>1 DEF Pushed
<1>3. CASE \E cb \in reader.left : cb[1] = d /\ Notify(cb)
  <2> DEFINE m == Message("output", fed)
  <2>1. PICK cb \in reader.left : cb[1] = d /\ Notify(cb)
    BY <1>3
  <2>2. m \in Messages /\ m.type = "output" /\ m.n = fed /\ Given(d, m)
    BY <2>1, NotifyHears
  <2> HIDE DEF m
  <2>3. Due(d) /\ ~Due(d)' /\ fed' = fed
    BY <1>3, DueStep DEF Feed, CaptureSubs, Notify
  <2>4. Pushed(seen[d], fed)
    BY <1>1, <2>3
  <2>5. Pushed(seen[d], fed + 1)
    BY <1>1, <1>2, <2>4
  <2>6. Pushed(Append(seen[d], m), fed + 1)
    BY <1>1, <2>2, <2>4, PushedAppend
  <2> QED BY <2>2, <2>3, <2>5, <2>6 DEF Given
<1>4. CASE ~\E cb \in reader.left : cb[1] = d /\ Notify(cb)
  <2>1. \A b \in Nat : Pushed(seen[d], b) => Pushed(seen'[d], b)
    <3>1. CASE Answered(d)
      <4> DEFINE m == Message("subscribed", loop.replay)
                 n == Message("session_ended", 0)
      <4>1. seen'[d] \in {seen[d], Append(seen[d], m), Append(Append(seen[d], m), n)}
            /\ loop.replay \in Nat
        BY <3>1, ReplyHears
      <4>2. m \in Messages /\ n \in Messages /\ m.type # "output" /\ n.type # "output"
        BY <4>1, MessageTypes DEF Types
      <4> HIDE DEF m, n
      <4>3. ASSUME NEW b \in Nat, Pushed(seen[d], b)
            PROVE  Pushed(Append(seen[d], m), b) /\ Append(seen[d], m) \in Seq(Messages)
        BY <1>1, <4>2, <4>3, PushedAppend
      <4>4. ASSUME NEW b \in Nat, Pushed(seen[d], b)
            PROVE  Pushed(Append(Append(seen[d], m), n), b)
        BY <4>2, <4>3, <4>4, PushedAppend
      <4> QED BY <4>1, <4>3, <4>4
    <3>2. CASE Close(d)
      BY <3>2, CloseHears DEF Pushed, InOrder
    <3>3. CASE Hears(d)
      BY <3>3, HearsKeeps
    <3> QED BY <1>4, <3>1, <3>2, <3>3, QueueStep
  <2>2. seen'[d] \in Seq(Messages)
    BY QueueStep DEF Queues
  <2>3. CASE Feed /\ fed' = fed + 1 /\ Due(d)' /\ ~Due(d)
    BY <1>1, <2>1, <2>3
  <2>4. CASE fed' = fed /\ Due(d)
    <3>1. Pushed(seen'[d], fed)
      BY <1>1, <2>1, <2>4
    <3>2. Pushed(seen'[d], fed + 1)
      BY <1>1, <1>2, <2>2, <3>1
    <3> QED BY <2>4, <3>1, <3>2
  <2>5. CASE fed' = fed /\ ~Due(d) /\ ~Due(d)'
    BY <1>1, <2>1, <2>5
  <2> QED BY <1>4, <2>3, <2>4, <2>5, DueStep
<1> QED BY <1>3, <1>4
-----------------------------------------------------------------------------
(***************************************************************************)
(* The end and the output reach who follows the session.                   *)
(***************************************************************************)
\* The closure of a connection stays where it is until the connection leaves.
LEMMA ClosureStays ==
  ASSUME WebTypeOK, WebNext, NEW d \in Conns, ~Leaving(d)
  PROVE  /\ Closure(d) \in subs => Closure(d) \in subs'
         /\ Closure(d) \in ends => Closure(d) \in ends'
<1>1. ASSUME NEW c \in Conns, Leaving(c)
      PROVE  /\ Closure(d) \in subs => Closure(d) \in subs'
             /\ Closure(d) \in ends => Closure(d) \in ends'
  <2>1. Closure(c) # Closure(d) /\ Leave(c)
    BY <1>1, LeavingKeeps DEF Closure
  <2> QED BY <2>1 DEF Leave, publisherVars
<1>2. ASSUME NEW c \in Conns, Entering(c) \/ Aside(c)
      PROVE  publisherVars' = publisherVars
  BY <1>2, EnteringKeeps, AsideKeeps
<1>3. ASSUME NEW c \in Conns, Subscribing(c)
      PROVE  subs \subseteq subs' /\ ends \subseteq ends'
  BY <1>3 DEF Subscribing, Hold, Snapshot, RegisterOutput, RegisterEnd, Reply, Fails, publisherVars
<1>4. CASE publisherVars' = publisherVars
  BY <1>4 DEF publisherVars
<1> QED BY <1>1, <1>2, <1>3, <1>4, StepKinds, ReaderKeeps, StoppingKeeps

\* What a handler knows when it registers and answers.
LEMMA HandlerStep ==
  ASSUME WebTypeOK, Placed, OneClosure, WebNext,
         loop.at = "reply" => Closure(loop.conn) \in ends,
         loop.at \in {"end", "reply"} => Closure(loop.conn) \in subs,
         loop.at \in {"output", "end", "reply"} /\ loop.conn \notin crossed =>
           loop.replay = fed /\ ~Due(loop.conn)
  PROVE  /\ loop'.at = "reply" => Closure(loop.conn)' \in ends'
         /\ loop'.at \in {"end", "reply"} => Closure(loop.conn)' \in subs'
         /\ loop'.at \in {"output", "end", "reply"} /\ loop'.conn \notin crossed' =>
              loop'.replay = fed' /\ ~Due(loop.conn)'
<1>1. ASSUME NEW c \in Conns, Leaving(c)
      PROVE  loop'.at = "none"
  BY <1>1, LeavingKeeps
<1>2. ASSUME NEW c \in Conns, Entering(c)
      PROVE  loop'.at \in {"none", "hold"}
  BY <1>2, EnteringKeeps
<1>3. ASSUME loop' = loop, crossed' = crossed, publisherVars' = publisherVars, callback' = callback,
             ~Feed
      PROVE  /\ loop'.at = "reply" => Closure(loop.conn)' \in ends'
             /\ loop'.at \in {"end", "reply"} => Closure(loop.conn)' \in subs'
             /\ loop'.at \in {"output", "end", "reply"} /\ loop'.conn \notin crossed' =>
                  loop'.replay = fed' /\ ~Due(loop.conn)'
  <2>1. loop.at # "none" => loop.conn \in Conns
    BY DEF Placed, WebTypeOK
  <2>2. ASSUME NEW d \in Conns, ~Due(d)
        PROVE  fed' = fed /\ ~Due(d)'
    BY <1>3, <2>2, DueStep
  <2>3. loop'.conn = loop.conn /\ loop'.at = loop.at /\ loop'.replay = loop.replay
    BY <1>3
  <2>4. loop.at # "none" /\ ~Due(loop.conn) => fed' = fed /\ ~Due(loop.conn)'
    <3>1. ASSUME NEW d \in Conns, d = loop.conn, ~Due(d)
          PROVE  fed' = fed /\ ~Due(loop.conn)'
      <4>1. fed' = fed /\ ~Due(d)' /\ loop'.conn = d
        BY <2>2, <2>3, <3>1
      <4> QED BY <4>1 DEF Due
    <3> QED BY <2>1, <3>1
  <2> QED BY <1>3, <2>3, <2>4 DEF Closure, publisherVars
<1>4. CASE Feed
  <2>1. /\ loop' = loop /\ publisherVars' = publisherVars /\ connVars' = connVars
        /\ crossed' = crossed \cup SubscribingConn
    BY <1>4 DEF Feed
  <2> QED BY <2>1 DEF SubscribingConn, Closure, publisherVars, connVars
<1>5. ASSUME NEW c \in Conns, Subscribing(c)
      PROVE  /\ loop'.at = "reply" => Closure(loop.conn)' \in ends'
             /\ loop'.at \in {"end", "reply"} => Closure(loop.conn)' \in subs'
             /\ loop'.at \in {"output", "end", "reply"} /\ loop'.conn \notin crossed' =>
                  loop'.replay = fed' /\ ~Due(loop.conn)'
  <2>1. /\ reader' = reader /\ fed' = fed /\ loop.conn = c
        /\ loop' = NoHandler \/ loop'.conn = c
    BY <1>5, SubscribingKeeps DEF sessionVars, threadVars
  <2>2. CASE Hold(c) \/ Reply(c)
    BY <2>2 DEF Hold, Reply, Fails, Answer, NoHandler, WebTypeOK
  <2>3. CASE Snapshot(c)
    <3>1. CASE released
      BY <2>3, <3>1 DEF Snapshot, Fails, Answer, NoHandler
    <3>2. CASE ~released
      <4>1. /\ loop'.at = "output" /\ loop'.replay = fed /\ loop'.conn = c
            /\ c \notin crossed' => ~(reader.at = "fed" \/ \E cb \in reader.left : cb[1] = c)
        BY <2>3, <3>2 DEF Snapshot, Fails, WebTypeOK
      <4> QED BY <2>1, <4>1 DEF Due
    <3> QED BY <3>1, <3>2
  <2>6. CASE released /\ ~Hold(c)
    BY <1>5, <2>6 DEF Subscribing, Snapshot, RegisterOutput, RegisterEnd, Reply, Fails, Answer, NoHandler
  <2>4. CASE RegisterOutput(c) /\ ~released
    <3>1. /\ loop'.at = "end" /\ loop'.replay = loop.replay /\ loop'.conn = c /\ crossed' = crossed
          /\ subs' = subs \cup {<<c, callback[c] + 1>>} /\ callback'[c] = callback[c] + 1
          /\ loop.at = "output"
      BY <2>4 DEF RegisterOutput, Fails, WebTypeOK
    <3> QED BY <2>1, <3>1 DEF Due, Closure
  <2>5. CASE RegisterEnd(c) /\ ~released
    <3>1. /\ loop'.at = "reply" /\ loop'.replay = loop.replay /\ loop'.conn = c /\ crossed' = crossed
          /\ subs' = subs /\ ends' = ends \cup {Closure(c)} /\ callback' = callback
          /\ loop.at = "end"
      BY <2>5 DEF RegisterEnd, Fails, WebTypeOK, connVars
    <3> QED BY <2>1, <3>1 DEF Due, Closure
  <2> QED BY <1>5, <2>2, <2>3, <2>4, <2>5, <2>6 DEF Subscribing
<1>6. ASSUME NEW c \in Conns, Aside(c)
      PROVE  /\ loop' = loop /\ crossed' = crossed /\ publisherVars' = publisherVars
             /\ callback' = callback
  BY <1>6, AsideKeeps DEF connVars
<1>7. ASSUME ReaderStep \/ Stopping
      PROVE  Feed \/ ( /\ loop' = loop /\ crossed' = crossed /\ publisherVars' = publisherVars
                       /\ callback' = callback )
  BY <1>7, ReaderKeeps, StoppingKeeps DEF connVars
<1> QED BY <1>1, <1>2, <1>3, <1>4, <1>5, <1>6, <1>7, StepKinds

LEMMA ExpectedStep ==
  ASSUME WebTypeOK, Placed, OneClosure, Anew, Expected, Complete, WebNext
  PROVE  Expected'
<1>1. loop'.at = "reply" => Closure(loop.conn)' \in ends'
  BY HandlerStep DEF Expected, Complete
<1>2. ASSUME NEW d \in Conns, Following(d)'
      PROVE  WillBeTold(d)'
  <2>0. seen[d] \in Seq(Messages) /\ d \in open' /\ d \notin dropped'
    BY <1>2 DEF WebTypeOK, Following
  <2>1. CASE Answered(d)
    <3> DEFINE m == Message("subscribed", loop.replay)
               n == Message("session_ended", 0)
    <3>1. /\ loop.replay \in Nat
          /\ \/ running /\ seen'[d] = Append(seen[d], m)
             \/ ~running /\ seen'[d] = Append(Append(seen[d], m), n)
      BY <2>0, <2>1, ReplyHears
    <3>2. m \in Messages /\ n \in Messages /\ n.type = "session_ended"
      BY <3>1, MessageTypes DEF Types
    <3>3. CASE running
      <4>1. /\ reader' = reader /\ ends' = ends /\ callback' = callback
            /\ loop.at = "reply" /\ loop.conn = d
        BY <2>1 DEF Answered, Reply, Fails, sessionVars, threadVars, publisherVars, connVars
      <4> QED BY <3>3, <4>1 DEF Placed, Expected, WillBeTold, Closure
    <3>4. CASE ~running
      <4> HIDE DEF m, n
      <4>1. Append(seen[d], m) \in Seq(Messages)
        BY <2>0, <3>2
      <4>2. Tells(Append(Append(seen[d], m), n), "session_ended")
        BY <3>2, <4>1, TellsAppend
      <4> QED BY <3>1, <3>4, <4>2 DEF WillBeTold, Told
    <3> QED BY <3>3, <3>4
  <2>2. CASE ~Answered(d)
    <3>1. /\ Following(d) /\ ~Leaving(d) /\ Closure(d)' = Closure(d)
          /\ WillBeTold(d)
      BY <1>2, <2>2, FollowingStep DEF Expected
    <3>2. Told(d, "session_ended") => Told(d, "session_ended")'
      BY <2>0, <2>2, ToldStep
    <3>3. Closure(d) \in ends => Closure(d) \in ends'
      BY <3>1, ClosureStays
    <3>4. CASE Told(d, "session_ended")
      BY <3>2, <3>4 DEF WillBeTold
    <3>5. CASE ~Told(d, "session_ended")
      <4>1. CASE reader' = reader
        BY <3>1, <3>3, <3>5, <4>1 DEF WillBeTold
      <4>2. CASE Feed \/ CaptureSubs \/ Notified \/ ReaderExit
        <5>1. reader.at \in {"read", "fed", "notify"} /\ reader'.at \in {"read", "fed", "notify", "exit"}
          BY <4>2 DEF Feed, CaptureSubs, Notified, ReaderExit, Reading
        <5> QED BY <3>1, <3>3, <3>5, <5>1 DEF WillBeTold
      <4>3. CASE CaptureEnds \/ ManagerReleases
        <5>1. CASE CaptureEnds
          <6>1. reader.at = "exit" /\ reader'.left = ends /\ reader'.at \in {"manager", "tell"}
            BY <5>1 DEF CaptureEnds
          <6> QED BY <3>1, <3>5, <6>1 DEF WillBeTold
        <5>2. CASE ManagerReleases
          <6>1. reader.at = "manager" /\ reader'.left = reader.left /\ reader'.at = "tell"
            BY <5>2 DEF ManagerReleases, WebTypeOK
          <6> QED BY <3>1, <3>5, <6>1 DEF WillBeTold
        <5> QED BY <4>3, <5>1, <5>2
      <4>4. CASE ReaderGone
        BY <3>1, <3>5, <4>4 DEF ReaderGone, WillBeTold
      <4>5. ASSUME NEW cb \in reader.left, Notify(cb)
            PROVE  WillBeTold(d)'
        <5>1. reader.at = "notify" /\ reader'.at = "notify"
          BY <4>5 DEF Notify, WebTypeOK
        <5> QED BY <3>1, <3>3, <3>5, <5>1 DEF WillBeTold
      <4>6. ASSUME NEW cb \in reader.left, TellEnd(cb)
            PROVE  WillBeTold(d)'
        <5>1. reader.at = "tell" /\ reader'.at = "tell" /\ reader'.left = reader.left \ {cb}
          BY <4>6 DEF TellEnd, WebTypeOK
        <5>2. CASE cb = Closure(d)
          <6> DEFINE n == Message("session_ended", 0)
          <6>1. cb[1] = d /\ Put(d, <<n>>) /\ n \in Messages /\ n.type = "session_ended"
            BY <4>6, <5>2, MessageTypes DEF TellEnd, Closure, Types
          <6> HIDE DEF n
          <6>2. d \in open
            BY <3>1 DEF Following
          <6>3. Given(d, n)
            BY <6>1, PutOne
          <6>4. Tells(Append(seen[d], n), "session_ended")
            BY <2>0, <6>1, TellsAppend
          <6> QED BY <2>0, <6>2, <6>3, <6>4 DEF Given, WillBeTold, Told
        <5>3. CASE cb # Closure(d)
          BY <3>1, <3>5, <5>1, <5>3 DEF WillBeTold
        <5> QED BY <5>2, <5>3
      <4>7. ASSUME NEW c \in Conns, Leaving(c) \/ Entering(c) \/ Subscribing(c) \/ Aside(c)
            PROVE  reader' = reader
        BY <4>7, LeavingKeeps, EnteringKeeps, SubscribingKeeps, AsideKeeps DEF sessionVars, threadVars
      <4>8. CASE ReaderStep
        BY <4>2, <4>3, <4>4, <4>5, <4>6, <4>8 DEF ReaderStep
      <4> QED BY <4>1, <4>7, <4>8, StepKinds, StoppingKeeps
    <3> QED BY <3>4, <3>5
  <2> QED BY <2>1, <2>2
<1> QED BY <1>1, <1>2 DEF Expected

\* Each chunk completes what was complete up to it.
LEMMA CompleteStep ==
  ASSUME WebTypeOK, Placed, OneClosure, Anew, Expected, Complete, WebNext
  PROVE  Complete'
<1>1. /\ loop'.at \in {"end", "reply"} => Closure(loop.conn)' \in subs'
      /\ loop'.at \in {"output", "end", "reply"} /\ loop'.conn \notin crossed' =>
           loop'.replay = fed' /\ ~Due(loop.conn)'
  BY HandlerStep DEF Expected, Complete
<1>2. ASSUME NEW d \in Conns, Following(d)'
      PROVE  /\ Closure(d)' \in subs'
             /\ d \notin crossed' => Whole(seen'[d], IF Due(d)' THEN fed' - 1 ELSE fed')
  <2>1. seen[d] \in Seq(Messages) /\ d \in open' /\ d \notin dropped' /\ fed \in Nat
    BY <1>2 DEF WebTypeOK, Following
  <2>2. CASE Answered(d)
    <3> DEFINE m == Message("subscribed", loop.replay)
               n == Message("session_ended", 0)
    <3>1. /\ loop.replay \in Nat
          /\ seen'[d] \in {Append(seen[d], m), Append(Append(seen[d], m), n)}
      BY <2>1, <2>2, ReplyHears
    <3>2. /\ subs' = subs /\ callback' = callback /\ crossed' = crossed /\ fed' = fed /\ reader' = reader
          /\ loop.at = "reply" /\ loop.conn = d
      BY <2>2 DEF Answered, Reply, Fails, sessionVars, threadVars, publisherVars, connVars
    <3>3. Closure(d)' \in subs'
      BY <3>2 DEF Complete, Closure
    <3>4. ASSUME d \notin crossed'
          PROVE  Whole(seen'[d], fed) /\ ~Due(d)'
      <4>1. loop.replay = fed /\ ~Due(d)
        BY <3>2, <3>4 DEF Complete
      <4>2. Whole(Append(seen[d], m), fed)
        BY <2>1, <4>1, WholeAnswer
      <4>3. m \in Messages /\ n \in Messages /\ n.type = "session_ended"
        BY <3>1, MessageTypes DEF Types
      <4> HIDE DEF m, n
      <4>4. Append(seen[d], m) \in Seq(Messages)
        BY <2>1, <4>3
      <4>5. Whole(Append(Append(seen[d], m), n), fed)
        <5>1. n.type # "subscribed" /\ n.type # "output" /\ fed \in Int
          BY <2>1, <4>3
        <5>2. Whole(Append(Append(seen[d], m), n), IF n.type = "output" THEN fed + 1 ELSE fed)
          BY <4>2, <4>3, <4>4, <5>1, WholeAppend
        <5> QED BY <5>1, <5>2
      <4>6. ~Due(d)'
        BY <3>2, <4>1 DEF Due
      <4> QED BY <3>1, <4>2, <4>5, <4>6
    <3> QED BY <3>2, <3>3, <3>4
  <2>3. CASE ~Answered(d)
    <3>1. /\ Following(d) /\ ~Leaving(d) /\ Closure(d)' = Closure(d)
          /\ d \notin crossed' => d \notin crossed
          /\ Closure(d) \in subs
      BY <1>2, <2>3, FollowingStep DEF Complete
    <3>2. Closure(d)' \in subs'
      BY <3>1, ClosureStays
    <3>3. ASSUME d \notin crossed'
          PROVE  Whole(seen'[d], IF Due(d)' THEN fed' - 1 ELSE fed')
      <4>1. Whole(seen[d], IF Due(d) THEN fed - 1 ELSE fed)
        BY <3>1, <3>3 DEF Complete
      <4>2. CASE \E cb \in reader.left : cb[1] = d /\ Notify(cb)
        <5> DEFINE m == Message("output", fed)
        <5>1. PICK cb \in reader.left : cb[1] = d /\ Notify(cb)
          BY <4>2
        <5>2. /\ m \in Messages /\ m.type = "output" /\ m.n = fed /\ Given(d, m)
          BY <5>1, NotifyHears
        <5>3. d \in open
          BY <3>1 DEF Following
        <5>4. Due(d) /\ ~Due(d)' /\ fed' = fed
          <6>1. reader.at = "notify"
            BY <5>1 DEF Notify
          <6> QED BY <4>2, <6>1, DueStep DEF Feed, CaptureSubs
        <5> HIDE DEF m
        <5>5. Whole(Append(seen[d], m), fed)
          <6>1. fed - 1 \in Int /\ (fed - 1) + 1 = fed
            BY <2>1
          <6>2. Whole(seen[d], fed - 1)
            BY <4>1, <5>4
          <6> QED BY <2>1, <5>2, <6>1, <6>2, WholeAppend
        <5> QED BY <2>1, <5>2, <5>3, <5>4, <5>5 DEF Given
      <4>3. CASE ~\E cb \in reader.left : cb[1] = d /\ Notify(cb)
        <5>1. \A n \in Int : Whole(seen[d], n) => Whole(seen'[d], n)
          BY <2>1, <2>3, <4>3, ToldStep, HearsKeeps
        <5>2. fed \in Int /\ fed - 1 \in Int
          BY <2>1
        <5>3. CASE Feed /\ fed' = fed + 1 /\ Due(d)' /\ ~Due(d)
          BY <4>1, <5>1, <5>2, <5>3
        <5>4. CASE fed' = fed /\ (Due(d)' <=> Due(d))
          BY <4>1, <5>1, <5>2, <5>4
        <5> QED BY <3>1, <4>3, <5>3, <5>4, DueStep
      <4> QED BY <4>2, <4>3
    <3> QED BY <3>2, <3>3
  <2> QED BY <2>2, <2>3
<1> QED BY <1>1, <1>2 DEF Complete
-----------------------------------------------------------------------------
(***************************************************************************)
(* The theorems.                                                           *)
(***************************************************************************)
LEMMA WebInitInv == WebInit => WebInv
<1> SUFFICES ASSUME WebInit
             PROVE  WebInv
  OBVIOUS
<1>1. WebTypeOK
  <2>1. /\ reader \in [at : Labels, left : SUBSET Closures]
        /\ killer \in [at : {"none", "remove", "stop", "join", "release", "removed"},
                       conn : Conns \cup {NoOne}]
        /\ loop \in [at : {"none", "hold", "snapshot", "output", "end", "reply"},
                     conn : Conns \cup {NoOne}, replay : 0..fed]
    BY DEF WebInit, Reading, NoKill, NoHandler, Labels
  <2>2. /\ callback \in [Conns -> Nat] /\ seen \in [Conns -> Seq(Messages)]
        /\ waiting \in [Conns -> 0..Limit]
    BY DEF WebInit
  <2>3. /\ {registered, running, prehold, pending, released, refused} \subseteq BOOLEAN
        /\ poller \in {"none", "join"} /\ stop \in {"no", "begun", "finished"} /\ freeing \subseteq Threads
    BY DEF WebInit
  <2>4. /\ fed \in 0..MaxChunks /\ requests \in 0..MaxRequests /\ holds \in Nat
        /\ subs \cup ends \subseteq Closures
        /\ open \cup awaiting \cup subscribed \cup held \cup late \cup dropped \cup crossed
             \subseteq Conns
    BY DEF WebInit
  <2> QED BY <2>1, <2>2, <2>3, <2>4 DEF WebTypeOK
<1>2. Placed /\ OneClosure
  BY DEF WebInit, Placed, OneClosure, Reading, NoKill, NoHandler
<1>3. Counting
  <2>1. held = {} /\ subscribed = {} /\ holds = 1 /\ prehold = TRUE /\ pending = FALSE
        /\ registered = TRUE /\ loop = NoHandler
    BY DEF WebInit
  <2>2. Held
    BY <2>1, FS_EmptySet DEF Held
  <2> QED BY <2>1, <2>2 DEF Counting, KeptWhileHeld, NoHandler
<1>4. Ordered
  BY DEF WebInit, Ordered, Pushed, InOrder
<1>5. \A c \in Conns : ~Told(c, "subscribed")
  BY DEF WebInit, Told, Tells, Since
<1>6. Anew /\ Expected /\ Complete
  BY <1>5 DEF WebInit, Anew, Fresh, Expected, Complete, Following, NoHandler
<1> QED BY <1>1, <1>2, <1>3, <1>4, <1>6 DEF WebInv

LEMMA WebInvStep == WebInv /\ [WebNext]_webVars => WebInv'
<1> SUFFICES ASSUME WebInv, [WebNext]_webVars
             PROVE  WebInv'
  OBVIOUS
<1> USE DEF WebInv
<1>1. CASE WebNext
  BY <1>1, TypeStep, PlacedStep, CountingStep, OneClosureStep, OrderedStep, AnewStep, ExpectedStep,
    CompleteStep
<1>2. CASE UNCHANGED webVars
  <2> USE <1>2 DEF webVars, sessionVars, threadVars, holdVars, publisherVars, connVars, queueVars
  <2>1. WebTypeOK'
    BY DEF WebTypeOK
  <2>2. Placed' /\ Counting'
    BY DEF Placed, Counting, Held, KeptWhileHeld, GivenUp
  <2>3. OneClosure' /\ Ordered'
    BY DEF OneClosure, Closure, Enrols, Ordered, Due
  <2>4. Anew' /\ Expected' /\ Complete'
    BY DEF Anew, MaySubscribe, Fresh, Expected, WillBeTold, Complete, Following, Told, Closure, Due
  <2> QED BY <2>1, <2>2, <2>3, <2>4
<1> QED BY <1>1, <1>2

LEMMA WebInvariant == WebSpec => []WebInv
BY WebInitInv, WebInvStep, PTL DEF WebSpec

\* Every variable of the subscriptions has a value of its kind: the hold count never falls
\* below zero, and no queue grows over its limit (session.py release_hold).
THEOREM WebTypeCorrect == WebSpec => []WebTypeOK
<1>1. WebInv => WebTypeOK
  BY DEF WebInv
<1> QED BY <1>1, WebInvariant, PTL

\* The output callback pushes each chunk once at most and in order, through any number of
\* subscriptions (session/publisher.py notify_subscribers).
THEOREM OutputIsPushedInOrder == WebSpec => []PushedInOrder
<1>1. WebInv => PushedInOrder
  BY DEF WebInv, Ordered, Pushed, PushedInOrder
<1> QED BY <1>1, WebInvariant, PTL

\* When the reader has gone, each connection that follows the session was told its end,
\* by the callback or by the answer to its subscription (SubscribeSessionHandler).
THEOREM TheEndIsTold == WebSpec => []EndIsTold
<1>1. WebInv => EndIsTold
  BY DEF WebInv, Expected, WillBeTold, EndIsTold
<1> QED BY <1>1, WebInvariant, PTL

\* The replay and the pushed output make up the whole output, unless a chunk was on its
\* way while the connection subscribed.
THEOREM NothingIsMissed == WebSpec => []NothingMissed
<1>1. ASSUME WebInv, NEW c \in Conns, Quiet, Following(c), c \notin crossed
      PROVE  Completes(seen[c], fed)
  <2>1. Covers(seen[c], fed)
    BY <1>1 DEF WebInv, Complete, Whole, Due, Quiet
  <2>2. Outputs(seen[c]) \subseteq DOMAIN seen[c] /\ DOMAIN seen[c] \subseteq Int
    BY <1>1 DEF WebInv, WebTypeOK, Outputs, Since
  <2>3. \A j, k \in Outputs(seen[c]) : j < k => seen[c][j].n < seen[c][k].n
    BY <1>1, <2>2 DEF WebInv, Ordered, Pushed, InOrder, Outputs
  <2>4. \A j \in Outputs(seen[c]) : seen[c][j].n \in Nat
    <3>1. seen[c] \in Seq(Messages)
      BY <1>1 DEF WebInv, WebTypeOK
    <3>2. \A j \in DOMAIN seen[c] : seen[c][j] \in Messages
      BY <3>1
    <3>3. \A message \in Messages : message.n \in Nat
      BY DEF Messages
    <3> QED BY <2>2, <3>2, <3>3
  <2>5. \A j, k \in Outputs(seen[c]) : seen[c][j].n = seen[c][k].n => j = k
    <3>1. \A j, k \in Int : j = k \/ j < k \/ k < j
      OBVIOUS
    <3> QED BY <2>2, <2>3, <2>4, <3>1
  <2> QED BY <2>1, <2>5 DEF Completes
<1>2. WebInv => NothingMissed
  BY <1>1 DEF NothingMissed
<1> QED BY <1>2, WebInvariant, PTL

\* When the last holder of a session that has ended leaves, its components go, whichever
\* threads stopped it and in which order (session.py release_hold, release_components,
\* websocket_controller.py _cleanup).  Excepted are a creation hold that nobody took over
\* and a release that was refused because the stop was not finished.
THEOREM LastToLeaveReleases == WebSpec => []ReleasedWhenLeft
<1>1. WebInv => ReleasedWhenLeft
  <2> SUFFICES ASSUME WebInv, reader.at = "gone", Quiet, held = {}, ~prehold, ~refused
               PROVE  released
    BY DEF ReleasedWhenLeft
  <2>1. holds = 0
    BY FS_EmptySet DEF WebInv, Counting, Held
  <2>2. ~pending /\ freeing = {}
    BY <2>1 DEF WebInv, Counting, Held, Quiet
  <2> QED BY <2>2 DEF WebInv, Counting, GivenUp, Placed, Quiet, NoKill
<1> QED BY <1>1, WebInvariant, PTL

\* From the decision to release on, the session is held by nobody but connections that came
\* to hold it after the decision, whoever gives it up (session.py acquire_hold,
\* release_hold, release_components, which free the components outside the lock).
THEOREM HeldIsKept == WebSpec => []KeptWhileHeld
<1>1. WebInv => KeptWhileHeld
  BY DEF WebInv, Counting
<1> QED BY <1>1, WebInvariant, PTL
=============================================================================
