------------------------- MODULE TriggerWaitProofs --------------------------
(***************************************************************************)
(* Proofs about TriggerWait for every buffer size, chunk size, stream      *)
(* length, set of patterns, width, overlap and search limit: the types are *)
(* kept; and when one client waits at a time, output that matches is not   *)
(* missed and a match that is reported is in the window of the wait.       *)
(***************************************************************************)
EXTENDS TriggerWait, FiniteSetTheorems, TLAPS

-----------------------------------------------------------------------------
(* The inductive invariant.                                                *)

\* At most one client waits on the session.
Alone == \A v, w \in Waiters : v = w

\* The check under way is one of the pattern that is set now: it will commit
\* its cache.  Latest is the scan cache and Found the verdict once it has.
Pending == bufLock # None /\ check.cache.version = cache.version
Latest == IF Pending THEN check.cache ELSE cache
Found == matcher.matched \/ (Pending /\ check.found)

AskedPcs == {"setting", "set", "counted", "setcheck", "queue", "waiting", "clear"}

\* A check under way holds the buffer lock, and copied no later version.
Locks ==
  /\ pc[Reader] = "checking" => bufLock = Reader
  /\ \A w \in Waiters : pc[w] = "setcheck" => bufLock = w
  /\ check.cache.version <= cache.version
  /\ cache.gen <= trimGen /\ check.cache.gen <= trimGen

\* The window begins where the wait was asked, or later once bytes were trimmed.
Window ==
  \A w \in Waiters : pc[w] # "idle" =>
    /\ since[w].at <= trimBase + start[w]
    /\ since[w].at <= produced
    /\ since[w].gen <= trimGen
    /\ since[w].gen = trimGen => since[w].at = trimBase + start[w]

\* The matcher has the pattern, the start and the mode of the one who waits.
Mine ==
  \A w \in Waiters : pc[w] \in AskedPcs =>
    matcher.pattern = wants[w] /\ matcher.start = start[w] /\ matcher.mode = mode[w]

\* No byte was trimmed since w measured the buffer.
Untrimmed(w) == since[w].gen = trimGen

\* The cached text lies in the buffer, from position at on.
Inside(at, c) ==
  c.gen = trimGen =>
    /\ c.text <= c.end /\ c.end <= Len(buf)
    /\ at + c.text <= trimBase + c.end

\* The cache was searched: it is the window's whole beginning or keeps an
\* overlap, and no occurrence in the window ends within it.
Searched(w, c) ==
  c.gen = trimGen =>
    /\ start[w] <= c.end
    /\ c.end - c.text = start[w] \/ c.text >= Overlap
    /\ \A p \in occurs[wants[w]] : since[w].at <= p => trimBase + c.end < p + Width

\* The cache goes as far as position e, or as far as a search ever goes.
Reaches(w, c, e) ==
  c.gen = trimGen /\ (e <= trimBase + c.end \/ since[w].at + MaxScan <= trimBase + c.end)

\* The cache goes as far as it should: to the last byte, or with the newline
\* rule to each newline in the buffer.
Covered(w, c) ==
  IF mode[w] = "plain" THEN Reaches(w, c, produced)
  ELSE \A q \in newlines : trimBase <= q /\ q < produced => Reaches(w, c, q + 1)

\* The first check since the pattern was set was started.
Caught(w) ==
  \/ pc[w] \in {"setcheck", "queue", "waiting"}
  \/ pc[w] \in {"set", "counted"} /\ mode[w] = "newline" /\ ~ matcher.first

\* No newline in the buffer goes uncounted before a check could see it.
CountRight(w) ==
  mode[w] = "newline" =>
    /\ pc[w] = "set" => /\ matcher.count <= CountNewlines(buf)
                        /\ ~ matcher.first => matcher.count = CountNewlines(buf)
    /\ pc[w] \in {"counted", "setcheck", "queue", "waiting"} => matcher.count = CountNewlines(buf)

\* Until the pattern is found, everything behind the cache was searched.
ProgressOf(w) ==
  /\ Inside(since[w].at, Latest)
  /\ Untrimmed(w) /\ ~ Found =>
       /\ Searched(w, Latest)
       /\ Caught(w) => Covered(w, Latest)
       /\ CountRight(w)

Progress == \A w \in Waiters : pc[w] \in AskedPcs => ProgressOf(w)

\* The pattern w waits for has come since its window began.
Hit(w) == \E p \in occurs[wants[w]] : since[w].at <= p /\ p + Width <= produced

\* Any check under way began after the pattern was set, and what is found came.
HonestOf(w) == (bufLock # None => Pending) /\ (Found => Hit(w))

Honest ==
  \A w \in Waiters : since[w].quiet =>
    /\ pc[w] \in AskedPcs => HonestOf(w)
    /\ pc[w] = "clear" /\ result[w] = "matched" => Hit(w)

TriggerInv == TypeOK /\ NoDrift /\ Locks /\ Window /\ Mine /\ Progress /\ Honest
-----------------------------------------------------------------------------
(* The buffer.                                                             *)

\* A suffix of a sequence keeps its elements in order.
LEMMA SuffixOfSeq ==
  ASSUME NEW s \in Seq(Nat), NEW k \in Nat, k <= Len(s)
  PROVE  /\ SubSeq(s, k + 1, Len(s)) \in Seq(Nat)
         /\ Len(SubSeq(s, k + 1, Len(s))) = Len(s) - k
         /\ \A i \in 1..(Len(s) - k) : SubSeq(s, k + 1, Len(s))[i] = s[k + i]
OBVIOUS

\* Two sequences end to end.
LEMMA ConcatOfSeq ==
  ASSUME NEW s \in Seq(Nat), NEW t \in Seq(Nat)
  PROVE  /\ s \o t \in Seq(Nat) /\ Len(s \o t) = Len(s) + Len(t)
         /\ \A i \in 1..Len(s \o t) : (s \o t)[i] = IF i <= Len(s) THEN s[i] ELSE t[i - Len(s)]
OBVIOUS

\* The bytes of the buffer before and after n more: each is its position.
LEMMA AllBytes ==
  ASSUME NEW n \in Nat, BufferTypeOK, NoDrift,
         NEW all, all = buf \o NewBytes(n)
  PROVE  /\ all \in Seq(Nat) /\ Len(all) = Len(buf) + n
         /\ \A i \in 1..Len(all) : all[i] = trimBase + i - 1
<1>1. /\ produced \in Nat /\ trimBase \in Nat /\ buf \in Seq(Nat) /\ Len(buf) \in Nat
      /\ produced = trimBase + Len(buf)
      /\ \A i \in 1..Len(buf) : buf[i] = trimBase + i - 1
  BY DEF BufferTypeOK, NoDrift, StreamEnd
<1> DEFINE new == NewBytes(n)
<1>2. new \in Seq(Nat) /\ Len(new) = n /\ \A i \in 1..n : new[i] = produced + i - 1
  BY <1>1 DEF NewBytes
<1>3. /\ all \in Seq(Nat) /\ Len(all) = Len(buf) + n
      /\ \A i \in 1..Len(all) : all[i] = IF i <= Len(buf) THEN buf[i] ELSE new[i - Len(buf)]
  <2> HIDE DEF new
  <2>1. all = buf \o new
    BY DEF new
  <2>2. /\ buf \o new \in Seq(Nat) /\ Len(buf \o new) = Len(buf) + Len(new)
        /\ \A i \in 1..Len(buf \o new) :
             (buf \o new)[i] = IF i <= Len(buf) THEN buf[i] ELSE new[i - Len(buf)]
    BY ONLY <1>1, <1>2, ConcatOfSeq
  <2> QED BY ONLY <2>1, <2>2, <1>2
<1> HIDE DEF new
<1>4. ASSUME NEW i \in 1..Len(all) PROVE all[i] = trimBase + i - 1
  <2>1. CASE i <= Len(buf)
    BY <2>1, <1>1, <1>3
  <2>2. CASE i > Len(buf)
    <3>1. i - Len(buf) \in 1..n
      BY <2>2, <1>1, <1>3
    <3> QED BY <2>2, <3>1, <1>1, <1>2, <1>3
  <2> QED BY <2>1, <2>2, <1>1, <1>3
<1> QED BY <1>3, <1>4

\* One append: the window slides forward, and without a trim the buffer grows
\* at its end (OutputBuffer.append).
LEMMA AppendEffect ==
  ASSUME NEW n \in 1..MaxChunk, BufferTypeOK, NoDrift, AppendBytes(n)
  PROVE  /\ BufferTypeOK' /\ NoDrift'
         /\ produced' = produced + n
         /\ trimBase' >= trimBase
         /\ trimGen' = trimGen \/ trimGen' = trimGen + 1
         /\ trimGen' = trimGen => trimBase' = trimBase /\ Len(buf') = Len(buf) + n
<1>1. PICK all : all = buf \o NewBytes(n)
  OBVIOUS
<1>2. /\ n \in Nat /\ MaxSize \in Nat /\ SoftCap \in Nat /\ SoftCap >= MaxSize
      /\ produced \in Nat /\ trimBase \in Nat /\ trimGen \in Nat /\ Len(buf) \in Nat
      /\ produced = trimBase + Len(buf)
  BY BufferAssumption DEF SoftCap, BufferTypeOK, NoDrift, StreamEnd
<1>3. /\ all \in Seq(Nat) /\ Len(all) = Len(buf) + n
      /\ \A i \in 1..Len(all) : all[i] = trimBase + i - 1
  BY <1>1, <1>2, AllBytes
<1>4. /\ produced' = produced + n
      /\ IF Len(all) > SoftCap
         THEN /\ buf' = SubSeq(all, (Len(all) - MaxSize) + 1, Len(all))
              /\ trimBase' = trimBase + (Len(all) - MaxSize)
              /\ trimGen' = trimGen + 1
         ELSE buf' = all /\ trimBase' = trimBase /\ trimGen' = trimGen
  BY <1>1 DEF AppendBytes
<1>5. CASE Len(all) > SoftCap
  <2>0. Len(all) \in Nat /\ Len(all) >= MaxSize
    BY <1>2, <1>3, <1>5
  <2>1. PICK k \in Nat : k = Len(all) - MaxSize /\ k <= Len(all)
    <3>1. Len(all) - MaxSize \in Nat /\ Len(all) - MaxSize <= Len(all)
      BY <2>0, <1>2
    <3> QED BY <3>1
  <2>2. /\ buf' = SubSeq(all, k + 1, Len(all))
        /\ trimBase' = trimBase + k /\ trimGen' = trimGen + 1
    BY <1>4, <1>5, <2>1
  <2>3. /\ buf' \in Seq(Nat) /\ Len(buf') = Len(all) - k
        /\ \A i \in 1..(Len(all) - k) : buf'[i] = all[k + i]
    BY <2>1, <2>2, <1>3, SuffixOfSeq
  <2>4. \A i \in 1..Len(buf') : buf'[i] = trimBase' + i - 1
    <3>1. ASSUME NEW i \in 1..Len(buf') PROVE buf'[i] = trimBase' + i - 1
      <4>1. k + i \in 1..Len(all) /\ i \in 1..(Len(all) - k)
        BY <2>0, <2>1, <2>3
      <4>2. buf'[i] = trimBase + (k + i) - 1
        BY <4>1, <2>3, <1>3
      <4> QED BY <4>2, <2>1, <2>2, <1>2
    <3> QED BY <3>1
  <2>5. produced' = produced + n /\ produced' \in Nat /\ trimBase' + Len(buf') = produced'
    <3>1. produced' = produced + n /\ trimBase' = trimBase + k
      BY <1>4, <2>2
    <3>2. Len(buf') = Len(all) - k /\ Len(all) = Len(buf) + n
      BY <1>3, <2>3
    <3> QED BY <3>1, <3>2, <1>2, <2>0, <2>1
  <2>6. trimBase' \in Nat /\ trimBase' >= trimBase /\ trimGen' \in Nat /\ trimGen' # trimGen
    BY <2>1, <2>2, <1>2
  <2> QED BY <2>2, <2>3, <2>4, <2>5, <2>6 DEF BufferTypeOK, NoDrift, StreamEnd
<1>6. CASE ~ (Len(all) > SoftCap)
  <2>1. buf' = all /\ trimBase' = trimBase /\ trimGen' = trimGen /\ produced' = produced + n
    BY <1>4, <1>6
  <2>2. buf' \in Seq(Nat) /\ Len(buf') = Len(buf) + n
        /\ \A i \in 1..Len(buf') : buf'[i] = trimBase' + i - 1
    BY <2>1, <1>3
  <2>3. produced' \in Nat /\ trimBase' + Len(buf') = produced'
    BY <2>1, <2>2, <1>2
  <2> QED BY <2>1, <2>2, <2>3, <1>2 DEF BufferTypeOK, NoDrift, StreamEnd
<1> QED BY <1>5, <1>6

\* The newlines of a buffer are counted by a number.
LEMMA CountIsNat ==
  ASSUME NEW b \in Seq(Nat)
  PROVE  /\ CountNewlines(b) \in Nat
         /\ IsFiniteSet({i \in 1..Len(b) : b[i] \in newlines})
<1>1. IsFiniteSet(1..Len(b))
  BY FS_Interval
<1>2. IsFiniteSet({i \in 1..Len(b) : b[i] \in newlines})
  BY <1>1, FS_Subset
<1> QED BY <1>2, FS_CardinalityType DEF CountNewlines

\* As the buffer grows at its end the count does not fall, and it stays only
\* if no newline came.
LEMMA CountGrows ==
  ASSUME NEW b \in Seq(Nat), NEW c \in Seq(Nat), NEW base \in Nat, Len(b) <= Len(c),
         newlines \subseteq Nat,
         \A i \in 1..Len(b) : b[i] = base + i - 1,
         \A i \in 1..Len(c) : c[i] = base + i - 1
  PROVE  /\ CountNewlines(b) <= CountNewlines(c)
         /\ CountNewlines(c) = CountNewlines(b) =>
              \A q \in newlines : base + Len(b) <= q => ~ (q < base + Len(c))
<1> DEFINE B == {i \in 1..Len(b) : b[i] \in newlines}
           C == {i \in 1..Len(c) : c[i] \in newlines}
<1>1. B \subseteq C
  OBVIOUS
<1>2. IsFiniteSet(C)
  BY CountIsNat
<1>3. Cardinality(B) <= Cardinality(C) /\ (Cardinality(C) = Cardinality(B) => C = B)
  BY <1>1, <1>2, FS_Subset
<1>4. ASSUME C = B, NEW q \in newlines, base + Len(b) <= q, q < base + Len(c)
      PROVE  FALSE
  <2>0. q \in Nat /\ Len(b) \in Nat /\ Len(c) \in Nat
    OBVIOUS
  <2>1. q - base + 1 \in 1..Len(c) /\ q - base + 1 \notin 1..Len(b)
    BY <1>4, <2>0
  <2>2. c[q - base + 1] = q
    <3>1. c[q - base + 1] = base + (q - base + 1) - 1
      BY <2>1
    <3> QED BY <3>1, <2>0
  <2>3. q - base + 1 \in C
    BY <2>1, <2>2
  <2> QED BY <2>1, <2>3, <1>4
<1>5. CountNewlines(b) = Cardinality(B) /\ CountNewlines(c) = Cardinality(C)
  BY DEF CountNewlines
<1> HIDE DEF B, C
<1> QED BY <1>3, <1>4, <1>5
-----------------------------------------------------------------------------
(* TriggerMatcher.check.                                                   *)

\* The constants and the two types a check reads, as numbers.
ScanTypes(b, base, gen, at) ==
  /\ b \in Seq(Nat) /\ base \in Nat /\ gen \in Nat /\ at \in Nat
  /\ cache \in Caches /\ matcher.start \in Nat

\* The end and the length of the scanned text, from those of the cache or,
\* after a trim, from the start of the window.
LEMMA ScanValues ==
  ASSUME NEW b, NEW base, NEW gen, NEW at, ScanTypes(b, base, gen, at)
  PROVE  \E e, t \in Nat :
           /\ \/ cache.gen = gen /\ e = cache.end /\ t = cache.text
              \/ cache.gen # gen /\ e = ScanStart(b) /\ t = 0
           /\ Scanned(b, gen) \in Caches
           /\ Scanned(b, gen).gen = gen /\ Scanned(b, gen).version = cache.version
           /\ \/ /\ ScanLimit(b) <= e
                 /\ Scanned(b, gen).end = e /\ Scanned(b, gen).text = t
              \/ /\ ScanLimit(b) > e
                 /\ Scanned(b, gen).end = ScanLimit(b)
                 /\ \/ Scanned(b, gen).text = t + (ScanLimit(b) - e)
                    \/ t >= Overlap /\ Scanned(b, gen).text = Overlap + (ScanLimit(b) - e)
                 /\ Scanned(b, gen).text <= t + (ScanLimit(b) - e)
<1> DEFINE old == IF cache.gen = gen THEN cache
                  ELSE [cache EXCEPT !.gen = gen, !.end = ScanStart(b), !.text = 0]
           lim == ScanLimit(b)
           c   == Scanned(b, gen)
<1>1. /\ Len(b) \in Nat /\ gen \in Nat /\ matcher.start \in Nat
      /\ cache \in Caches /\ MaxScan \in Nat /\ Overlap \in Nat
  BY TriggerAssumption DEF ScanTypes
<1>2. ScanStart(b) \in Nat
  BY <1>1 DEF ScanStart
<1>3. lim \in Nat
  BY <1>1, <1>2 DEF ScanLimit
<1>4. old \in Caches /\ old.gen = gen /\ old.version = cache.version
      /\ \/ cache.gen = gen /\ old.end = cache.end /\ old.text = cache.text
         \/ cache.gen # gen /\ old.end = ScanStart(b) /\ old.text = 0
  <2>1. CASE cache.gen = gen
    BY <2>1, <1>1
  <2>2. CASE cache.gen # gen
    BY <2>2, <1>1, <1>2 DEF Caches
  <2> QED BY <2>1, <2>2
<1>5. c = IF lim - old.end <= 0 THEN old
          ELSE [old EXCEPT !.end = lim,
                           !.text = IF @ + (lim - old.end) > Overlap + (lim - old.end)
                                    THEN Overlap + (lim - old.end)
                                    ELSE @ + (lim - old.end)]
  BY DEF Scanned
<1> HIDE DEF old, lim, c
<1>6. old.end \in Nat /\ old.text \in Nat
  BY <1>4 DEF Caches
<1> DEFINE new == lim - old.end
           txt == IF old.text + new > Overlap + new THEN Overlap + new ELSE old.text + new
<1>7. CASE new <= 0
  <2>1. c = old /\ lim <= old.end
    BY <1>3, <1>5, <1>6, <1>7
  <2> QED BY <2>1, <1>4, <1>6 DEF c, lim
<1>8. CASE ~ (new <= 0)
  <2>1. c = [old EXCEPT !.end = lim, !.text = txt]
    BY <1>5, <1>8
  <2>2. new \in Nat /\ lim > old.end
    BY <1>3, <1>6, <1>8
  <2>3. /\ txt \in Nat /\ txt <= old.text + new
        /\ txt = old.text + new \/ (old.text >= Overlap /\ txt = Overlap + new)
    <3> HIDE DEF new
    <3>1. CASE old.text + new > Overlap + new
      <4>1. txt = Overlap + new
        BY <3>1
      <4> QED BY <4>1, <3>1, <2>2, <1>1, <1>6
    <3>2. CASE ~ (old.text + new > Overlap + new)
      <4>1. txt = old.text + new
        BY <3>2
      <4> QED BY <4>1, <2>2, <1>1, <1>6
    <3> QED BY <3>1, <3>2
  <2> HIDE DEF txt
  <2>4. c \in Caches /\ c.gen = gen /\ c.version = cache.version /\ c.end = lim /\ c.text = txt
    BY <2>1, <2>3, <1>3, <1>4 DEF Caches
  <2> QED BY <2>2, <2>3, <2>4, <1>4, <1>6 DEF c, lim
<1> QED BY <1>7, <1>8

\* What is scanned lies within the buffer and behind the start of the window.
LEMMA ScanInside ==
  ASSUME NEW b, NEW base, NEW gen, NEW at, ScanTypes(b, base, gen, at),
         at <= base + matcher.start, at <= base + Len(b),
         cache.gen = gen => /\ cache.text <= cache.end /\ cache.end <= Len(b)
                            /\ at + cache.text <= base + cache.end
  PROVE  /\ Scanned(b, gen) \in Caches
         /\ Scanned(b, gen).gen = gen /\ Scanned(b, gen).version = cache.version
         /\ Scanned(b, gen).text <= Scanned(b, gen).end
         /\ Scanned(b, gen).end <= Len(b)
         /\ at + Scanned(b, gen).text <= base + Scanned(b, gen).end
<1> DEFINE lim == ScanLimit(b)
           c   == Scanned(b, gen)
<1>1. /\ Len(b) \in Nat /\ base \in Nat /\ gen \in Nat /\ at \in Nat /\ matcher.start \in Nat
      /\ MaxScan \in Nat /\ Overlap \in Nat
  BY TriggerAssumption DEF ScanTypes
<1>2. ScanStart(b) \in Nat /\ ScanStart(b) <= Len(b) /\ at <= base + ScanStart(b)
  BY <1>1 DEF ScanStart
<1>3. lim \in Nat /\ lim <= Len(b)
  BY <1>1, <1>2 DEF ScanLimit
<1>4. PICK e, t \in Nat :
        /\ \/ cache.gen = gen /\ e = cache.end /\ t = cache.text
           \/ cache.gen # gen /\ e = ScanStart(b) /\ t = 0
        /\ c \in Caches /\ c.gen = gen /\ c.version = cache.version
        /\ \/ lim <= e /\ c.end = e /\ c.text = t
           \/ /\ lim > e /\ c.end = lim
              /\ \/ c.text = t + (lim - e)
                 \/ t >= Overlap /\ c.text = Overlap + (lim - e)
              /\ c.text <= t + (lim - e)
  BY ScanValues
<1>5. t <= e /\ e <= Len(b) /\ at + t <= base + e
  BY <1>1, <1>2, <1>4
<1> HIDE DEF lim, c
<1>6. c.text \in Nat /\ c.end \in Nat
  BY <1>4 DEF Caches
<1>7. c.text <= c.end /\ c.end <= Len(b) /\ at + c.text <= base + c.end
  BY <1>1, <1>3, <1>4, <1>5, <1>6
<1> QED BY <1>4, <1>7 DEF c

\* In a buffer that was not trimmed since the window began a check that finds
\* nothing has searched to the limit, across every chunk boundary before it.
LEMMA ScanSearches ==
  ASSUME NEW b, NEW base, NEW gen, NEW at, ScanTypes(b, base, gen, at),
         at = base + matcher.start, at <= base + Len(b),
         NEW occ, occ \subseteq Nat,
         cache.gen = gen =>
           /\ cache.text <= cache.end
           /\ matcher.start <= cache.end
           /\ cache.end - cache.text = matcher.start \/ cache.text >= Overlap
           /\ \A p \in occ : at <= p => base + cache.end < p + Width,
         \A p \in occ : ~ (/\ base + Scanned(b, gen).end - Scanned(b, gen).text <= p
                           /\ p + Width <= base + Scanned(b, gen).end)
  PROVE  /\ matcher.start <= Scanned(b, gen).end
         /\ \/ Scanned(b, gen).end - Scanned(b, gen).text = matcher.start
            \/ Scanned(b, gen).text >= Overlap
         /\ \A p \in occ : at <= p => base + Scanned(b, gen).end < p + Width
         /\ \/ base + Len(b) <= base + Scanned(b, gen).end
            \/ at + MaxScan <= base + Scanned(b, gen).end
<1> DEFINE lim == ScanLimit(b)
           c   == Scanned(b, gen)
<1>1. /\ Len(b) \in Nat /\ base \in Nat /\ gen \in Nat /\ at \in Nat /\ matcher.start \in Nat
      /\ MaxScan \in Nat /\ Overlap \in Nat
      /\ Width \in Nat \ {0} /\ Overlap >= Width - 1
  BY TriggerAssumption DEF ScanTypes
<1>2. ScanStart(b) = matcher.start /\ matcher.start <= Len(b)
  BY <1>1 DEF ScanStart
<1>3. lim \in Nat /\ lim <= Len(b) /\ (lim = Len(b) \/ lim = matcher.start + MaxScan)
  BY <1>1, <1>2 DEF ScanLimit
<1>4. PICK e, t \in Nat :
        /\ \/ cache.gen = gen /\ e = cache.end /\ t = cache.text
           \/ cache.gen # gen /\ e = ScanStart(b) /\ t = 0
        /\ c \in Caches /\ c.gen = gen /\ c.version = cache.version
        /\ \/ lim <= e /\ c.end = e /\ c.text = t
           \/ /\ lim > e /\ c.end = lim
              /\ \/ c.text = t + (lim - e)
                 \/ t >= Overlap /\ c.text = Overlap + (lim - e)
              /\ c.text <= t + (lim - e)
  BY ScanValues
<1>5. t <= e /\ matcher.start <= e /\ (e - t = matcher.start \/ t >= Overlap)
  BY <1>1, <1>2, <1>4
<1>6. ASSUME NEW p \in occ, at <= p PROVE base + e < p + Width
  <2>1. CASE cache.gen = gen
    BY <2>1, <1>4, <1>6
  <2>2. CASE e = matcher.start
    BY <2>2, <1>1, <1>6
  <2> QED BY <2>1, <2>2, <1>2, <1>4
<1>7. \A p \in occ : ~ (base + c.end - c.text <= p /\ p + Width <= base + c.end)
  OBVIOUS
<1> HIDE DEF lim, c
<1>8. CASE lim <= e
  <2>1. c.end = e /\ c.text = t
    BY <1>3, <1>4, <1>8
  <2>2. base + Len(b) <= base + e \/ at + MaxScan <= base + e
    BY <1>1, <1>3, <1>8
  <2> QED BY <2>1, <2>2, <1>5, <1>6 DEF c
<1>9. CASE lim > e
  <2>1. c.end = lim
    BY <1>3, <1>4, <1>9
  <2>2. /\ \/ lim - c.text = e - t
           \/ t >= Overlap /\ lim - c.text = e - Overlap
        /\ c.text = t + (lim - e) \/ c.text = Overlap + (lim - e)
    BY <1>1, <1>3, <1>4, <1>9
  <2>3. c.text \in Nat /\ lim - c.text \in Int
    BY <1>3, <1>4 DEF Caches
  <2>4. lim - c.text = matcher.start \/ c.text >= Overlap
    BY <2>2, <1>1, <1>3, <1>5, <1>9
  <2>5. lim - c.text = matcher.start \/ lim - c.text <= e - Overlap
    BY <2>2, <2>3, <1>1, <1>5
  <2>6. ASSUME NEW p \in occ, at <= p PROVE base + lim < p + Width
    <3>1. p \in Nat /\ ~ (base + lim - c.text <= p /\ p + Width <= base + lim)
      BY <2>1, <1>7
    <3>2. base + lim - c.text <= p
      <4>1. CASE lim - c.text = matcher.start
        BY <4>1, <2>3, <2>6, <3>1, <1>1, <1>3
      <4>2. CASE lim - c.text <= e - Overlap
        <5>1. base + e < p + Width
          BY <2>6, <1>6
        <5> QED BY <5>1, <4>2, <2>3, <3>1, <1>1, <1>3
      <4> QED BY <4>1, <4>2, <2>5
    <3> QED BY <3>1, <3>2, <1>1, <1>3
  <2>7. matcher.start <= lim
    BY <1>1, <1>3, <1>5, <1>9
  <2>8. base + Len(b) <= base + lim \/ at + MaxScan <= base + lim
    BY <1>1, <1>3
  <2> QED BY <2>1, <2>4, <2>6, <2>7, <2>8 DEF c
<1> QED BY <1>3, <1>8, <1>9
-----------------------------------------------------------------------------
(* The types.                                                              *)

MatcherType ==
  matcher \in [pattern : Patterns \cup {NoPattern}, matched : BOOLEAN, start : Nat,
               mode : Modes, count : Nat, first : BOOLEAN]

\* A check that starts keeps the types and moves its thread only.
LEMMA StartTypes ==
  ASSUME TypeOK, NEW a, NEW busy, NEW done,
         NEW b \in Seq(Nat), NEW base \in Nat, NEW gen \in Nat,
         StartCheck(a, b, base, gen, busy, done)
  PROVE  /\ MatcherType' /\ check' \in [found : BOOLEAN, cache : Caches]
         /\ bufLock' = bufLock \/ bufLock' = a
         /\ pc' = [pc EXCEPT ![a] = busy] \/ pc' = [pc EXCEPT ![a] = done]
<1>1. MatcherType /\ check \in [found : BOOLEAN, cache : Caches] /\ cache \in Caches
  BY DEF TypeOK, MatcherType
<1>2. CASE Checkable(b)
  <2>1. matcher' = Counted(b) /\ check' = CheckOf(b, base, gen)
        /\ bufLock' = a /\ pc' = [pc EXCEPT ![a] = busy]
    BY <1>2 DEF StartCheck, Goto
  <2>2. CountNewlines(b) \in Nat
    BY CountIsNat
  <2>3. MatcherType'
    BY <2>1, <2>2, <1>1 DEF Counted, MatcherType
  <2>4. Scanned(b, gen) \in Caches
    <3>1. ScanTypes(b, base, gen, 0)
      BY <1>1 DEF ScanTypes, MatcherType
    <3> QED BY <3>1, ScanValues
  <2>5. FoundIn(matcher.pattern, Scanned(b, gen), base) \in BOOLEAN
    BY DEF FoundIn
  <2>6. check' \in [found : BOOLEAN, cache : Caches]
    BY <2>1, <2>4, <2>5 DEF CheckOf
  <2> QED BY <2>1, <2>3, <2>6
<1>3. CASE ~ Checkable(b)
  <2>1. pc' = [pc EXCEPT ![a] = done] /\ UNCHANGED <<matcher, check, bufLock>>
    BY <1>3 DEF StartCheck, Goto
  <2> QED BY <2>1, <1>1 DEF MatcherType
<1> QED BY <1>2, <1>3

\* So does a check that ends.
LEMMA FinishTypes ==
  ASSUME TypeOK, NEW a, NEW busy, NEW done, FinishCheck(a, busy, done)
  PROVE  /\ MatcherType' /\ check' \in [found : BOOLEAN, cache : Caches]
         /\ cache' \in Caches /\ bufLock' = None
         /\ pc' = [pc EXCEPT ![a] = done]
<1>1. MatcherType /\ check \in [found : BOOLEAN, cache : Caches] /\ cache \in Caches
  BY DEF TypeOK, MatcherType
<1>2. /\ matcher' = [matcher EXCEPT !.matched = @ \/ check.found]
      /\ cache' = IF cache.version = check.cache.version THEN check.cache ELSE cache
      /\ check' = NoCheck /\ bufLock' = None /\ pc' = [pc EXCEPT ![a] = done]
  BY DEF FinishCheck, Goto
<1>3. MatcherType'
  BY <1>1, <1>2 DEF MatcherType
<1>4. NoCheck \in [found : BOOLEAN, cache : Caches]
  BY DEF NoCheck, EmptyCache, Caches
<1> QED BY <1>1, <1>2, <1>3, <1>4

\* The types of what no check touches.
WaitTypes ==
  /\ trigLock \in Waiters \cup {None}
  /\ start \in [Waiters -> Nat] /\ mode \in [Waiters -> Modes]
  /\ wants \in [Waiters -> Patterns \cup {NoPattern}]
  /\ \A w \in Waiters : pc[w] # "idle" => wants[w] \in Patterns
  /\ since \in [Waiters -> [at : Nat, gen : Nat, quiet : BOOLEAN]]
  /\ result \in [Waiters -> {None, "matched", "other"}]
  /\ rounds \in [Waiters -> 0..MaxRounds]

PcTypes ==
  /\ pc \in [Waiters \cup {Reader} -> WaiterPcs \cup {"checking"}]
  /\ \A w \in Waiters : pc[w] \in WaiterPcs

DataTypes == occurs \in [Patterns -> SUBSET Nat] /\ newlines \subseteq Nat

\* The type invariant in parts, as the proofs use it.
LEMMA TypeParts ==
  TypeOK <=> /\ BufferTypeOK /\ DataTypes /\ MatcherType
             /\ cache \in Caches /\ check \in [found : BOOLEAN, cache : Caches]
             /\ bufLock \in Waiters \cup {Reader, None}
             /\ WaitTypes /\ PcTypes
BY DEF TypeOK, DataTypes, MatcherType, WaitTypes, PcTypes

\* And what shows it after a step.
LEMMA TypePartsNext ==
  ASSUME BufferTypeOK', DataTypes', MatcherType', WaitTypes', PcTypes',
         cache' \in Caches, check' \in [found : BOOLEAN, cache : Caches],
         bufLock' \in Waiters \cup {Reader, None}
  PROVE  TypeOK'
BY DEF TypeOK, DataTypes, MatcherType, WaitTypes, PcTypes

\* The initial states have the types.
LEMMA InitTypes == Init => TypeOK
<1> SUFFICES ASSUME Init PROVE TypeOK
  OBVIOUS
<1>1. BufferTypeOK
  BY DEF Init, BufferInit, BufferTypeOK
<1>2. DataTypes
  <2>1. occurs \in [Patterns -> {{}} \cup {{p} : p \in 0..(MaxStream - Width)}]
        /\ newlines \in NewlineSets
    BY DEF Init
  <2>2. {{}} \cup {{p} : p \in 0..(MaxStream - Width)} \subseteq SUBSET Nat
    BY BufferAssumption, TriggerAssumption
  <2>3. \A q \in Patterns : occurs[q] \in SUBSET Nat
    BY <2>1, <2>2
  <2>4. newlines \subseteq Nat
    BY <2>1, TriggerAssumption
  <2> QED BY <2>1, <2>3, <2>4 DEF DataTypes
<1>3. MatcherType
  BY DEF Init, IdleMatcher, MatcherType, Modes
<1>4. cache \in Caches /\ check \in [found : BOOLEAN, cache : Caches]
  BY DEF Init, EmptyCache, NoCheck, Caches
<1>5. bufLock \in Waiters \cup {Reader, None}
  BY DEF Init
<1>6. PcTypes
  BY DEF Init, PcTypes, WaiterPcs
<1>7. WaitTypes
  <2>1. \A w \in Waiters : pc[w] = "idle"
    BY DEF Init
  <2> QED BY <2>1, TriggerAssumption DEF Init, WaitTypes, Modes
<1> QED BY <1>1, <1>2, <1>3, <1>4, <1>5, <1>6, <1>7, TypeParts
-----------------------------------------------------------------------------
(* A check that starts, on a buffer that may just have grown.              *)

\* How the buffer may have moved in the same step.
Slides ==
  /\ BufferTypeOK' /\ NoDrift'
  /\ produced' >= produced /\ trimBase' >= trimBase /\ trimGen' >= trimGen
  /\ trimGen' = trimGen => trimBase' = trimBase /\ Len(buf') >= Len(buf)

\* The window of a wait that goes on stays behind what the buffer drops.
LEMMA WindowSlides ==
  ASSUME TypeOK, Window, Slides, NEW w \in Waiters, pc[w] # "idle"
  PROVE  /\ since[w].at \in Nat /\ since[w].gen \in Nat /\ start[w] \in Nat
         /\ since[w].at <= trimBase' + start[w]
         /\ since[w].at <= produced' /\ produced' = trimBase' + Len(buf')
         /\ since[w].gen <= trimGen'
         /\ since[w].gen = trimGen' =>
              /\ trimGen' = trimGen /\ trimBase' = trimBase
              /\ since[w].at = trimBase' + start[w]
<1>1. /\ since[w].at \in Nat /\ since[w].gen \in Nat /\ start[w] \in Nat
      /\ produced \in Nat /\ trimBase \in Nat /\ trimGen \in Nat
      /\ produced' \in Nat /\ trimBase' \in Nat /\ trimGen' \in Nat
  BY DEF TypeOK, BufferTypeOK, Slides
<1>2. produced' = trimBase' + Len(buf')
  BY DEF Slides, NoDrift, StreamEnd
<1>3. /\ since[w].at <= trimBase + start[w] /\ since[w].at <= produced
      /\ since[w].gen <= trimGen
      /\ since[w].gen = trimGen => since[w].at = trimBase + start[w]
  BY DEF Window
<1>4. /\ produced' >= produced /\ trimBase' >= trimBase /\ trimGen' >= trimGen
      /\ trimGen' = trimGen => trimBase' = trimBase
  BY DEF Slides
<1>5. PICK at \in Nat, g \in Nat, st \in Nat :
        at = since[w].at /\ g = since[w].gen /\ st = start[w]
  BY <1>1
<1>6. /\ at <= trimBase' + st /\ at <= produced' /\ g <= trimGen'
      /\ g = trimGen' => /\ trimGen' = trimGen /\ trimBase' = trimBase
                         /\ at = trimBase' + st
  BY <1>1, <1>3, <1>4, <1>5
<1> QED BY <1>1, <1>2, <1>5, <1>6

\* A check that starts keeps what is known of the search, over every chunk
\* boundary and newline, and finds only what is there (TriggerMatcher.check).
LEMMA StartKeeps ==
  ASSUME TriggerInv, Slides, NEW w \in Waiters, NEW a \in Waiters \cup {Reader},
         NEW busy, NEW done, bufLock = None,
         pc[w] \in AskedPcs, pc'[w] \in AskedPcs,
         pc'[w] = pc[w] \/ (pc[w] = "counted" /\ pc'[w] \in {"setcheck", "queue"}),
         StartCheck(a, buf', trimBase', trimGen', busy, done),
         UNCHANGED <<occurs, newlines, cache, start, wants, mode, since>>
  PROVE  ProgressOf(w)' /\ (since[w].quiet => HonestOf(w)')
<1> DEFINE at  == since[w].at
           occ == occurs[wants[w]]
<1>1. /\ at \in Nat /\ since[w].gen \in Nat /\ start[w] \in Nat
      /\ at <= trimBase' + start[w]
      /\ at <= produced' /\ produced' = trimBase' + Len(buf')
      /\ since[w].gen <= trimGen'
      /\ since[w].gen = trimGen' => /\ trimGen' = trimGen /\ trimBase' = trimBase
                                    /\ at = trimBase' + start[w]
  BY WindowSlides DEF TriggerInv, AskedPcs
<1>2. matcher.pattern = wants[w] /\ matcher.start = start[w] /\ matcher.mode = mode[w]
  BY DEF TriggerInv, Mine
<1>3. /\ trimBase' \in Nat /\ trimGen' \in Nat /\ buf' \in Seq(Nat) /\ Len(buf') \in Nat
      /\ trimBase \in Nat /\ trimGen \in Nat /\ buf \in Seq(Nat) /\ Len(buf) \in Nat
      /\ produced \in Nat /\ produced' \in Nat /\ produced = trimBase + Len(buf)
      /\ produced' >= produced
      /\ trimGen' = trimGen => trimBase' = trimBase /\ Len(buf') >= Len(buf)
  <2>1. BufferTypeOK /\ BufferTypeOK' /\ NoDrift
    BY DEF TriggerInv, TypeOK, Slides
  <2>2. produced = trimBase + Len(buf)
    BY <2>1 DEF NoDrift, StreamEnd
  <2> QED BY <2>1, <2>2 DEF BufferTypeOK, Slides
<1>4. /\ cache \in Caches /\ cache.gen \in Int /\ cache.end \in Nat /\ cache.text \in Nat
      /\ cache.version \in Nat /\ cache.gen <= trimGen
      /\ wants[w] \in Patterns /\ occ \subseteq Nat /\ mode[w] \in Modes
  <2>1. /\ cache \in Caches /\ cache.gen <= trimGen
        /\ wants[w] \in Patterns /\ occ \subseteq Nat /\ mode[w] \in Modes
    BY DEF TriggerInv, TypeOK, Locks, AskedPcs
  <2> QED BY <2>1 DEF Caches
<1>5. Latest = cache /\ ~ Pending /\ (Found <=> matcher.matched)
  BY DEF Latest, Pending, Found
<1>6. cache.gen = trimGen' => /\ cache.gen = trimGen /\ trimGen' = trimGen
                              /\ trimBase' = trimBase /\ Len(buf') >= Len(buf)
  BY <1>3, <1>4 DEF Slides
<1>7. cache.gen = trimGen' => /\ cache.text <= cache.end /\ cache.end <= Len(buf')
                              /\ at + cache.text <= trimBase' + cache.end
  <2>1. Inside(at, cache)
    BY <1>5 DEF TriggerInv, Progress, ProgressOf
  <2> QED BY <2>1, <1>1, <1>3, <1>4, <1>6 DEF Inside
<1>8. ASSUME Untrimmed(w)', ~ matcher.matched
      PROVE  /\ Untrimmed(w) /\ Searched(w, cache)
             /\ Caught(w) => Covered(w, cache)
             /\ CountRight(w)
             /\ trimGen' = trimGen /\ trimBase' = trimBase /\ at = trimBase' + start[w]
  <2>1. since[w].gen = trimGen'
    BY <1>8 DEF Untrimmed
  <2>2. Untrimmed(w) /\ ~ Found
    BY <2>1, <1>1, <1>5, <1>8 DEF Untrimmed
  <2> QED BY <2>1, <2>2, <1>1, <1>5 DEF TriggerInv, Progress, ProgressOf
<1>9. ASSUME Untrimmed(w)', ~ matcher.matched
      PROVE  /\ CountNewlines(buf) \in Nat /\ CountNewlines(buf)' \in Nat
             /\ CountNewlines(buf') = CountNewlines(buf)'
             /\ CountNewlines(buf) <= CountNewlines(buf)'
             /\ CountNewlines(buf)' = CountNewlines(buf) =>
                  \A q \in newlines : produced <= q => ~ (q < produced')
  <2>1. CountNewlines(buf') = CountNewlines(buf)'
    BY DEF CountNewlines
  <2>2. /\ \A i \in 1..Len(buf) : buf[i] = trimBase + i - 1
        /\ \A i \in 1..Len(buf') : buf'[i] = trimBase + i - 1
    BY <1>8, <1>9 DEF TriggerInv, NoDrift, Slides
  <2>3. newlines \subseteq Nat
    BY DEF TriggerInv, TypeOK
  <2>4. /\ CountNewlines(buf) <= CountNewlines(buf')
        /\ CountNewlines(buf') = CountNewlines(buf) =>
             \A q \in newlines : trimBase + Len(buf) <= q => ~ (q < trimBase + Len(buf'))
    BY <2>2, <2>3, <1>3, <1>8, <1>9, CountGrows
  <2>5. CountNewlines(buf) \in Nat /\ CountNewlines(buf') \in Nat
    BY <1>3, CountIsNat
  <2> QED BY <2>1, <2>4, <2>5, <1>1, <1>3, <1>8, <1>9
<1>10. CASE Checkable(buf')
  <2>1. /\ matcher' = Counted(buf') /\ check' = CheckOf(buf', trimBase', trimGen')
        /\ bufLock' = a /\ ~ matcher.matched
    BY <1>10 DEF StartCheck, Checkable
  <2>2. PICK c : c = Scanned(buf', trimGen')
    OBVIOUS
  <2>3. PICK f \in BOOLEAN : f = FoundIn(wants[w], c, trimBase')
    <3>1. FoundIn(wants[w], c, trimBase') \in BOOLEAN
      BY DEF FoundIn
    <3> QED BY <3>1
  <2>4. check'.cache = c /\ check'.found = f
    BY <2>1, <2>2, <2>3, <1>2 DEF CheckOf
  <2>5. ScanTypes(buf', trimBase', trimGen', at)
    BY <1>1, <1>2, <1>3, <1>4 DEF ScanTypes
  <2>6. /\ c \in Caches /\ c.gen = trimGen' /\ c.version = cache.version
        /\ c.text <= c.end /\ c.end <= Len(buf') /\ at + c.text <= trimBase' + c.end
    <3> HIDE DEF at
    <3>1. at <= trimBase' + matcher.start /\ at <= trimBase' + Len(buf')
      BY <1>1, <1>2
    <3> QED BY ONLY <3>1, <2>2, <2>5, <1>7, ScanInside
  <2>7. c.text \in Nat /\ c.end \in Nat
    BY <2>6 DEF Caches
  <2>8. matcher'.matched = FALSE
    <3>1. MatcherType /\ CountNewlines(buf') \in Nat
      BY <1>3, CountIsNat, TypeParts DEF TriggerInv
    <3> QED BY <2>1, <3>1 DEF Counted, MatcherType
  <2>9. Pending' /\ Latest' = c /\ (Found' <=> f)
    <3>1. bufLock' # None
      BY <2>1, TriggerAssumption DEF Reader, None
    <3>2. Pending'
      BY <3>1, <2>4, <2>6 DEF Pending
    <3> QED BY <3>2, <2>4, <2>8 DEF Latest, Found
  <2>10. Inside(since[w].at, Latest)'
    BY <2>6, <2>9 DEF Inside
  <2>11. HonestOf(w)'
    <3>1. ASSUME f PROVE Hit(w)'
      <4>1. PICK p \in occ : trimBase' + c.end - c.text <= p /\ p + Width <= trimBase' + c.end
        BY <2>3, <3>1 DEF FoundIn
      <4>2. p \in Nat /\ Width \in Nat
        BY <1>4, TriggerAssumption
      <4>3. at <= p /\ p + Width <= produced'
        <5> HIDE DEF at, occ
        <5>1. at <= p
          <6>1. at \in Nat /\ trimBase' \in Nat /\ at + c.text <= trimBase' + c.end
            BY <2>6, <1>1, <1>3
          <6>2. trimBase' + c.end - c.text <= p
            BY <4>1
          <6> QED BY ONLY <6>1, <6>2, <4>2, <2>7
        <5>2. c.end <= Len(buf') /\ produced' = trimBase' + Len(buf')
          BY <2>6, <1>1
        <5> QED BY <5>1, <5>2, <4>1, <4>2, <2>7, <1>3
      <4> QED BY <4>3 DEF Hit
    <3> QED BY <2>9, <3>1 DEF HonestOf
  <2>12. ASSUME Untrimmed(w)', ~ Found'
         PROVE  (Searched(w, Latest) /\ (Caught(w) => Covered(w, Latest)) /\ CountRight(w))'
    <3>1. /\ at = trimBase' + matcher.start /\ start[w] = matcher.start
          /\ trimGen' = trimGen /\ trimBase' = trimBase
      BY <2>1, <2>12, <1>2, <1>8
    <3>2. cache.gen = trimGen' =>
            /\ cache.text <= cache.end
            /\ matcher.start <= cache.end
            /\ cache.end - cache.text = matcher.start \/ cache.text >= Overlap
            /\ \A p \in occ : at <= p => trimBase' + cache.end < p + Width
      BY <2>1, <2>12, <3>1, <1>6, <1>7, <1>8 DEF Searched
    <3>3. \A p \in occ : ~ (/\ trimBase' + c.end - c.text <= p
                            /\ p + Width <= trimBase' + c.end)
      BY <2>3, <2>9, <2>12 DEF FoundIn
    <3> HIDE DEF at, occ
    <3>4. /\ matcher.start <= c.end
          /\ c.end - c.text = matcher.start \/ c.text >= Overlap
          /\ \A p \in occ : at <= p => trimBase' + c.end < p + Width
          /\ trimBase' + Len(buf') <= trimBase' + c.end \/ at + MaxScan <= trimBase' + c.end
      BY <2>2, <2>5, <3>1, <3>2, <3>3, <1>1, <1>4, ScanSearches
    <3> USE DEF at, occ
    <3>5. Searched(w, Latest)'
      BY <2>9, <3>1, <3>4 DEF Searched
    <3>6. Reaches(w, Latest, produced)'
      BY <2>6, <2>9, <3>4, <1>1 DEF Reaches
    <3>7. Covered(w, Latest)'
      <4>1. ASSUME NEW q \in newlines, q < produced' PROVE Reaches(w, Latest, q + 1)'
        <5>1. q \in Nat /\ MaxScan \in Nat
          BY TriggerAssumption DEF TriggerInv, TypeOK
        <5> QED BY <4>1, <5>1, <3>6, <2>6, <2>7, <2>9, <1>1, <1>3 DEF Reaches
      <4> QED BY <3>6, <4>1 DEF Covered
    <3>8. CountRight(w)'
      <4>1. SUFFICES ASSUME mode[w] = "newline"
                     PROVE  CountRight(w)'
        BY DEF CountRight
      <4>2. MatcherType /\ matcher.count \in Nat
        BY TypeParts DEF TriggerInv, MatcherType
      <4>3. /\ pc[w] = "set" => /\ matcher.count <= CountNewlines(buf)
                                /\ ~ matcher.first => matcher.count = CountNewlines(buf)
            /\ pc[w] \in {"counted", "setcheck", "queue", "waiting"} =>
                 matcher.count = CountNewlines(buf)
        BY <4>1, <2>1, <2>12, <1>8 DEF CountRight
      <4>4. /\ CountNewlines(buf) \in Nat /\ CountNewlines(buf)' \in Nat
            /\ CountNewlines(buf') = CountNewlines(buf)'
            /\ CountNewlines(buf) <= CountNewlines(buf)'
        BY <2>1, <2>12, <1>9
      <4>5. CASE CountNewlines(buf') > matcher.count
        <5>1. matcher' = [matcher EXCEPT !.count = CountNewlines(buf')]
          BY <4>1, <4>5, <2>1, <1>2 DEF Counted
        <5>2. matcher'.count = CountNewlines(buf)'
          BY <5>1, <4>2, <4>4 DEF MatcherType
        <5> QED BY <5>2, <4>4 DEF CountRight
      <4>6. CASE ~ (CountNewlines(buf') > matcher.count)
        <5>1. matcher' = [matcher EXCEPT !.first = FALSE]
          BY <4>1, <4>6, <2>1, <1>2 DEF Counted
        <5>2. matcher'.count = matcher.count
          BY <5>1, <4>2 DEF MatcherType
        <5>3. pc[w] \in {"set", "counted", "setcheck", "queue", "waiting"} =>
                matcher.count = CountNewlines(buf)'
          BY <4>2, <4>3, <4>4, <4>6
        <5> QED BY <5>2, <5>3, <4>4 DEF CountRight
      <4> QED BY <4>5, <4>6
    <3> QED BY <3>5, <3>7, <3>8
  <2> QED BY <2>10, <2>11, <2>12 DEF ProgressOf
<1>11. CASE ~ Checkable(buf')
  <2>1. matcher' = matcher /\ check' = check /\ bufLock' = bufLock
    BY <1>11 DEF StartCheck
  <2>2. ~ Pending' /\ Latest' = cache /\ (Found' <=> matcher.matched)
    BY <2>1 DEF Pending, Latest, Found
  <2>3. Inside(since[w].at, Latest)'
    BY <2>2, <1>7 DEF Inside
  <2>4. since[w].quiet => HonestOf(w)'
    <3>1. ASSUME since[w].quiet, matcher.matched PROVE Hit(w)'
      <4>1. Hit(w)
        BY <3>1, <1>5 DEF TriggerInv, Honest, HonestOf
      <4>2. PICK p \in occ : at <= p /\ p + Width <= produced
        BY <4>1 DEF Hit
      <4>3. p \in Nat /\ Width \in Nat
        BY <1>4, TriggerAssumption
      <4>4. p + Width <= produced'
        BY <4>2, <4>3, <1>3
      <4> QED BY <4>2, <4>4 DEF Hit
    <3> QED BY <3>1, <2>1, <2>2 DEF HonestOf
  <2>5. ASSUME Untrimmed(w)', ~ Found'
        PROVE  (Searched(w, Latest) /\ (Caught(w) => Covered(w, Latest)) /\ CountRight(w))'
    <3>1. ~ matcher.matched
      BY <2>2, <2>5
    <3>2. /\ Searched(w, cache) /\ (Caught(w) => Covered(w, cache)) /\ CountRight(w)
          /\ trimGen' = trimGen /\ trimBase' = trimBase
      BY <2>5, <3>1, <1>8
    <3>3. /\ CountNewlines(buf) \in Nat /\ CountNewlines(buf)' \in Nat
          /\ CountNewlines(buf') = CountNewlines(buf)'
          /\ CountNewlines(buf) <= CountNewlines(buf)'
          /\ CountNewlines(buf)' = CountNewlines(buf) =>
               \A q \in newlines : produced <= q => ~ (q < produced')
      BY <2>5, <3>1, <1>9
    <3>4. /\ mode[w] = "newline" /\ ~ (CountNewlines(buf') > matcher.count)
          /\ ~ matcher.first
      <4>1. ~ NewlineAllows(buf')
        BY <3>1, <1>2, <1>4, <1>11, TriggerAssumption DEF Checkable
      <4> QED BY <4>1, <1>2, <1>4 DEF NewlineAllows, Modes
    <3>5. matcher.count \in Nat
      BY TypeParts DEF TriggerInv, MatcherType
    <3>6. pc[w] \in {"set", "counted", "setcheck", "queue", "waiting"} =>
            matcher.count = CountNewlines(buf)' /\ CountNewlines(buf)' = CountNewlines(buf)
      BY <3>2, <3>3, <3>4, <3>5 DEF CountRight
    <3>7. Searched(w, Latest)'
      BY <2>2, <3>2 DEF Searched
    <3>8. CountRight(w)'
      BY <2>1, <3>3, <3>6 DEF CountRight
    <3>9. ASSUME Caught(w)' PROVE Covered(w, Latest)'
      <4>1. /\ pc[w] \in {"set", "counted", "setcheck", "queue", "waiting"} /\ Caught(w)
        BY <2>1, <3>4, <3>9 DEF Caught
      <4>2. ASSUME NEW q \in newlines, trimBase' <= q, q < produced'
            PROVE  Reaches(w, cache, q + 1)'
        <5>1. q \in Nat
          BY DEF TriggerInv, TypeOK
        <5>2. q < produced
          BY <4>1, <4>2, <5>1, <3>3, <3>6, <1>3
        <5>3. Reaches(w, cache, q + 1)
          BY <4>1, <4>2, <5>2, <3>2, <3>4 DEF Covered
        <5> QED BY <5>3, <3>2 DEF Reaches
      <4> QED BY <2>2, <3>4, <4>2 DEF Covered, Reaches
    <3> QED BY <3>7, <3>8, <3>9
  <2> QED BY <2>3, <2>4, <2>5 DEF ProgressOf
<1> QED BY <1>10, <1>11
-----------------------------------------------------------------------------
(* The other steps of a wait that goes on.                                 *)

\* A check that ends commits what was counted on, or finds more.
LEMMA FinishKeeps ==
  ASSUME TriggerInv, NEW w \in Waiters, NEW a, NEW busy, NEW done, bufLock # None,
         pc[w] \in AskedPcs,
         pc'[w] = pc[w] \/ (pc[w] = "setcheck" /\ pc'[w] = "queue"),
         FinishCheck(a, busy, done),
         UNCHANGED <<bufferVars, dataVars, start, wants, mode, since>>
  PROVE  ProgressOf(w)' /\ (since[w].quiet => HonestOf(w)')
<1>1. /\ matcher' = [matcher EXCEPT !.matched = @ \/ check.found]
      /\ cache' = IF cache.version = check.cache.version THEN check.cache ELSE cache
      /\ bufLock' = None
  BY DEF FinishCheck
<1>2. /\ matcher'.matched <=> (matcher.matched \/ check.found)
      /\ matcher'.first = matcher.first /\ matcher'.count = matcher.count
  BY <1>1, TypeParts DEF TriggerInv, MatcherType
<1>3. UNCHANGED <<produced, buf, trimBase, trimGen, occurs, newlines>>
      /\ UNCHANGED <<start, wants, mode, since>>
  BY DEF bufferVars, dataVars
<1>4. ~ Pending' /\ Latest' = Latest
  BY <1>1 DEF Pending, Latest
<1>5. (Found => Found') /\ (Pending => (Found <=> Found'))
  BY <1>2, <1>4 DEF Found
<1>6. ProgressOf(w)
  BY DEF TriggerInv, Progress
<1>7. ProgressOf(w)'
  <2>1. Inside(since[w].at, Latest)'
    BY <1>3, <1>4, <1>6 DEF ProgressOf, Inside
  <2>2. ASSUME Untrimmed(w)', ~ Found'
        PROVE  (Searched(w, Latest) /\ (Caught(w) => Covered(w, Latest)) /\ CountRight(w))'
    <3>1. Searched(w, Latest) /\ (Caught(w) => Covered(w, Latest)) /\ CountRight(w)
      BY <2>2, <1>3, <1>5, <1>6 DEF ProgressOf, Untrimmed
    <3>2. Searched(w, Latest)'
      BY <3>1, <1>3, <1>4 DEF Searched
    <3>3. Caught(w)' => Covered(w, Latest)'
      <4>1. Caught(w)' => Caught(w)
        BY <1>2, <1>3 DEF Caught
      <4> QED BY <4>1, <3>1, <1>3, <1>4 DEF Covered, Reaches
    <3>4. CountRight(w)'
      <4>1. CountNewlines(buf)' = CountNewlines(buf)
        BY <1>3 DEF CountNewlines
      <4> QED BY <4>1, <3>1, <1>2, <1>3 DEF CountRight
    <3> QED BY <3>2, <3>3, <3>4
  <2> QED BY <2>1, <2>2 DEF ProgressOf
<1>8. ASSUME since[w].quiet PROVE HonestOf(w)'
  <2>1. Pending /\ (Found => Hit(w))
    BY <1>8 DEF TriggerInv, Honest, HonestOf
  <2>2. Hit(w) => Hit(w)'
    BY <1>3 DEF Hit
  <2> QED BY <2>1, <2>2, <1>1, <1>5 DEF HonestOf
<1> QED BY <1>7, <1>8

\* A step that leaves the buffer, the cache and the verdict alone.
LEMMA SameKeeps ==
  ASSUME TriggerInv, NEW w \in Waiters, pc[w] \in AskedPcs,
         UNCHANGED <<bufferVars, dataVars, cache, check, bufLock, start, wants, mode, since>>,
         matcher'.matched = matcher.matched,
         Caught(w)' => Caught(w),
         CountRight(w) => CountRight(w)'
  PROVE  ProgressOf(w)' /\ (since[w].quiet => HonestOf(w)')
<1>1. UNCHANGED <<produced, buf, trimBase, trimGen, occurs, newlines>>
      /\ UNCHANGED <<cache, check, bufLock, start, wants, mode, since>>
  BY DEF bufferVars, dataVars
<1>2. (Pending' <=> Pending) /\ Latest' = Latest /\ (Found' <=> Found)
  BY <1>1 DEF Pending, Latest, Found
<1>3. ProgressOf(w)
  BY DEF TriggerInv, Progress
<1>4. Inside(since[w].at, Latest)'
  BY <1>1, <1>2, <1>3 DEF ProgressOf, Inside
<1>5. ASSUME Untrimmed(w)', ~ Found'
      PROVE  (Searched(w, Latest) /\ (Caught(w) => Covered(w, Latest)) /\ CountRight(w))'
  <2>1. Searched(w, Latest) /\ (Caught(w) => Covered(w, Latest)) /\ CountRight(w)
    BY <1>1, <1>2, <1>3, <1>5 DEF ProgressOf, Untrimmed
  <2>2. Searched(w, Latest)'
    BY <2>1, <1>1, <1>2 DEF Searched
  <2>3. Covered(w, Latest) => Covered(w, Latest)'
    BY <1>1, <1>2 DEF Covered, Reaches
  <2> QED BY <2>1, <2>2, <2>3
<1>6. ASSUME since[w].quiet PROVE HonestOf(w)'
  <2>1. HonestOf(w)
    BY <1>6 DEF TriggerInv, Honest
  <2>2. Hit(w) => Hit(w)'
    BY <1>1 DEF Hit
  <2> QED BY <2>1, <2>2, <1>1, <1>2 DEF HonestOf
<1> QED BY <1>4, <1>5, <1>6 DEF ProgressOf

\* The pattern is set: nothing is cached, found or counted on yet.
LEMMA SetKeeps ==
  ASSUME TriggerInv, NEW w \in Waiters, SetTrigger(w)
  PROVE  ProgressOf(w)' /\ (since'[w].quiet => HonestOf(w)')
<1>1. /\ matcher' = [matcher EXCEPT !.pattern = wants[w], !.matched = FALSE,
                                    !.start = start[w], !.mode = mode[w]]
      /\ cache' = EmptyCache(cache.version + 1)
      /\ since' = [since EXCEPT ![w].quiet = bufLock = None]
      /\ pc' = [pc EXCEPT ![w] = "setting"]
      /\ UNCHANGED <<produced, buf, trimBase, trimGen, check, bufLock, mode>>
  BY DEF SetTrigger, Goto, bufferVars
<1>2. cache.version \in Nat /\ check.cache.version \in Nat /\ check.cache.version <= cache.version
      /\ trimGen \in Nat
  <2>1. cache \in Caches /\ check.cache \in Caches /\ trimGen \in Nat
    BY DEF TriggerInv, TypeOK, BufferTypeOK
  <2> QED BY <2>1 DEF TriggerInv, Locks, Caches
<1>3. cache'.gen = -1 /\ cache'.version = cache.version + 1 /\ cache'.gen # trimGen'
  BY <1>1, <1>2 DEF EmptyCache
<1>4. ~ Pending' /\ Latest' = cache'
  BY <1>1, <1>2, <1>3 DEF Pending, Latest
<1>5. ~ matcher'.matched /\ ~ Found'
  BY <1>1, <1>4, TypeParts DEF Found, TriggerInv, MatcherType
<1>6. pc'[w] = "setting"
  BY <1>1, TypeParts DEF TriggerInv, PcTypes
<1>7. since'[w].quiet => bufLock' = None
  BY <1>1 DEF TriggerInv, TypeOK
<1>8. Inside(since[w].at, Latest)' /\ Searched(w, Latest)'
  BY <1>3, <1>4 DEF Inside, Searched
<1>9. ~ Caught(w)' /\ CountRight(w)'
  BY <1>6 DEF Caught, CountRight
<1> QED BY <1>4, <1>5, <1>7, <1>8, <1>9 DEF ProgressOf, HonestOf
-----------------------------------------------------------------------------
(* Every step keeps the types.                                             *)

\* One waiter moves and the others stand.
LEMMA PcMoves ==
  ASSUME PcTypes, NEW w \in Waiters, NEW l \in WaiterPcs, pc' = [pc EXCEPT ![w] = l]
  PROVE  PcTypes' /\ pc'[w] = l /\ \A v \in Waiters : v # w => pc'[v] = pc[v]
BY DEF PcTypes

\* The reader moves and every waiter stands.
LEMMA ReaderMoves ==
  ASSUME PcTypes, NEW l \in {"idle", "checking"}, pc' = [pc EXCEPT ![Reader] = l]
  PROVE  PcTypes' /\ pc'[Reader] = l /\ \A v \in Waiters : pc'[v] = pc[v]
BY TriggerAssumption DEF PcTypes, WaiterPcs

\* The types of a wait whose own fields and pattern stay.
LEMMA WaitStays ==
  ASSUME WaitTypes, UNCHANGED <<start, wants, mode, since, rounds>>,
         trigLock' \in Waiters \cup {None},
         result' \in [Waiters -> {None, "matched", "other"}],
         \A v \in Waiters : pc'[v] # "idle" => pc[v] # "idle"
  PROVE  WaitTypes'
BY DEF WaitTypes

\* Every action keeps the types.
LEMMA TypeStep ==
  ASSUME TypeOK, NoDrift, [Next]_vars
  PROVE  TypeOK'
<1>0. /\ BufferTypeOK /\ DataTypes /\ MatcherType /\ WaitTypes /\ PcTypes
      /\ cache \in Caches /\ check \in [found : BOOLEAN, cache : Caches]
      /\ bufLock \in Waiters \cup {Reader, None} /\ trigLock \in Waiters \cup {None}
      /\ result \in [Waiters -> {None, "matched", "other"}]
  BY TypeParts DEF WaitTypes
<1>1. ASSUME NEW n \in 1..MaxChunk, ReaderAppend(n) PROVE TypeOK'
  <2>1. BufferTypeOK'
    BY <1>0, <1>1, AppendEffect DEF ReaderAppend
  <2>2. /\ StartCheck(Reader, buf', trimBase', trimGen', "checking", "idle")
        /\ UNCHANGED <<occurs, newlines, cache, trigLock, start, wants, mode, since, result,
                        rounds>>
    BY <1>1 DEF ReaderAppend, dataVars
  <2>3. buf' \in Seq(Nat) /\ trimBase' \in Nat /\ trimGen' \in Nat
    BY <2>1 DEF BufferTypeOK
  <2>4. /\ MatcherType' /\ check' \in [found : BOOLEAN, cache : Caches]
        /\ bufLock' = bufLock \/ bufLock' = Reader
        /\ pc' = [pc EXCEPT ![Reader] = "checking"] \/ pc' = [pc EXCEPT ![Reader] = "idle"]
    BY <2>2, <2>3, StartTypes
  <2>5. PcTypes' /\ \A v \in Waiters : pc'[v] = pc[v]
    BY <2>4, <1>0, ReaderMoves
  <2>6. WaitTypes'
    BY <2>2, <2>5, <1>0, WaitStays
  <2>7. DataTypes'
    BY <2>2, <1>0 DEF DataTypes
  <2> QED BY <2>1, <2>2, <2>4, <2>5, <2>6, <2>7, <1>0, TypePartsNext
<1>2. CASE ReaderChecked
  <2>1. /\ FinishCheck(Reader, "checking", "idle")
        /\ UNCHANGED <<produced, buf, trimBase, trimGen>> /\ UNCHANGED <<occurs, newlines>>
        /\ UNCHANGED <<trigLock, start, wants, mode, since, result, rounds>>
    BY <1>2 DEF ReaderChecked, bufferVars, dataVars
  <2>2. /\ MatcherType' /\ check' \in [found : BOOLEAN, cache : Caches]
        /\ cache' \in Caches /\ bufLock' = None /\ pc' = [pc EXCEPT ![Reader] = "idle"]
    BY <2>1, FinishTypes
  <2>3. PcTypes' /\ \A v \in Waiters : pc'[v] = pc[v]
    BY <2>2, <1>0, ReaderMoves
  <2>4. WaitTypes'
    BY <2>1, <2>3, <1>0, WaitStays
  <2>5. DataTypes' /\ BufferTypeOK'
    BY <2>1, <1>0 DEF DataTypes, BufferTypeOK
  <2> QED BY <2>2, <2>3, <2>4, <2>5, TypePartsNext
<1>3. ASSUME NEW w \in Waiters, NEW pat \in Patterns, NEW m \in Modes, MeasureBuffer(w, pat, m)
      PROVE  TypeOK'
  <2>1. PICK k \in {0, Len(buf)} : start' = [start EXCEPT ![w] = k]
    BY <1>3 DEF MeasureBuffer
  <2>2. /\ rounds[w] < MaxRounds
        /\ wants' = [wants EXCEPT ![w] = pat] /\ mode' = [mode EXCEPT ![w] = m]
        /\ since' = [since EXCEPT ![w] = [at |-> trimBase + start'[w], gen |-> trimGen,
                                         quiet |-> TRUE]]
        /\ rounds' = [rounds EXCEPT ![w] = @ + 1]
        /\ pc' = [pc EXCEPT ![w] = "measured"]
        /\ UNCHANGED <<produced, buf, trimBase, trimGen, occurs, newlines>>
        /\ UNCHANGED <<matcher, cache, check, bufLock, trigLock, result>>
    BY <1>3 DEF MeasureBuffer, Goto, bufferVars, dataVars
  <2>3. k \in Nat /\ trimBase \in Nat /\ trimGen \in Nat
    BY <1>0 DEF BufferTypeOK
  <2>4. PcTypes' /\ pc'[w] = "measured" /\ \A v \in Waiters : v # w => pc'[v] = pc[v]
    <3>1. "measured" \in WaiterPcs
      BY DEF WaiterPcs
    <3> QED BY <2>2, <3>1, <1>0, PcMoves
  <2>5. WaitTypes'
    <3>1. start' \in [Waiters -> Nat] /\ start'[w] = k
      BY <2>1, <2>3, <1>0 DEF WaitTypes
    <3>2. since' \in [Waiters -> [at : Nat, gen : Nat, quiet : BOOLEAN]]
      BY <2>2, <2>3, <3>1, <1>0 DEF WaitTypes
    <3>3. rounds' \in [Waiters -> 0..MaxRounds]
      BY <2>2, <1>0, TriggerAssumption DEF WaitTypes
    <3>4. /\ mode' \in [Waiters -> Modes] /\ wants' \in [Waiters -> Patterns \cup {NoPattern}]
          /\ \A v \in Waiters : pc'[v] # "idle" => wants'[v] \in Patterns
      BY <2>2, <2>4, <1>0 DEF WaitTypes
    <3> QED BY <3>1, <3>2, <3>3, <3>4, <2>2, <1>0 DEF WaitTypes
  <2>6. DataTypes' /\ BufferTypeOK' /\ MatcherType'
    BY <2>2, <1>0 DEF DataTypes, BufferTypeOK, MatcherType
  <2> QED BY <2>2, <2>4, <2>5, <2>6, <1>0, TypePartsNext
<1>4. ASSUME NEW w \in Waiters, SetTrigger(w) PROVE TypeOK'
  <2>1. /\ pc[w] = "measured"
        /\ matcher' = [matcher EXCEPT !.pattern = wants[w], !.matched = FALSE,
                                      !.start = start[w], !.mode = mode[w]]
        /\ cache' = EmptyCache(cache.version + 1)
        /\ since' = [since EXCEPT ![w].quiet = bufLock = None]
        /\ pc' = [pc EXCEPT ![w] = "setting"]
        /\ UNCHANGED <<produced, buf, trimBase, trimGen, occurs, newlines>>
        /\ UNCHANGED <<check, bufLock, trigLock, start, wants, mode, result, rounds>>
    BY <1>4 DEF SetTrigger, Goto, bufferVars, dataVars
  <2>2. PcTypes' /\ \A v \in Waiters : pc'[v] # "idle" => pc[v] # "idle"
    <3>1. "setting" \in WaiterPcs
      BY DEF WaiterPcs
    <3> QED BY <2>1, <3>1, <1>0, PcMoves
  <2>3. MatcherType'
    BY <2>1, <1>0 DEF MatcherType, WaitTypes
  <2>4. cache' \in Caches
    BY <2>1, <1>0 DEF EmptyCache, Caches
  <2>5. since' \in [Waiters -> [at : Nat, gen : Nat, quiet : BOOLEAN]]
    BY <2>1, <1>0 DEF WaitTypes
  <2>6. WaitTypes'
    BY <2>1, <2>2, <2>5, <1>0 DEF WaitTypes
  <2>7. DataTypes' /\ BufferTypeOK'
    BY <2>1, <1>0 DEF DataTypes, BufferTypeOK
  <2> QED BY <2>1, <2>2, <2>3, <2>4, <2>6, <2>7, <1>0, TypePartsNext
<1>5. ASSUME NEW w \in Waiters, ResetNewlines(w) \/ CountAtSet(w) PROVE TypeOK'
  <2>1. PICK l \in {"set", "counted"}, q \in Nat, b \in BOOLEAN :
          /\ pc[w] # "idle" /\ pc' = [pc EXCEPT ![w] = l]
          /\ \/ matcher' = [matcher EXCEPT !.first = b, !.count = q]
             \/ matcher' = [matcher EXCEPT !.count = q]
    <3>1. CASE ResetNewlines(w)
      BY <3>1 DEF ResetNewlines, Goto
    <3>2. CASE CountAtSet(w)
      <4>1. CountNewlines(buf) \in Nat
        BY <1>0, CountIsNat DEF BufferTypeOK
      <4> QED BY <3>2, <4>1 DEF CountAtSet, Goto
    <3> QED BY <1>5, <3>1, <3>2
  <2>2. /\ UNCHANGED <<produced, buf, trimBase, trimGen, occurs, newlines>>
        /\ UNCHANGED <<cache, check, bufLock, trigLock, start, wants, mode, since, result, rounds>>
    BY <1>5 DEF ResetNewlines, CountAtSet, bufferVars, dataVars
  <2>3. PcTypes' /\ \A v \in Waiters : pc'[v] # "idle" => pc[v] # "idle"
    <3>1. l \in WaiterPcs
      BY DEF WaiterPcs
    <3> QED BY <2>1, <3>1, <1>0, PcMoves
  <2>4. MatcherType'
    BY <2>1, <1>0 DEF MatcherType
  <2>5. WaitTypes'
    BY <2>2, <2>3, <1>0, WaitStays
  <2>6. DataTypes' /\ BufferTypeOK'
    BY <2>2, <1>0 DEF DataTypes, BufferTypeOK
  <2> QED BY <2>2, <2>3, <2>4, <2>5, <2>6, <1>0, TypePartsNext
<1>6. ASSUME NEW w \in Waiters, CheckAtSet(w) PROVE TypeOK'
  <2>1. /\ pc[w] = "counted"
        /\ StartCheck(w, buf, trimBase, trimGen, "setcheck", "queue")
        /\ UNCHANGED <<produced, buf, trimBase, trimGen, occurs, newlines>>
        /\ UNCHANGED <<cache, trigLock, start, wants, mode, since, result, rounds>>
    BY <1>6 DEF CheckAtSet, bufferVars, dataVars
  <2>2. /\ MatcherType' /\ check' \in [found : BOOLEAN, cache : Caches]
        /\ bufLock' = bufLock \/ bufLock' = w
        /\ pc' = [pc EXCEPT ![w] = "setcheck"] \/ pc' = [pc EXCEPT ![w] = "queue"]
    <3>1. buf \in Seq(Nat) /\ trimBase \in Nat /\ trimGen \in Nat
      BY <1>0 DEF BufferTypeOK
    <3> QED BY <2>1, <3>1, StartTypes
  <2>3. PcTypes' /\ \A v \in Waiters : pc'[v] # "idle" => pc[v] # "idle"
    <3>1. "setcheck" \in WaiterPcs /\ "queue" \in WaiterPcs
      BY DEF WaiterPcs
    <3> QED BY <2>1, <2>2, <3>1, <1>0, PcMoves
  <2>4. WaitTypes'
    BY <2>1, <2>3, <1>0, WaitStays
  <2>5. DataTypes' /\ BufferTypeOK'
    BY <2>1, <1>0 DEF DataTypes, BufferTypeOK
  <2> QED BY <2>1, <2>2, <2>3, <2>4, <2>5, <1>0, TypePartsNext
<1>7. ASSUME NEW w \in Waiters, CheckedAtSet(w) PROVE TypeOK'
  <2>1. /\ pc[w] = "setcheck" /\ FinishCheck(w, "setcheck", "queue")
        /\ UNCHANGED <<produced, buf, trimBase, trimGen>> /\ UNCHANGED <<occurs, newlines>>
        /\ UNCHANGED <<trigLock, start, wants, mode, since, result, rounds>>
    BY <1>7 DEF CheckedAtSet, FinishCheck, bufferVars, dataVars
  <2>2. /\ MatcherType' /\ check' \in [found : BOOLEAN, cache : Caches]
        /\ cache' \in Caches /\ bufLock' = None /\ pc' = [pc EXCEPT ![w] = "queue"]
    BY <2>1, FinishTypes
  <2>3. PcTypes' /\ \A v \in Waiters : pc'[v] # "idle" => pc[v] # "idle"
    <3>1. "queue" \in WaiterPcs
      BY DEF WaiterPcs
    <3> QED BY <2>1, <2>2, <3>1, <1>0, PcMoves
  <2>4. WaitTypes'
    BY <2>1, <2>3, <1>0, WaitStays
  <2>5. DataTypes' /\ BufferTypeOK'
    BY <2>1, <1>0 DEF DataTypes, BufferTypeOK
  <2> QED BY <2>2, <2>3, <2>4, <2>5, TypePartsNext
<1>8. ASSUME NEW w \in Waiters, TakeTrigLock(w) \/ SeesMatch(w) \/ GivesUp(w) PROVE TypeOK'
  <2>1. PICK l \in {"waiting", "clear"} : pc[w] # "idle" /\ pc' = [pc EXCEPT ![w] = l]
    BY <1>8 DEF TakeTrigLock, SeesMatch, GivesUp, EndWait, Goto
  <2>2. /\ UNCHANGED <<produced, buf, trimBase, trimGen, occurs, newlines>>
        /\ UNCHANGED <<matcher, cache, check, bufLock, start, wants, mode, since, rounds>>
        /\ trigLock' \in Waiters \cup {None}
        /\ result' \in [Waiters -> {None, "matched", "other"}]
    BY <1>0, <1>8 DEF TakeTrigLock, SeesMatch, GivesUp, EndWait, bufferVars, dataVars
  <2>3. PcTypes' /\ \A v \in Waiters : pc'[v] # "idle" => pc[v] # "idle"
    <3>1. l \in WaiterPcs
      BY DEF WaiterPcs
    <3> QED BY <2>1, <3>1, <1>0, PcMoves
  <2>4. WaitTypes'
    BY <2>2, <2>3, <1>0, WaitStays
  <2>5. DataTypes' /\ BufferTypeOK' /\ MatcherType'
    BY <2>2, <1>0 DEF DataTypes, BufferTypeOK, MatcherType
  <2> QED BY <2>2, <2>3, <2>4, <2>5, <1>0, TypePartsNext
<1>9. ASSUME NEW w \in Waiters, ClearTrigger(w) PROVE TypeOK'
  <2>1. /\ matcher' = [IdleMatcher EXCEPT !.start = matcher.start, !.mode = matcher.mode]
        /\ cache' = EmptyCache(cache.version + 1) /\ trigLock' = None
        /\ pc' = [pc EXCEPT ![w] = "idle"]
        /\ UNCHANGED <<produced, buf, trimBase, trimGen, occurs, newlines>>
        /\ UNCHANGED <<check, bufLock, start, wants, mode, since, result, rounds>>
    BY <1>9 DEF ClearTrigger, Goto, bufferVars, dataVars
  <2>2. PcTypes' /\ \A v \in Waiters : pc'[v] # "idle" => pc[v] # "idle"
    <3>1. "idle" \in WaiterPcs
      BY DEF WaiterPcs
    <3> QED BY <2>1, <3>1, <1>0, PcMoves
  <2>3. MatcherType'
    BY <2>1, <1>0 DEF MatcherType, IdleMatcher
  <2>4. cache' \in Caches
    BY <2>1, <1>0 DEF EmptyCache, Caches
  <2>5. WaitTypes'
    BY <2>1, <2>2, <1>0, WaitStays
  <2>6. DataTypes' /\ BufferTypeOK'
    BY <2>1, <1>0 DEF DataTypes, BufferTypeOK
  <2> QED BY <2>1, <2>2, <2>3, <2>4, <2>5, <2>6, <1>0, TypePartsNext
<1>10. CASE UNCHANGED vars
  BY <1>0, TypePartsNext, <1>10 DEF vars, bufferVars, dataVars, waitVars, BufferTypeOK,
                                        DataTypes, MatcherType, WaitTypes, PcTypes
<1> QED BY <1>1, <1>2, <1>3, <1>4, <1>5, <1>6, <1>7, <1>8, <1>9, <1>10 DEF Next, Wait, Exhausted
-----------------------------------------------------------------------------
(* Every step keeps the rest.                                              *)

\* Only the reader moves the buffer.
LEMMA BufferStep ==
  ASSUME TypeOK, NoDrift, [Next]_vars
  PROVE  Slides
<1>0. /\ BufferTypeOK /\ produced \in Nat /\ trimBase \in Nat /\ trimGen \in Nat
      /\ buf \in Seq(Nat) /\ Len(buf) \in Nat
  BY DEF TypeOK, BufferTypeOK
<1>1. ASSUME NEW n \in 1..MaxChunk, ReaderAppend(n) PROVE Slides
  <2>1. /\ BufferTypeOK' /\ NoDrift' /\ produced' = produced + n /\ trimBase' >= trimBase
        /\ trimGen' = trimGen \/ trimGen' = trimGen + 1
        /\ trimGen' = trimGen => trimBase' = trimBase /\ Len(buf') = Len(buf) + n
    BY <1>0, <1>1, AppendEffect DEF ReaderAppend
  <2>2. n \in Nat /\ produced' >= produced /\ trimGen' >= trimGen
        /\ (Len(buf') = Len(buf) + n => Len(buf') >= Len(buf))
    BY <2>1, <1>0, BufferAssumption
  <2> QED BY <2>1, <2>2 DEF Slides
<1>2. ASSUME UNCHANGED <<produced, buf, trimBase, trimGen>> PROVE Slides
  BY <1>0, <1>2 DEF Slides, BufferTypeOK, NoDrift, StreamEnd
<1>3. CASE ~ (\E n \in 1..MaxChunk : ReaderAppend(n))
  <2>1. UNCHANGED bufferVars
    BY <1>3 DEF Next, Wait, Exhausted, vars, ReaderChecked, MeasureBuffer, SetTrigger,
                ResetNewlines, CountAtSet, CheckAtSet, CheckedAtSet, TakeTrigLock, SeesMatch,
                GivesUp, EndWait, ClearTrigger
  <2> QED BY <2>1, <1>2 DEF bufferVars
<1> QED BY <1>1, <1>3

\* What a check that starts does to the lock and to the versions.
LEMMA StartLocks ==
  ASSUME TypeOK, NEW a, NEW busy, NEW done,
         NEW b \in Seq(Nat), NEW base \in Nat, NEW gen \in Nat,
         StartCheck(a, b, base, gen, busy, done)
  PROVE  \/ /\ bufLock' = a /\ pc' = [pc EXCEPT ![a] = busy]
            /\ check'.cache.version = cache.version /\ check'.cache.gen = gen
         \/ /\ bufLock' = bufLock /\ pc' = [pc EXCEPT ![a] = done] /\ check' = check
<1>1. CASE Checkable(b)
  <2>1. check' = CheckOf(b, base, gen) /\ bufLock' = a /\ pc' = [pc EXCEPT ![a] = busy]
    BY <1>1 DEF StartCheck, Goto
  <2>2. ScanTypes(b, base, gen, 0)
    BY TypeParts DEF ScanTypes, MatcherType
  <2>3. Scanned(b, gen).gen = gen /\ Scanned(b, gen).version = cache.version
    BY <2>2, ScanValues
  <2> QED BY <2>1, <2>3 DEF CheckOf
<1>2. CASE ~ Checkable(b)
  BY <1>2 DEF StartCheck, Goto
<1> QED BY <1>1, <1>2

\* Who checks has the lock; versions and generations only rise.
LEMMA LocksStep ==
  ASSUME TypeOK, NoDrift, Locks, Slides, [Next]_vars
  PROVE  Locks'
<1>0. /\ PcTypes /\ Reader \notin Waiters /\ None \notin Waiters /\ Reader # None
      /\ buf \in Seq(Nat) /\ trimBase \in Nat /\ trimGen \in Nat
      /\ buf' \in Seq(Nat) /\ trimBase' \in Nat /\ trimGen' \in Nat /\ trimGen' >= trimGen
  BY TypeParts, TriggerAssumption DEF Slides, BufferTypeOK, Reader, None
<1>1. /\ cache \in Caches /\ check.cache \in Caches
      /\ cache.version \in Nat /\ check.cache.version \in Nat
      /\ cache.gen \in Int /\ check.cache.gen \in Int
  <2>1. cache \in Caches /\ check.cache \in Caches
    BY DEF TypeOK
  <2> QED BY <2>1 DEF Caches
<1>2. /\ check.cache.version <= cache.version
      /\ cache.gen <= trimGen' /\ check.cache.gen <= trimGen'
  BY <1>0, <1>1 DEF Locks
<1>3. /\ pc[Reader] = "checking" => bufLock = Reader
      /\ \A w \in Waiters : pc[w] = "setcheck" => bufLock = w
  BY DEF Locks
<1>4. ASSUME NEW n \in 1..MaxChunk, ReaderAppend(n) PROVE Locks'
  <2>1. /\ bufLock = None /\ UNCHANGED cache
        /\ StartCheck(Reader, buf', trimBase', trimGen', "checking", "idle")
    BY <1>4 DEF ReaderAppend
  <2>2. \/ /\ bufLock' = Reader /\ pc' = [pc EXCEPT ![Reader] = "checking"]
           /\ check'.cache.version = cache.version /\ check'.cache.gen = trimGen'
        \/ /\ bufLock' = bufLock /\ pc' = [pc EXCEPT ![Reader] = "idle"] /\ check' = check
    BY <2>1, <1>0, StartLocks
  <2>3. (pc'[Reader] = "checking" => bufLock' = Reader) /\ \A w \in Waiters : pc'[w] = pc[w]
    BY <2>2, <1>0, ReaderMoves
  <2>4. \A w \in Waiters : pc'[w] # "setcheck"
    BY <2>1, <2>3, <1>0, <1>3
  <2>5. check'.cache.version <= cache'.version /\ cache'.gen <= trimGen'
        /\ check'.cache.gen <= trimGen'
    BY <2>1, <2>2, <1>0, <1>1, <1>2
  <2> QED BY <2>3, <2>4, <2>5 DEF Locks
<1>5. CASE ReaderChecked
  <2>1. /\ pc[Reader] = "checking" /\ pc' = [pc EXCEPT ![Reader] = "idle"]
        /\ cache' = IF cache.version = check.cache.version THEN check.cache ELSE cache
        /\ check' = NoCheck
    BY <1>5 DEF ReaderChecked, FinishCheck, Goto
  <2>2. pc'[Reader] = "idle" /\ \A w \in Waiters : pc'[w] = pc[w]
    BY <2>1, <1>0, ReaderMoves
  <2>3. \A w \in Waiters : pc'[w] # "setcheck"
    BY <2>1, <2>2, <1>0, <1>3
  <2>4. check'.cache.version <= cache'.version /\ cache'.gen <= trimGen'
        /\ check'.cache.gen <= trimGen'
    BY <2>1, <1>0, <1>1, <1>2 DEF NoCheck, EmptyCache
  <2> QED BY <2>2, <2>3, <2>4 DEF Locks
<1>6. ASSUME NEW w \in Waiters, CheckAtSet(w) PROVE Locks'
  <2>1. /\ bufLock = None /\ UNCHANGED <<cache, trimGen>>
        /\ StartCheck(w, buf, trimBase, trimGen, "setcheck", "queue")
    BY <1>6 DEF CheckAtSet, bufferVars
  <2>2. \/ /\ bufLock' = w /\ pc' = [pc EXCEPT ![w] = "setcheck"]
           /\ check'.cache.version = cache.version /\ check'.cache.gen = trimGen
        \/ /\ bufLock' = bufLock /\ pc' = [pc EXCEPT ![w] = "queue"] /\ check' = check
    BY <2>1, <1>0, StartLocks
  <2>3. pc'[Reader] # "checking"
    BY <2>1, <2>2, <1>0, <1>3 DEF PcTypes
  <2>4. \A v \in Waiters : pc'[v] = "setcheck" => bufLock' = v
    BY <2>1, <2>2, <1>0, <1>3 DEF PcTypes
  <2>5. check'.cache.version <= cache'.version /\ cache'.gen <= trimGen'
        /\ check'.cache.gen <= trimGen'
    BY <2>1, <2>2, <1>0, <1>1, <1>2
  <2> QED BY <2>3, <2>4, <2>5 DEF Locks
<1>7. ASSUME NEW w \in Waiters, CheckedAtSet(w) PROVE Locks'
  <2>1. /\ pc[w] = "setcheck" /\ pc' = [pc EXCEPT ![w] = "queue"]
        /\ cache' = IF cache.version = check.cache.version THEN check.cache ELSE cache
        /\ check' = NoCheck
    BY <1>7 DEF CheckedAtSet, FinishCheck, Goto
  <2>2. pc'[Reader] # "checking" /\ \A v \in Waiters : pc'[v] # "setcheck"
    BY <2>1, <1>0, <1>3 DEF PcTypes
  <2>3. check'.cache.version <= cache'.version /\ cache'.gen <= trimGen'
        /\ check'.cache.gen <= trimGen'
    BY <2>1, <1>0, <1>1, <1>2 DEF NoCheck, EmptyCache
  <2> QED BY <2>2, <2>3 DEF Locks
<1>8. ASSUME UNCHANGED <<check, bufLock>>,
             cache' = cache \/ cache' = EmptyCache(cache.version + 1),
             \/ pc' = pc
             \/ \E w \in Waiters, l \in WaiterPcs \ {"setcheck"} : pc' = [pc EXCEPT ![w] = l]
      PROVE  Locks'
  <2>1. pc'[Reader] = pc[Reader] /\ \A v \in Waiters : pc'[v] = "setcheck" => pc[v] = "setcheck"
    BY <1>0, <1>8 DEF PcTypes
  <2>2. check'.cache.version <= cache'.version /\ cache'.gen <= trimGen'
        /\ check'.cache.gen <= trimGen'
    BY <1>0, <1>1, <1>2, <1>8 DEF EmptyCache
  <2> QED BY <2>1, <2>2, <1>3, <1>8 DEF Locks
<1>9. ASSUME NEW w \in Waiters, NEW pat \in Patterns, NEW m \in Modes, MeasureBuffer(w, pat, m)
      PROVE  Locks'
  BY <1>8, <1>9 DEF MeasureBuffer, Goto, WaiterPcs
<1>10. ASSUME NEW w \in Waiters,
              \/ SetTrigger(w) \/ ResetNewlines(w) \/ CountAtSet(w) \/ TakeTrigLock(w)
              \/ SeesMatch(w) \/ GivesUp(w) \/ ClearTrigger(w)
       PROVE  Locks'
  <2>1. UNCHANGED <<check, bufLock>>
        /\ (cache' = cache \/ cache' = EmptyCache(cache.version + 1))
    BY <1>10 DEF SetTrigger, ResetNewlines, CountAtSet, TakeTrigLock, SeesMatch, GivesUp, EndWait,
                 ClearTrigger
  <2>2. \E l \in WaiterPcs \ {"setcheck"} : pc' = [pc EXCEPT ![w] = l]
    BY <1>10 DEF SetTrigger, ResetNewlines, CountAtSet, TakeTrigLock, SeesMatch, GivesUp, EndWait,
                 ClearTrigger, Goto, WaiterPcs
  <2> QED BY <2>1, <2>2, <1>8
<1>11. CASE UNCHANGED vars
  BY <1>8, <1>11 DEF vars, waitVars
<1> QED BY <1>4, <1>5, <1>6, <1>7, <1>9, <1>10, <1>11 DEF Next, Wait, Exhausted

\* Who was asked a window keeps it as long as the wait lasts.
LEMMA WindowStep ==
  ASSUME TypeOK, NoDrift, Window, Slides, [Next]_vars
  PROVE  Window'
<1>0. /\ PcTypes /\ WaitTypes /\ Reader \notin Waiters
      /\ produced \in Nat /\ trimBase \in Nat /\ trimGen \in Nat
      /\ buf \in Seq(Nat) /\ Len(buf) \in Nat /\ produced = trimBase + Len(buf)
  BY TypeParts, TriggerAssumption DEF BufferTypeOK, NoDrift, StreamEnd
<1>1. ASSUME \A w \in Waiters : pc'[w] # "idle" =>
               /\ pc[w] # "idle" /\ start'[w] = start[w]
               /\ since'[w].at = since[w].at /\ since'[w].gen = since[w].gen
      PROVE  Window'
  <2> SUFFICES ASSUME NEW w \in Waiters, pc'[w] # "idle"
               PROVE  /\ since'[w].at <= trimBase' + start'[w]
                      /\ since'[w].at <= produced'
                      /\ since'[w].gen <= trimGen'
                      /\ since'[w].gen = trimGen' => since'[w].at = trimBase' + start'[w]
    BY DEF Window
  <2>1. /\ pc[w] # "idle" /\ start'[w] = start[w]
        /\ since'[w].at = since[w].at /\ since'[w].gen = since[w].gen
    BY <1>1
  <2>2. /\ since[w].at <= trimBase' + start[w]
        /\ since[w].at <= produced' /\ since[w].gen <= trimGen'
        /\ since[w].gen = trimGen' => since[w].at = trimBase' + start[w]
    BY <2>1, WindowSlides
  <2> QED BY <2>1, <2>2
<1>2. ASSUME NEW n \in 1..MaxChunk, ReaderAppend(n) PROVE Window'
  <2>1. /\ UNCHANGED <<start, since>>
        /\ StartCheck(Reader, buf', trimBase', trimGen', "checking", "idle")
    BY <1>2 DEF ReaderAppend
  <2>2. \E l \in {"checking", "idle"} : pc' = [pc EXCEPT ![Reader] = l]
    BY <2>1 DEF StartCheck, Goto
  <2>3. \A w \in Waiters : pc'[w] = pc[w]
    BY <2>2, <1>0, ReaderMoves
  <2> QED BY <2>1, <2>3, <1>1
<1>3. CASE ReaderChecked
  <2>1. pc' = [pc EXCEPT ![Reader] = "idle"] /\ UNCHANGED <<start, since>>
    BY <1>3 DEF ReaderChecked, FinishCheck, Goto
  <2>2. \A w \in Waiters : pc'[w] = pc[w]
    BY <2>1, <1>0, ReaderMoves
  <2> QED BY <2>1, <2>2, <1>1
<1>4. ASSUME NEW v \in Waiters, NEW pat \in Patterns, NEW m \in Modes, MeasureBuffer(v, pat, m)
      PROVE  Window'
  <2>1. PICK k \in {0, Len(buf)} : start' = [start EXCEPT ![v] = k]
    BY <1>4 DEF MeasureBuffer
  <2>2. /\ since' = [since EXCEPT ![v] = [at |-> trimBase + start'[v], gen |-> trimGen,
                                         quiet |-> TRUE]]
        /\ pc' = [pc EXCEPT ![v] = "measured"]
        /\ UNCHANGED <<produced, buf, trimBase, trimGen>>
    BY <1>4 DEF MeasureBuffer, Goto, bufferVars
  <2>3. k \in Nat /\ k <= Len(buf)
    BY <1>0
  <2>4. start'[v] = k /\ since'[v].at = trimBase + k /\ since'[v].gen = trimGen
    BY <2>1, <2>2, <1>0 DEF WaitTypes
  <2>5. ASSUME NEW w \in Waiters, w # v, pc'[w] # "idle"
        PROVE  /\ since'[w].at <= trimBase' + start'[w]
               /\ since'[w].at <= produced' /\ since'[w].gen <= trimGen'
               /\ since'[w].gen = trimGen' => since'[w].at = trimBase' + start'[w]
    <3>1. pc'[w] = pc[w] /\ start'[w] = start[w] /\ since'[w] = since[w]
      BY <2>1, <2>2, <2>5, <1>0 DEF PcTypes, WaitTypes
    <3> QED BY <3>1, <2>2, <2>5 DEF Window
  <2>6. /\ since'[v].at <= trimBase' + start'[v]
        /\ since'[v].at <= produced' /\ since'[v].gen <= trimGen'
        /\ since'[v].gen = trimGen' => since'[v].at = trimBase' + start'[v]
    BY <2>2, <2>3, <2>4, <1>0
  <2> QED BY <2>5, <2>6 DEF Window
<1>5. ASSUME NEW v \in Waiters, SetTrigger(v) PROVE Window'
  <2>1. /\ pc[v] = "measured" /\ pc' = [pc EXCEPT ![v] = "setting"] /\ start' = start
        /\ since' = [since EXCEPT ![v].quiet = bufLock = None]
    BY <1>5 DEF SetTrigger, Goto
  <2>2. \A w \in Waiters : since'[w].at = since[w].at /\ since'[w].gen = since[w].gen
    BY <2>1, <1>0 DEF WaitTypes
  <2>3. \A w \in Waiters : pc'[w] # "idle" => pc[w] # "idle"
    BY <2>1, <1>0 DEF PcTypes
  <2> QED BY <2>1, <2>2, <2>3, <1>1
<1>6. ASSUME NEW v \in Waiters,
             \/ ResetNewlines(v) \/ CountAtSet(v) \/ CheckAtSet(v) \/ CheckedAtSet(v)
             \/ TakeTrigLock(v) \/ SeesMatch(v) \/ GivesUp(v) \/ ClearTrigger(v)
      PROVE  Window'
  <2>1. UNCHANGED <<start, since>> /\ pc[v] # "idle"
    BY <1>6 DEF ResetNewlines, CountAtSet, CheckAtSet, CheckedAtSet, FinishCheck, TakeTrigLock,
                SeesMatch, GivesUp, EndWait, ClearTrigger
  <2>2. \E l \in WaiterPcs : pc' = [pc EXCEPT ![v] = l]
    BY <1>6 DEF ResetNewlines, CountAtSet, CheckAtSet, CheckedAtSet, StartCheck, FinishCheck,
                TakeTrigLock, SeesMatch, GivesUp, EndWait, ClearTrigger, Goto, WaiterPcs
  <2>3. \A w \in Waiters : pc'[w] # "idle" => pc[w] # "idle"
    BY <2>1, <2>2, <1>0 DEF PcTypes
  <2> QED BY <2>1, <2>3, <1>1
<1>7. CASE UNCHANGED vars
  BY <1>1, <1>7 DEF vars, waitVars
<1> QED BY <1>2, <1>3, <1>4, <1>5, <1>6, <1>7 DEF Next, Wait, Exhausted

\* The pattern, start and mode of the matcher stay through every check.
LEMMA CheckKeepsAsked ==
  ASSUME MatcherType,
         NEW a, NEW b, NEW base, NEW gen, NEW busy, NEW done,
         StartCheck(a, b, base, gen, busy, done) \/ FinishCheck(a, busy, done)
  PROVE  /\ matcher'.pattern = matcher.pattern
         /\ matcher'.start = matcher.start /\ matcher'.mode = matcher.mode
BY DEF MatcherType, StartCheck, FinishCheck, Counted

\* With one client the matcher is its own from the time it sets the pattern.
LEMMA MineStep ==
  ASSUME Alone, TypeOK, Mine, [Next]_vars
  PROVE  Mine'
<1>0. PcTypes /\ WaitTypes /\ MatcherType /\ Reader \notin Waiters
  BY TypeParts, TriggerAssumption
<1>1. ASSUME UNCHANGED <<start, wants, mode>>,
             \A w \in Waiters : pc'[w] \in AskedPcs => pc[w] \in AskedPcs,
             /\ matcher'.pattern = matcher.pattern
             /\ matcher'.start = matcher.start /\ matcher'.mode = matcher.mode
      PROVE  Mine'
  BY <1>1 DEF Mine
<1>2. ASSUME NEW n \in 1..MaxChunk, ReaderAppend(n) PROVE Mine'
  <2>1. /\ UNCHANGED <<start, wants, mode>>
        /\ StartCheck(Reader, buf', trimBase', trimGen', "checking", "idle")
    BY <1>2 DEF ReaderAppend
  <2>2. \E l \in {"checking", "idle"} : pc' = [pc EXCEPT ![Reader] = l]
    BY <2>1 DEF StartCheck, Goto
  <2>3. \A w \in Waiters : pc'[w] = pc[w]
    BY <2>2, <1>0, ReaderMoves
  <2> QED BY <2>1, <2>3, <1>0, <1>1, CheckKeepsAsked
<1>3. CASE ReaderChecked
  <2>1. /\ pc' = [pc EXCEPT ![Reader] = "idle"] /\ UNCHANGED <<start, wants, mode>>
        /\ FinishCheck(Reader, "checking", "idle")
    BY <1>3 DEF ReaderChecked, FinishCheck, Goto
  <2>2. \A w \in Waiters : pc'[w] = pc[w]
    BY <2>1, <1>0, ReaderMoves
  <2> QED BY <2>1, <2>2, <1>0, <1>1, CheckKeepsAsked
<1>4. ASSUME NEW v \in Waiters,
             \/ \E pat \in Patterns, m \in Modes : MeasureBuffer(v, pat, m)
             \/ ClearTrigger(v)
      PROVE  Mine'
  <2>1. pc' = [pc EXCEPT ![v] = "measured"] \/ pc' = [pc EXCEPT ![v] = "idle"]
    BY <1>4 DEF MeasureBuffer, ClearTrigger, Goto
  <2>2. \A w \in Waiters : pc'[w] \notin AskedPcs
    BY <2>1, <1>0 DEF Alone, PcTypes, AskedPcs
  <2> QED BY <2>2 DEF Mine
<1>5. ASSUME NEW v \in Waiters, SetTrigger(v) PROVE Mine'
  <2>1. /\ matcher' = [matcher EXCEPT !.pattern = wants[v], !.matched = FALSE,
                                      !.start = start[v], !.mode = mode[v]]
        /\ UNCHANGED <<start, wants, mode>>
    BY <1>5 DEF SetTrigger
  <2>2. matcher'.pattern = wants'[v] /\ matcher'.start = start'[v] /\ matcher'.mode = mode'[v]
    BY <2>1, <1>0 DEF MatcherType
  <2> QED BY <2>2 DEF Mine, Alone
<1>6. ASSUME NEW v \in Waiters,
             \/ ResetNewlines(v) \/ CountAtSet(v) \/ TakeTrigLock(v) \/ SeesMatch(v) \/ GivesUp(v)
      PROVE  Mine'
  <2>1. UNCHANGED <<start, wants, mode>> /\ pc[v] \in AskedPcs
    BY <1>6 DEF ResetNewlines, CountAtSet, TakeTrigLock, SeesMatch, GivesUp, EndWait, AskedPcs
  <2>2. /\ matcher'.pattern = matcher.pattern
        /\ matcher'.start = matcher.start /\ matcher'.mode = matcher.mode
    BY <1>0, <1>6 DEF ResetNewlines, CountAtSet, TakeTrigLock, SeesMatch, GivesUp, EndWait,
                      MatcherType
  <2> QED BY <2>1, <2>2, <1>1 DEF Alone
<1>7. ASSUME NEW v \in Waiters, CheckAtSet(v) \/ CheckedAtSet(v) PROVE Mine'
  <2>1. UNCHANGED <<start, wants, mode>> /\ pc[v] \in AskedPcs
    BY <1>7 DEF CheckAtSet, CheckedAtSet, FinishCheck, AskedPcs
  <2>2. /\ matcher'.pattern = matcher.pattern
        /\ matcher'.start = matcher.start /\ matcher'.mode = matcher.mode
    <3>1. CASE CheckAtSet(v)
      <4>1. StartCheck(v, buf, trimBase, trimGen, "setcheck", "queue")
        BY <3>1 DEF CheckAtSet
      <4> QED BY <4>1, <1>0, CheckKeepsAsked
    <3>2. CASE CheckedAtSet(v)
      <4>1. FinishCheck(v, "setcheck", "queue")
        BY <3>2 DEF CheckedAtSet
      <4> QED BY <4>1, <1>0, CheckKeepsAsked
    <3> QED BY <1>7, <3>1, <3>2
  <2> QED BY <2>1, <2>2, <1>1 DEF Alone
<1>8. CASE UNCHANGED vars
  BY <1>1, <1>8 DEF vars, waitVars
<1> QED BY <1>2, <1>3, <1>4, <1>5, <1>6, <1>7, <1>8 DEF Next, Wait, Exhausted

\* With one client a step keeps what is known of its search and of its match.
LEMMA SearchStep ==
  ASSUME Alone, TriggerInv, Slides, PcTypes', [Next]_vars
  PROVE  Progress' /\ Honest'
<1>0. /\ PcTypes /\ WaitTypes /\ MatcherType /\ Reader \notin Waiters /\ None \notin Waiters
      /\ Reader # None
  BY TypeParts, TriggerAssumption DEF TriggerInv, Reader, None
<1>1. /\ pc[Reader] = "checking" => bufLock = Reader
      /\ \A w \in Waiters : pc[w] = "setcheck" => bufLock = w
  BY DEF TriggerInv, Locks
<1>2. ASSUME NEW w \in Waiters, pc[w] = "clear", result[w] = "matched", since[w].quiet,
             produced' >= produced,
             UNCHANGED <<occurs, wants, since>>
      PROVE  Hit(w)'
  <2>1. PICK p \in occurs[wants[w]] : since[w].at <= p /\ p + Width <= produced
    BY <1>2 DEF TriggerInv, Honest, Hit
  <2>2. p \in Nat /\ Width \in Nat /\ produced \in Nat /\ produced' \in Nat
    <3>1. occurs[wants[w]] \subseteq Nat
      BY <1>2 DEF TriggerInv, TypeOK
    <3>2. produced \in Nat /\ produced' \in Nat
      BY DEF TriggerInv, TypeOK, Slides, BufferTypeOK
    <3> QED BY <3>1, <3>2, TriggerAssumption
  <2>3. p + Width <= produced'
    BY <2>1, <2>2, <1>2
  <2> QED BY <2>1, <2>3, <1>2 DEF Hit
<1>3. ASSUME UNCHANGED <<occurs, wants, since, result>>,
             \A w \in Waiters : pc'[w] = "clear" => pc[w] = "clear",
             \A w \in Waiters : pc'[w] \in AskedPcs =>
               ProgressOf(w)' /\ (since[w].quiet => HonestOf(w)')
      PROVE  Progress' /\ Honest'
  <2>1. produced' >= produced
    BY DEF Slides
  <2>2. ASSUME NEW w \in Waiters, since'[w].quiet, pc'[w] = "clear", result'[w] = "matched"
        PROVE  Hit(w)'
    BY <2>1, <2>2, <1>2, <1>3
  <2> QED BY <2>2, <1>3 DEF Progress, Honest
<1>4. ASSUME NEW n \in 1..MaxChunk, ReaderAppend(n) PROVE Progress' /\ Honest'
  <2>1. /\ bufLock = None
        /\ StartCheck(Reader, buf', trimBase', trimGen', "checking", "idle")
        /\ UNCHANGED <<occurs, newlines, cache, start, wants, mode, since, result>>
    BY <1>4 DEF ReaderAppend, dataVars
  <2>2. \E l \in {"checking", "idle"} : pc' = [pc EXCEPT ![Reader] = l]
    BY <2>1 DEF StartCheck, Goto
  <2>3. \A w \in Waiters : pc'[w] = pc[w]
    BY <2>2, <1>0, ReaderMoves
  <2>4. ASSUME NEW w \in Waiters, pc'[w] \in AskedPcs
        PROVE  ProgressOf(w)' /\ (since[w].quiet => HonestOf(w)')
    BY <2>1, <2>3, <2>4, StartKeeps
  <2> QED BY <2>1, <2>3, <2>4, <1>3
<1>5. CASE ReaderChecked
  <2>1. /\ pc[Reader] = "checking" /\ FinishCheck(Reader, "checking", "idle")
        /\ UNCHANGED <<bufferVars, dataVars, start, wants, mode, since, result>>
        /\ UNCHANGED occurs
    BY <1>5 DEF ReaderChecked, FinishCheck, dataVars
  <2>2. bufLock # None
    BY <2>1, <1>0, <1>1
  <2>3. \A w \in Waiters : pc'[w] = pc[w]
    <3>1. pc' = [pc EXCEPT ![Reader] = "idle"]
      BY <2>1 DEF FinishCheck, Goto
    <3> QED BY <3>1, <1>0, ReaderMoves
  <2>4. ASSUME NEW w \in Waiters, pc'[w] \in AskedPcs
        PROVE  ProgressOf(w)' /\ (since[w].quiet => HonestOf(w)')
    BY <2>1, <2>2, <2>3, <2>4, FinishKeeps
  <2> QED BY <2>1, <2>3, <2>4, <1>3
<1>6. ASSUME NEW v \in Waiters,
             \/ \E pat \in Patterns, m \in Modes : MeasureBuffer(v, pat, m)
             \/ ClearTrigger(v)
      PROVE  Progress' /\ Honest'
  <2>1. pc' = [pc EXCEPT ![v] = "measured"] \/ pc' = [pc EXCEPT ![v] = "idle"]
    BY <1>6 DEF MeasureBuffer, ClearTrigger, Goto
  <2>2. \A w \in Waiters : pc'[w] \notin AskedPcs /\ pc'[w] # "clear"
    BY <2>1, <1>0 DEF Alone, PcTypes, AskedPcs
  <2> QED BY <2>2 DEF Progress, Honest
<1>7. ASSUME NEW v \in Waiters, SetTrigger(v) PROVE Progress' /\ Honest'
  <2>1. ProgressOf(v)' /\ (since'[v].quiet => HonestOf(v)')
    BY <1>7, SetKeeps
  <2>2. pc'[v] = "setting"
    BY <1>0, <1>7 DEF SetTrigger, Goto, PcTypes
  <2> QED BY <2>1, <2>2 DEF Progress, Honest, Alone
<1>8. ASSUME NEW v \in Waiters, ResetNewlines(v) \/ CountAtSet(v) PROVE Progress' /\ Honest'
  <2>1. /\ UNCHANGED <<bufferVars, dataVars, cache, check, bufLock, start, wants, mode, since>>
        /\ UNCHANGED <<occurs, newlines, buf, result>>
    BY <1>8 DEF ResetNewlines, CountAtSet, dataVars, bufferVars
  <2>2. CountNewlines(buf)' = CountNewlines(buf) /\ CountNewlines(buf) \in Nat
    <3>1. buf \in Seq(Nat)
      BY DEF TriggerInv, TypeOK, BufferTypeOK
    <3> QED BY <3>1, <2>1, CountIsNat DEF CountNewlines
  <2>3. /\ pc[v] \in AskedPcs /\ pc'[v] # "clear"
        /\ matcher'.matched = matcher.matched
        /\ Caught(v)' => Caught(v)
        /\ CountRight(v) => CountRight(v)'
    <3>1. CASE ResetNewlines(v)
      <4>1. /\ pc[v] = "setting" /\ pc'[v] = "set" /\ mode'[v] = mode[v]
            /\ (mode[v] = "newline" => matcher'.first) /\ matcher'.count = 0
            /\ matcher'.matched = matcher.matched
        BY <3>1, <1>0 DEF ResetNewlines, Goto, PcTypes, MatcherType
      <4> QED BY <4>1, <2>2 DEF Caught, CountRight, AskedPcs
    <3>2. CASE CountAtSet(v)
      <4>1. /\ pc[v] = "set" /\ pc'[v] = "counted" /\ mode'[v] = mode[v]
            /\ matcher'.first = matcher.first /\ matcher'.count = CountNewlines(buf)
            /\ matcher'.matched = matcher.matched
        BY <3>2, <1>0 DEF CountAtSet, Goto, PcTypes, MatcherType
      <4> QED BY <4>1, <2>2 DEF Caught, CountRight, AskedPcs
    <3> QED BY <1>8, <3>1, <3>2
  <2>4. ProgressOf(v)' /\ (since[v].quiet => HonestOf(v)')
    BY <2>1, <2>3, SameKeeps
  <2> QED BY <2>1, <2>3, <2>4, <1>3 DEF Alone
<1>9. ASSUME NEW v \in Waiters, CheckAtSet(v) PROVE Progress' /\ Honest'
  <2>1. /\ pc[v] = "counted" /\ bufLock = None
        /\ StartCheck(v, buf, trimBase, trimGen, "setcheck", "queue")
        /\ UNCHANGED <<buf, trimBase, trimGen>>
        /\ UNCHANGED <<occurs, newlines, cache, start, wants, mode, since, result>>
    BY <1>9 DEF CheckAtSet, bufferVars, dataVars
  <2>2. StartCheck(v, buf', trimBase', trimGen', "setcheck", "queue")
    BY <2>1
  <2>3. pc'[v] \in {"setcheck", "queue"}
    BY <2>1, <1>0 DEF StartCheck, Goto, PcTypes
  <2>4. ProgressOf(v)' /\ (since[v].quiet => HonestOf(v)')
    BY <2>1, <2>2, <2>3, StartKeeps DEF AskedPcs
  <2> QED BY <2>1, <2>3, <2>4, <1>3 DEF Alone
<1>10. ASSUME NEW v \in Waiters, CheckedAtSet(v) PROVE Progress' /\ Honest'
  <2>1. /\ pc[v] = "setcheck" /\ FinishCheck(v, "setcheck", "queue")
        /\ UNCHANGED <<bufferVars, dataVars, start, wants, mode, since, result>>
        /\ UNCHANGED occurs
    BY <1>10 DEF CheckedAtSet, FinishCheck, dataVars
  <2>2. bufLock # None
    BY <2>1, <1>0, <1>1
  <2>3. pc'[v] = "queue"
    BY <2>1, <1>0 DEF FinishCheck, Goto, PcTypes
  <2>4. ProgressOf(v)' /\ (since[v].quiet => HonestOf(v)')
    BY <2>1, <2>2, <2>3, FinishKeeps DEF AskedPcs
  <2> QED BY <2>1, <2>3, <2>4, <1>3 DEF Alone
<1>11. ASSUME NEW v \in Waiters, TakeTrigLock(v) \/ SeesMatch(v) \/ GivesUp(v)
       PROVE  Progress' /\ Honest'
  <2>1. /\ UNCHANGED <<bufferVars, dataVars, cache, check, bufLock, start, wants, mode, since>>
        /\ UNCHANGED <<occurs, newlines, buf, produced, matcher>>
    BY <1>11 DEF TakeTrigLock, SeesMatch, GivesUp, EndWait, dataVars, bufferVars
  <2>2. \/ pc[v] = "queue" /\ pc'[v] = "waiting" /\ result' = result
        \/ pc[v] = "waiting" /\ pc'[v] = "clear"
    BY <1>0, <1>11 DEF TakeTrigLock, SeesMatch, GivesUp, EndWait, Goto, PcTypes
  <2>3. Caught(v)' => Caught(v)
    BY <2>1, <2>2 DEF Caught
  <2>4. CountRight(v) => CountRight(v)'
    <3>1. CountNewlines(buf)' = CountNewlines(buf)
      BY <2>1 DEF CountNewlines
    <3> QED BY <3>1, <2>1, <2>2 DEF CountRight
  <2>5. ProgressOf(v)' /\ (since[v].quiet => HonestOf(v)')
    BY <2>1, <2>2, <2>3, <2>4, SameKeeps DEF AskedPcs
  <2>6. ASSUME since[v].quiet, pc'[v] = "clear", result'[v] = "matched" PROVE Hit(v)'
    <3>1. SeesMatch(v)
      BY <2>2, <2>6, <1>0, <1>11 DEF TakeTrigLock, GivesUp, EndWait, WaitTypes
    <3>2. Found
      BY <3>1 DEF SeesMatch, Found
    <3>3. Hit(v)
      BY <2>2, <2>6, <3>2 DEF TriggerInv, Honest, HonestOf, AskedPcs
    <3> QED BY <3>3, <2>1 DEF Hit
  <2> QED BY <2>1, <2>5, <2>6 DEF Progress, Honest, Alone
<1>12. CASE UNCHANGED vars
  <2>1. /\ UNCHANGED <<bufferVars, dataVars, cache, check, bufLock, start, wants, mode, since>>
        /\ UNCHANGED <<occurs, newlines, buf, result, matcher, pc>>
    BY <1>12 DEF vars, waitVars, dataVars, bufferVars
  <2>2. ASSUME NEW w \in Waiters
        PROVE  (Caught(w)' => Caught(w)) /\ (CountRight(w) => CountRight(w)')
    <3>1. CountNewlines(buf)' = CountNewlines(buf)
      BY <2>1 DEF CountNewlines
    <3> QED BY <3>1, <2>1 DEF Caught, CountRight
  <2>3. ASSUME NEW w \in Waiters, pc'[w] \in AskedPcs
        PROVE  ProgressOf(w)' /\ (since[w].quiet => HonestOf(w)')
    BY <2>1, <2>2, <2>3, SameKeeps
  <2> QED BY <2>1, <2>3, <1>3
<1> QED BY <1>4, <1>5, <1>6, <1>7, <1>8, <1>9, <1>10, <1>11, <1>12 DEF Next, Wait, Exhausted
-----------------------------------------------------------------------------
(* The theorems.                                                           *)

\* The fields of the waits, the matcher, the cache and the check in progress
\* keep their types, whatever the waits, the output and the checks do
\* (session/trigger_matcher.py).
THEOREM TypeCorrect == Spec => []TypeOK
<1>1. Init => TypeOK /\ NoDrift
  BY InitTypes DEF Init, BufferInit, NoDrift, StreamEnd
<1>2. TypeOK /\ NoDrift /\ [Next]_vars => (TypeOK /\ NoDrift)'
  BY TypeStep, BufferStep DEF Slides
<1> QED BY <1>1, <1>2, PTL DEF Spec

\* When the session starts nobody waits and nothing is cached.
LEMMA InitInv == Init => TriggerInv
<1> SUFFICES ASSUME Init PROVE TriggerInv
  OBVIOUS
<1>1. TypeOK /\ NoDrift
  BY InitTypes DEF Init, BufferInit, NoDrift, StreamEnd
<1>2. \A w \in Waiters : pc[w] = "idle"
  BY DEF Init
<1>3. pc[Reader] = "idle"
  BY DEF Init
<1>4. Locks
  BY <1>2, <1>3 DEF Locks, Init, BufferInit, EmptyCache, NoCheck
<1>5. Window /\ Mine /\ Progress /\ Honest
  BY <1>2 DEF Window, Mine, Progress, Honest, AskedPcs
<1> QED BY <1>1, <1>4, <1>5 DEF TriggerInv

\* Every step keeps the invariant.
LEMMA StepInv ==
  ASSUME Alone, TriggerInv, [Next]_vars
  PROVE  TriggerInv'
<1>1. TypeOK /\ NoDrift /\ Locks /\ Window /\ Mine
  BY DEF TriggerInv
<1>2. Slides
  BY <1>1, BufferStep
<1>3. TypeOK' /\ NoDrift'
  BY <1>1, <1>2, TypeStep DEF Slides
<1>4. Locks' /\ Window' /\ Mine'
  BY <1>1, <1>2, LocksStep, WindowStep, MineStep
<1>5. PcTypes'
  BY <1>3 DEF TypeOK, PcTypes
<1>6. Progress' /\ Honest'
  BY <1>2, <1>5, SearchStep
<1> QED BY <1>3, <1>4, <1>6 DEF TriggerInv

\* An output that matches is caught: a wait that stands has been searched for.
LEMMA InvCatches == TriggerInv => NoMissedMatch
<1> SUFFICES ASSUME TriggerInv, NEW w \in Waiters, pc[w] = "waiting", bufLock = None,
                    trimGen = since[w].gen, Due(w), ~ matcher.matched
             PROVE  FALSE
  BY DEF NoMissedMatch
<1>1. Latest = cache /\ ~ Found
  BY DEF Latest, Found, Pending
<1>2. Searched(w, cache) /\ Covered(w, cache)
  BY <1>1 DEF TriggerInv, Progress, ProgressOf, Untrimmed, Caught, AskedPcs
<1>3. PICK p \in occurs[wants[w]] :
        /\ since[w].at <= p /\ p + Width <= produced /\ p + Width <= since[w].at + MaxScan
        /\ mode[w] = "newline" => \E q \in newlines : p + Width <= q + 1 /\ q < produced
  BY DEF Due
<1>4. /\ p \in Nat /\ Width \in Nat \ {0} /\ produced \in Nat /\ trimBase \in Nat
      /\ MaxScan \in Nat /\ since[w].at \in Nat /\ start[w] \in Nat
      /\ newlines \subseteq Nat /\ mode[w] \in Modes /\ cache.end \in Nat
  <2>1. cache \in Caches /\ wants[w] \in Patterns
    BY DEF TriggerInv, TypeOK
  <2>2. p \in Nat
    BY <2>1 DEF TriggerInv, TypeOK
  <2> QED BY <2>1, <2>2, TriggerAssumption DEF TriggerInv, TypeOK, BufferTypeOK, Caches
<1>5. since[w].at = trimBase + start[w]
  BY DEF TriggerInv, Window
<1>6. ASSUME NEW e \in Nat, p + Width <= e, Reaches(w, cache, e) PROVE FALSE
  <2>1. /\ cache.gen = trimGen
        /\ e <= trimBase + cache.end \/ since[w].at + MaxScan <= trimBase + cache.end
    BY <1>6 DEF Reaches
  <2>2. trimBase + cache.end < p + Width
    BY <2>1, <1>2, <1>3 DEF Searched
  <2> QED BY <2>1, <2>2, <1>3, <1>4, <1>6
<1>7. CASE mode[w] = "plain"
  BY <1>2, <1>3, <1>4, <1>6, <1>7 DEF Covered
<1>8. CASE mode[w] = "newline"
  <2>1. PICK q \in newlines : p + Width <= q + 1 /\ q < produced
    BY <1>3, <1>8
  <2>2. q \in Nat /\ trimBase <= q
    BY <2>1, <1>3, <1>4, <1>5
  <2> QED BY <2>1, <2>2, <1>2, <1>6, <1>8 DEF Covered
<1> QED BY <1>4, <1>7, <1>8 DEF Modes

\* When one client waits at a time, output that matches is found however the
\* stream is cut into chunks and whether it comes before, while or after the
\* pattern is set, as long as the buffer was not trimmed since: the rolling
\* cache with its overlap loses nothing (session/trigger_matcher.py, check).
THEOREM MatchesAreCaught == ASSUME Alone PROVE Spec => []NoMissedMatch
<1>1. Init => TriggerInv
  BY InitInv
<1>2. TriggerInv /\ [Next]_vars => TriggerInv'
  BY StepInv
<1>3. TriggerInv => NoMissedMatch
  BY InvCatches
<1> QED BY <1>1, <1>2, <1>3, PTL DEF Spec

\* When one client waits at a time, a match that is reported is one within the
\* window of the wait, unless a check was under way while the pattern was set
\* (session/trigger_matcher.py, check).
THEOREM MatchesAreReal == ASSUME Alone PROVE Spec => []MatchIsReal
<1>1. Init => TriggerInv
  BY InitInv
<1>2. TriggerInv /\ [Next]_vars => TriggerInv'
  BY StepInv
<1>3. TriggerInv => MatchIsReal
  BY DEF TriggerInv, Honest, MatchIsReal, Hit
<1> QED BY <1>1, <1>2, <1>3, PTL DEF Spec
=============================================================================
