--------------------------- MODULE ExchangeProofs ---------------------------
(***************************************************************************)
(* Proofs about Notifications, for any sessions, threads and caps, and     *)
(* about FileTransfer, for any files, sizes, connections and bounds.  The  *)
(* two modules share no name, so one module holds both.                    *)
(***************************************************************************)
EXTENDS Notifications, FileTransfer, FiniteSetTheorems, SequenceTheorems,
        WellFoundedInduction, TLAPS

\* What is pending was not given, nor what is not published yet; what is in the archive was.
Hands ==
  /\ \A n \in Ids : given[n] <= 1
  /\ \A n \in Ids : (n \in queue \/ n > Len(published)) => given[n] = 0
  /\ \A n \in ToSet(archive) : given[n] > 0

IInv == TypeOK /\ CountIsExact /\ Hands /\ NothingLost
-----------------------------------------------------------------------------
(* Sets of notifications.                                                  *)

\* What the assumption says of the constants, one by one.
LEMMA ConstantFacts ==
  /\ MaxPerSession \in Nat /\ MaxPerSession > 0
  /\ MaxArchive \in Nat /\ MaxArchive > 0
  /\ MaxPublished \in Nat
  /\ NoSession \notin Sessions
BY NotificationsAssumption

\* Sets of positions are finite.
LEMMA PositionsFinite ==
  ASSUME NEW S, S \subseteq Ids
  PROVE  IsFiniteSet(S) /\ Cardinality(S) \in Nat /\ (S = {} <=> Cardinality(S) = 0)
<1>1. IsFiniteSet(Ids)
  BY ConstantFacts, FS_Interval DEF Ids
<1>2. IsFiniteSet(S)
  BY <1>1, FS_Subset
<1> QED BY <1>2, FS_CardinalityType, FS_EmptySet

\* A set of positions that is not empty has a least one: the one that Oldest chooses.
LEMMA OldestIsLeast ==
  ASSUME NEW S, S \subseteq Ids, S # {}
  PROVE  Oldest(S) \in S /\ \A m \in S : Oldest(S) <= m
<1>1. S \subseteq Nat
  BY ConstantFacts DEF Ids
<1>2. PICK n \in S : \A m \in S : ~ (<<m, n>> \in OpToRel(<, Nat))
  BY <1>1, NatLessThanWellFounded, WFMin
<1>3. \A m \in S : ~ (m < n)
  <2> SUFFICES ASSUME NEW m \in S, m < n PROVE FALSE
    OBVIOUS
  <2>1. <<m, n>> \in OpToRel(<, Nat)
    BY <1>1 DEF OpToRel
  <2> QED BY <1>2, <2>1
<1>4. \A m \in S : n <= m
  BY <1>1, <1>3
<1> QED BY <1>4 DEF Oldest

\* The archive after ns is put into it: it keeps its length, holds nothing new but ns, and
\* loses something only when it is full.
LEMMA ArchivedFacts ==
  ASSUME TypeOK, NEW S, S \subseteq Ids, NEW ns \in InOrder(S)
  PROVE  /\ Archived(ns) \in Seq(Ids)
         /\ Len(Archived(ns)) <= MaxArchive
         /\ ToSet(Archived(ns)) \subseteq ToSet(archive) \cup S
         /\ \/ Len(Archived(ns)) = MaxArchive
            \/ ToSet(Archived(ns)) = ToSet(archive) \cup S
         /\ Len(archive) = MaxArchive => Len(Archived(ns)) = MaxArchive
<1> DEFINE all == archive \o ns
           dropped == IF Len(all) > MaxArchive THEN Len(all) - MaxArchive ELSE 0
           kept == Len(all) - dropped
<1>1. archive \in Seq(Ids)
  BY DEF TypeOK
<1>2. /\ ns \in Seq(Ids)
      /\ \A i \in 1..Len(ns) : ns[i] \in S
      /\ \A n \in S : \E i \in 1..Len(ns) : ns[i] = n
  BY PositionsFinite DEF InOrder
<1>3. /\ all \in Seq(Ids)
      /\ Len(all) = Len(archive) + Len(ns)
      /\ \A i \in 1..Len(archive) : all[i] = archive[i]
      /\ \A i \in 1..Len(ns) : all[Len(archive) + i] = ns[i]
      /\ \A i \in 1..Len(all) : \/ i \in 1..Len(archive) /\ all[i] = archive[i]
                                \/ i - Len(archive) \in 1..Len(ns) /\ all[i] = ns[i - Len(archive)]
  BY <1>1, <1>2
<1>4. {all[i] : i \in 1..Len(all)} = ToSet(archive) \cup S
  <2>1. \A i \in 1..Len(all) : all[i] \in ToSet(archive) \cup S
    BY <1>1, <1>2, <1>3 DEF ToSet
  <2>2. \A n \in ToSet(archive) : \E i \in 1..Len(all) : all[i] = n
    BY <1>1, <1>2, <1>3 DEF ToSet
  <2>3. \A n \in S : \E i \in 1..Len(all) : all[i] = n
    <3> SUFFICES ASSUME NEW n \in S PROVE \E i \in 1..Len(all) : all[i] = n
      OBVIOUS
    <3>1. PICK j \in 1..Len(ns) : ns[j] = n
      BY <1>2
    <3>2. Len(archive) + j \in 1..Len(all)
      BY <1>1, <1>2, <1>3
    <3> QED BY <1>3, <3>1, <3>2
  <2> QED BY <2>1, <2>2, <2>3
<1>5. Archived(ns) = [i \in 1..kept |-> all[i + dropped]]
  BY DEF Archived
<1>6. /\ Len(all) \in Nat /\ dropped \in Nat /\ kept \in Nat /\ kept <= MaxArchive /\ (kept = MaxArchive \/ dropped = 0)
      /\ (Len(archive) = MaxArchive => kept = MaxArchive)
  BY <1>3, ConstantFacts
<1> HIDE DEF all, dropped, kept
<1>7. \A i \in 1..kept : i + dropped \in 1..Len(all)
  BY <1>6 DEF kept
<1>8. /\ Archived(ns) \in Seq(Ids)
      /\ Len(Archived(ns)) = kept
      /\ DOMAIN Archived(ns) = 1..kept
  <2>1. \A i \in 1..kept : all[i + dropped] \in Ids
    BY <1>3, <1>7
  <2> QED BY <1>5, <1>6, <2>1
<1>9. ToSet(Archived(ns)) = {all[i + dropped] : i \in 1..kept}
  BY <1>5, <1>8 DEF ToSet
<1>10. ToSet(Archived(ns)) \subseteq ToSet(archive) \cup S
  BY <1>4, <1>7, <1>9
<1>11. dropped = 0 => ToSet(Archived(ns)) = {all[i] : i \in 1..Len(all)}
  BY <1>3, <1>6, <1>9 DEF kept
<1> QED BY <1>4, <1>6, <1>8, <1>10, <1>11
-----------------------------------------------------------------------------
(* The pieces of the steps.                                                *)

\* What a step moves to the archive leaves the queue and was given once.
LEMMA MoveKeepsHands ==
  ASSUME TypeOK, Hands, NEW S, S \subseteq queue, MoveToArchive(S),
         queue' = queue \ S, UNCHANGED published
  PROVE  /\ archive' \in Seq(Ids) /\ Len(archive') <= MaxArchive
         /\ given' \in [Ids -> Nat]
         /\ queue' \subseteq 1..Len(published')
         /\ Hands'
         /\ NothingLost => NothingLost'
<1>1. S \subseteq Ids /\ queue \subseteq Ids
  BY ConstantFacts DEF TypeOK, Ids
<1>2. PICK ns \in InOrder(S) : archive' = Archived(ns)
  BY DEF MoveToArchive
<1>3. /\ archive' \in Seq(Ids) /\ Len(archive') <= MaxArchive
      /\ ToSet(archive') \subseteq ToSet(archive) \cup S
      /\ Len(archive') = MaxArchive \/ ToSet(archive') = ToSet(archive) \cup S
      /\ Len(archive) = MaxArchive => Len(archive') = MaxArchive
  BY <1>1, <1>2, ArchivedFacts
<1>4. /\ given' \in [Ids -> Nat]
      /\ \A n \in Ids : given'[n] = IF n \in S THEN given[n] + 1 ELSE given[n]
  BY DEF MoveToArchive, TypeOK
<1>5. ToSet(archive) \subseteq Ids
  BY DEF ToSet, TypeOK
<1>0. \A n \in Ids : given[n] \in Nat
  BY DEF TypeOK
<1>6. queue' \subseteq 1..Len(published')
  BY DEF TypeOK
<1>7. Hands'
  <2>1. \A n \in Ids : given'[n] <= 1
    BY <1>0, <1>1, <1>4 DEF Hands
  <2>2. \A n \in Ids : (n \in queue' \/ n > Len(published')) => given'[n] = 0
    BY <1>1, <1>4 DEF Hands, TypeOK
  <2>3. \A n \in ToSet(archive') : given'[n] > 0
    <3> SUFFICES ASSUME NEW n \in ToSet(archive') PROVE given'[n] > 0
      OBVIOUS
    <3>1. n \in Ids /\ given[n] \in Nat
      BY <1>0, <1>1, <1>3, <1>5
    <3>2. n \in S \/ given[n] > 0
      BY <1>3 DEF Hands
    <3> QED BY <3>1, <3>2, <1>4
  <2> QED BY <2>1, <2>2, <2>3 DEF Hands
<1>8. NothingLost => NothingLost'
  <2> SUFFICES ASSUME NothingLost, NEW n \in 1..Len(published')
               PROVE  \/ n \in queue' \cup ToSet(archive')
                      \/ given'[n] > 0 /\ Len(archive') = MaxArchive
                      \/ published'[n] \in Sessions /\ Cardinality(Later(n)') >= MaxPerSession
    BY DEF NothingLost
  <2>1. n \in Ids
    BY ConstantFacts DEF TypeOK, Ids
  <2>2. CASE n \in queue \/ n \in ToSet(archive)
    <3>1. n \in queue' \/ given'[n] > 0
      BY <2>1, <2>2, <1>4 DEF Hands, TypeOK
    <3>2. n \in queue' \/ n \in ToSet(archive) \cup S
      BY <2>2
    <3> QED BY <3>1, <3>2, <1>3
  <2>3. CASE n \notin ToSet(archive) /\ given[n] > 0 /\ Len(archive) = MaxArchive
    <3>1. given'[n] > 0
      BY <2>1, <2>3, <1>0, <1>4
    <3>2. Len(archive') = MaxArchive
      BY <2>3, <1>3
    <3> QED BY <3>1, <3>2
  <2>4. CASE published[n] \in Sessions /\ Cardinality(Later(n)) >= MaxPerSession
    BY <2>4 DEF Later
  <2> QED BY <2>2, <2>3, <2>4 DEF NothingLost
<1> QED BY <1>3, <1>4, <1>6, <1>7, <1>8

\* Publishing loses nothing but what it evicts, and gives nothing.
LEMMA PublishKeepsHistory ==
  ASSUME TypeOK, TypeOK', Hands, NothingLost, NEW s \in Sessions \cup {NoSession},
         UNCHANGED <<archive, given>>,
         Len(published') = Len(published) + 1,
         \A n \in 1..Len(published) : published'[n] = published[n],
         Len(published) + 1 \in queue',
         queue' \subseteq queue \cup {Len(published) + 1},
         \A n \in queue : n \in queue' \/ (published'[n] \in Sessions /\ Cardinality(Later(n)') >= MaxPerSession)
  PROVE  Hands' /\ NothingLost'
<1>1. Len(published) \in Nat /\ Len(published) + 1 <= MaxPublished
  BY DEF TypeOK
<1>2. Hands'
  BY <1>1 DEF Hands, Ids, ToSet
<1>3. NothingLost'
  <2> SUFFICES ASSUME NEW n \in 1..Len(published')
               PROVE  \/ n \in queue' \cup ToSet(archive')
                      \/ given'[n] > 0 /\ Len(archive') = MaxArchive
                      \/ published'[n] \in Sessions /\ Cardinality(Later(n)') >= MaxPerSession
    BY DEF NothingLost
  <2>1. CASE n = Len(published) + 1
    BY <2>1
  <2>2. CASE n \in 1..Len(published)
    <3>1. CASE n \in queue \cup ToSet(archive) \/ (given[n] > 0 /\ Len(archive) = MaxArchive)
      BY <3>1 DEF ToSet
    <3>2. CASE published[n] \in Sessions /\ Cardinality(Later(n)) >= MaxPerSession
      <4>1. Later(n) \subseteq Later(n)'
        BY <2>2, <1>1 DEF Later
      <4>2. Later(n)' \subseteq Ids
        BY <2>2, <1>1, ConstantFacts DEF Later, Ids
      <4>3. Cardinality(Later(n)) <= Cardinality(Later(n)')
        BY <4>1, <4>2, PositionsFinite, FS_Subset
      <4>4. Cardinality(Later(n)) \in Nat /\ Cardinality(Later(n)') \in Nat
        BY <4>1, <4>2, PositionsFinite
      <4> QED BY <3>2, <4>3, <4>4, <2>2, ConstantFacts
    <3> QED BY <3>1, <3>2, <2>2 DEF NothingLost
  <2> QED BY <2>1, <2>2, <1>1
<1> QED BY <1>2, <1>3

\* A publisher keeps the invariant, with and without an eviction.
LEMMA PublishKeepsInv ==
  ASSUME IInv, NEW p \in Publishers, NEW s \in Sessions \cup {NoSession}, PublishEntry(p, s)
  PROVE  IInv'
<1> DEFINE new == Len(published) + 1
<1>1. TypeOK /\ CountIsExact /\ Hands /\ NothingLost
  BY DEF IInv
<1>2. /\ Len(published) \in Nat /\ new \in Ids /\ new \notin queue
      /\ queue \subseteq Ids
      /\ \A n \in queue : n \in Nat /\ n < new
  BY <1>1, ConstantFacts DEF PublishEntry, TypeOK, Ids
<1>3. /\ published' \in Seq(Sessions \cup {NoSession})
      /\ Len(published') = new /\ published'[new] = s
      /\ \A n \in 1..Len(published) : published'[n] = published[n]
  BY <1>1 DEF PublishEntry, TypeOK
<1>4. \A u : OfSession(u) \subseteq Ids
  BY <1>2 DEF OfSession
<1>5. \A n \in queue : published'[n] = published[n]
  BY <1>1, <1>3 DEF TypeOK
<1>6. queue' = Evicted(s) \cup {new} /\ Evicted(s) \subseteq queue
  BY DEF PublishEntry, Evicted
<1>0. /\ pc' \in [Threads -> Labels]
      /\ {awake', closed'} \subseteq BOOLEAN
      /\ UNCHANGED <<archive, taken, given>>
  BY <1>1 DEF PublishEntry, wakeVars, Goto, TypeOK, Threads, Labels
<1>11. queue' \subseteq 1..Len(published') /\ Len(published') <= MaxPublished
  <2>1. queue \subseteq 1..Len(published)
    BY <1>1 DEF TypeOK
  <2>2. queue' \subseteq 1..new
    <3>1. queue' \subseteq queue \cup {new}
      BY <1>6
    <3>2. new \in 1..new /\ \A n \in 1..Len(published) : n \in 1..new
      BY <1>2
    <3> QED BY <2>1, <3>1, <3>2
  <2>3. new <= MaxPublished
    BY <1>2, ConstantFacts DEF PublishEntry
  <2> QED BY <2>2, <2>3, <1>3
<1>7. \A u \in Sessions : u # s => OfSession(u)' = OfSession(u)
  <2> SUFFICES ASSUME NEW u \in Sessions, u # s PROVE OfSession(u)' = OfSession(u)
    OBVIOUS
  <2>1. CASE Evicted(s) = queue
    BY <2>1, <1>3, <1>5, <1>6 DEF OfSession
  <2>2. CASE OfSession(s) # {} /\ Evicted(s) = queue \ {Oldest(OfSession(s))}
    <3>1. published[Oldest(OfSession(s))] = s
      BY <2>2, <1>4, OldestIsLeast DEF OfSession
    <3> QED BY <2>2, <3>1, <1>3, <1>5, <1>6 DEF OfSession
  <2> QED BY <2>1, <2>2 DEF Evicted
<1>8. CASE Evicted(s) # queue
  <2>1. /\ s \in Sessions /\ count[s] + 1 > MaxPerSession /\ OfSession(s) # {}
        /\ Evicted(s) = queue \ {Oldest(OfSession(s))}
    BY <1>8 DEF Evicted
  <2>10. PICK oldest \in OfSession(s) : oldest = Oldest(OfSession(s)) /\ \A m \in OfSession(s) : oldest <= m
    BY <2>1, <1>4, OldestIsLeast
  <2>2. Evicted(s) = queue \ {oldest} /\ oldest \in queue /\ published[oldest] = s
    BY <2>1, <2>10 DEF OfSession
  <2>3. OfSession(s)' = (OfSession(s) \ {oldest}) \cup {new}
    BY <2>2, <1>2, <1>3, <1>5, <1>6 DEF OfSession
  <2>4. IsFiniteSet(OfSession(s)) /\ Cardinality(OfSession(s)) = count[s] /\ count[s] \in Nat
    BY <1>1, <1>4, <2>1, PositionsFinite DEF CountIsExact
  <2>5. Cardinality(OfSession(s)') = count[s] /\ IsFiniteSet(OfSession(s)')
    <3>1. /\ IsFiniteSet(OfSession(s) \ {oldest})
          /\ Cardinality(OfSession(s) \ {oldest}) = count[s] - 1
      BY <2>2, <2>4, FS_RemoveElement
    <3>2. new \notin OfSession(s) \ {oldest}
      BY <1>2 DEF OfSession
    <3>3. /\ IsFiniteSet((OfSession(s) \ {oldest}) \cup {new})
          /\ Cardinality((OfSession(s) \ {oldest}) \cup {new}) = Cardinality(OfSession(s) \ {oldest}) + 1
      BY <3>1, <3>2, FS_AddElement
    <3> QED BY <2>3, <2>4, <3>1, <3>3
  <2>6. count' = count
    BY <2>1, <2>2, <1>1, <1>8 DEF PublishEntry, TypeOK
  <2>7. TypeOK'
    BY <2>6, <1>0, <1>1, <1>2, <1>3, <1>11 DEF TypeOK
  <2>8. CountIsExact'
    BY <2>5, <2>6, <1>1, <1>7 DEF CountIsExact
  <2>9. oldest \in 1..Len(published) /\ Cardinality(Later(oldest)') >= MaxPerSession
    <3>1. OfSession(s)' \subseteq Later(oldest)'
      <4> SUFFICES ASSUME NEW m \in OfSession(s)' PROVE m \in Later(oldest)'
        OBVIOUS
      <4>1. oldest \in Nat /\ oldest < new /\ published'[oldest] = s
        BY <2>2, <1>2, <1>5
      <4>2. CASE m = new
        BY <4>1, <4>2, <1>2, <1>3 DEF Later
      <4>3. CASE m \in OfSession(s) \ {oldest}
        <5>1. m \in queue /\ m \in Nat /\ m < new /\ oldest < m
          BY <4>1, <4>3, <2>10, <1>2 DEF OfSession
        <5>2. published'[m] = s
          BY <4>3, <1>5 DEF OfSession
        <5> QED BY <4>1, <5>1, <5>2, <1>2, <1>3 DEF Later
      <4> QED BY <2>3, <4>2, <4>3
    <3>2. Later(oldest)' \subseteq Ids
      BY <2>2, <1>2, <1>3, <1>11, ConstantFacts DEF Later, Ids
    <3>3. Cardinality(Later(oldest)') \in Nat /\ IsFiniteSet(Later(oldest)')
      BY <3>2, PositionsFinite
    <3>4. Cardinality(Later(oldest)') >= count[s]
      BY <2>4, <2>5, <3>1, <3>3, FS_Subset
    <3> QED BY <2>1, <2>2, <2>4, <3>3, <3>4, <1>1, ConstantFacts DEF TypeOK
  <2>11. \A n \in queue : n \in queue' \/ (published'[n] \in Sessions /\ Cardinality(Later(n)') >= MaxPerSession)
    <3> SUFFICES ASSUME NEW n \in queue, n \notin queue'
                 PROVE  published'[n] \in Sessions /\ Cardinality(Later(n)') >= MaxPerSession
      OBVIOUS
    <3>1. n = oldest
      BY <2>2, <1>6
    <3>2. published'[oldest] = s
      BY <2>2, <1>5
    <3> QED BY <2>1, <2>9, <3>1, <3>2
  <2>12. Hands' /\ NothingLost'
    BY <2>7, <2>11, <1>0, <1>1, <1>3, <1>6, PublishKeepsHistory
  <2> QED BY <2>7, <2>8, <2>12 DEF IInv
<1>9. CASE Evicted(s) = queue
  <2>1. s \in Sessions => OfSession(s)' = OfSession(s) \cup {new}
    BY <1>9, <1>3, <1>5, <1>6 DEF OfSession
  <2>2. s \in Sessions => /\ IsFiniteSet(OfSession(s)) /\ Cardinality(OfSession(s)) = count[s]
                          /\ (OfSession(s) = {} <=> count[s] = 0)
                          /\ new \notin OfSession(s)
    BY <1>1, <1>2, <1>4, PositionsFinite DEF CountIsExact, OfSession
  <2>3. s \in Sessions => Cardinality(OfSession(s)') = count[s] + 1
    BY <2>1, <2>2, FS_AddElement
  <2>4. s \in Sessions => count[s] + 1 <= MaxPerSession
    <3> SUFFICES ASSUME s \in Sessions, count[s] + 1 > MaxPerSession PROVE FALSE
      BY <1>1, ConstantFacts DEF TypeOK
    <3>1. OfSession(s) # {}
      BY <2>2, ConstantFacts
    <3>2. Oldest(OfSession(s)) \in queue
      BY <3>1, <1>4, OldestIsLeast DEF OfSession
    <3> QED BY <3>1, <3>2, <1>9 DEF Evicted
  <2>5. \A u \in Sessions : count'[u] = IF u # s THEN count[u] ELSE count[u] + 1
    BY <1>9 DEF PublishEntry
  <2>6. count' \in [Sessions -> 0..MaxPerSession]
    BY <2>4, <1>1, <1>9, ConstantFacts DEF PublishEntry, TypeOK
  <2>7. TypeOK'
    BY <2>6, <1>0, <1>1, <1>2, <1>3, <1>11 DEF TypeOK
  <2>8. CountIsExact'
    BY <2>3, <2>5, <1>1, <1>7 DEF CountIsExact
  <2>9. \A n \in queue : n \in queue'
    BY <1>6, <1>9
  <2>10. Hands' /\ NothingLost'
    BY <2>7, <2>9, <1>0, <1>1, <1>3, <1>6, PublishKeepsHistory
  <2> QED BY <2>7, <2>8, <2>10 DEF IInv
<1> QED BY <1>8, <1>9

\* A wait that consumes keeps the invariant.
LEMMA ConsumePendingKeepsInv ==
  ASSUME IInv, NEW w \in Waiters, ConsumePending(w), NEW label \in Labels, Goto(w, label),
         UNCHANGED <<wakeVars, published>>
  PROVE  IInv'
<1>1. TypeOK /\ Hands /\ NothingLost /\ queue \subseteq Ids
  BY ConstantFacts DEF IInv, TypeOK, Ids
<1>2. queue' = queue \ queue /\ MoveToArchive(queue)
  BY DEF ConsumePending
<1>3. /\ archive' \in Seq(Ids) /\ Len(archive') <= MaxArchive
      /\ given' \in [Ids -> Nat]
      /\ queue' \subseteq 1..Len(published')
      /\ Hands' /\ NothingLost'
  BY <1>1, <1>2, MoveKeepsHands
<1>4. taken' \in [Waiters -> SUBSET Ids] /\ pc' \in [Threads -> Labels]
  BY <1>1 DEF ConsumePending, Goto, TypeOK, Threads
<1>5. TypeOK'
  BY <1>1, <1>3, <1>4, ConstantFacts DEF ConsumePending, TypeOK, wakeVars
<1>6. CountIsExact'
  <2>1. \A s \in Sessions : OfSession(s)' = {}
    BY <1>2 DEF OfSession
  <2> QED BY <2>1, FS_EmptySet DEF CountIsExact, ConsumePending
<1> QED BY <1>3, <1>5, <1>6 DEF IInv

\* A command that takes the notifications of its session keeps the invariant.
LEMMA ConsumeBySessionKeepsInv ==
  ASSUME IInv, NEW c \in Commands, NEW s \in Sessions, ConsumeBySession(c, s)
  PROVE  IInv'
<1>1. TypeOK /\ CountIsExact /\ Hands /\ NothingLost /\ OfSession(s) \subseteq queue
  BY DEF IInv, OfSession
<1>2. queue' = queue \ OfSession(s) /\ MoveToArchive(OfSession(s)) /\ UNCHANGED published
  BY DEF ConsumeBySession
<1>3. /\ archive' \in Seq(Ids) /\ Len(archive') <= MaxArchive
      /\ given' \in [Ids -> Nat]
      /\ queue' \subseteq 1..Len(published')
      /\ Hands' /\ NothingLost'
  BY <1>1, <1>2, MoveKeepsHands
<1>7. pc' \in [Threads -> Labels]
  BY <1>1 DEF ConsumeBySession, Goto, TypeOK, Threads, Labels
<1>4. count' \in [Sessions -> 0..MaxPerSession]
  BY <1>1, ConstantFacts DEF ConsumeBySession, TypeOK
<1>5. TypeOK'
  BY <1>1, <1>3, <1>4, <1>7 DEF ConsumeBySession, TypeOK, wakeVars
<1>6. CountIsExact'
  <2>1. OfSession(s)' = {} /\ count'[s] = 0
    BY <1>1, <1>2 DEF OfSession, ConsumeBySession, TypeOK
  <2>2. \A u \in Sessions : u # s => OfSession(u)' = OfSession(u) /\ count'[u] = count[u]
    BY <1>1, <1>2 DEF OfSession, ConsumeBySession, TypeOK
  <2> QED BY <2>1, <2>2, <1>1, FS_EmptySet DEF CountIsExact
<1> QED BY <1>3, <1>5, <1>6 DEF IInv

\* What a step that leaves the locked state alone has to keep.
LEMMA OutsideKeepsInv ==
  ASSUME IInv, UNCHANGED <<lockedVars, historyVars>>,
         {awake', closed'} \subseteq BOOLEAN, pc' \in [Threads -> Labels],
         taken' \in [Waiters -> SUBSET Ids]
  PROVE  IInv'
<1> USE DEF lockedVars, historyVars
<1>1. TypeOK'
  BY DEF IInv, TypeOK
<1>2. CountIsExact'
  BY DEF IInv, CountIsExact, OfSession
<1>3. Hands'
  BY DEF IInv, Hands, ToSet
<1>4. NothingLost'
  <2>1. \A n : Later(n)' = Later(n)
    BY DEF Later
  <2>2. ToSet(archive') = ToSet(archive)
    OBVIOUS
  <2> QED BY <2>1, <2>2 DEF IInv, NothingLost
<1> QED BY <1>1, <1>2, <1>3, <1>4 DEF IInv

\* Every step keeps the invariant.
LEMMA StepKeepsInv ==
  ASSUME IInv, [Next]_vars
  PROVE  IInv'
<1>1. /\ {awake, closed} \subseteq BOOLEAN /\ pc \in [Threads -> Labels]
      /\ taken \in [Waiters -> SUBSET Ids]
  BY DEF IInv, TypeOK
<1>2. ASSUME NEW t \in Threads, NEW label \in Labels, Goto(t, label)
      PROVE  pc' \in [Threads -> Labels]
  BY <1>1, <1>2 DEF Goto
<1>3. ASSUME NEW t \in Threads, NEW label \in Labels, Drain(t, label)
      PROVE  IInv'
  BY <1>1, <1>2, <1>3, OutsideKeepsInv DEF Drain
<1>4. CASE UNCHANGED vars
  BY <1>1, <1>4, OutsideKeepsInv DEF vars, wakeVars
<1>5. ASSUME NEW p \in Publishers, Publisher(p)
      PROVE  IInv'
  <2>1. CASE Wake(p)
    BY <2>1, <1>1, <1>2, OutsideKeepsInv DEF Wake, Threads, Labels
  <2> QED BY <1>5, <2>1, PublishKeepsInv DEF Publisher
<1>6. ASSUME NEW w \in Waiters, Waiter(w)
      PROVE  IInv'
  <2>0. w \in Threads /\ {"drain", "reply", "select", "woken", "consume", "drain again", "idle"} \subseteq Labels
    BY DEF Threads, Labels
  <2>1. CASE StartWait(w)
    BY <2>0, <2>1, ConsumePendingKeepsInv DEF StartWait
  <2>2. CASE DrainFirst(w)
    BY <2>0, <2>2, <1>3 DEF DrainFirst
  <2>3. CASE SelectWakes(w)
    BY <2>0, <2>3, <1>1, <1>2, OutsideKeepsInv DEF SelectWakes, wakeVars
  <2>4. CASE DrainWoken(w)
    BY <2>0, <2>4, <1>3 DEF DrainWoken
  <2>5. CASE ConsumeWoken(w)
    BY <2>0, <2>5, ConsumePendingKeepsInv DEF ConsumeWoken
  <2>6. CASE DrainAgain(w)
    BY <2>0, <2>6, <1>3 DEF DrainAgain
  <2>7. CASE EndSelect(w)
    BY <2>0, <2>7, <1>1, <1>2, OutsideKeepsInv DEF EndSelect, wakeVars
  <2>8. CASE Reply(w)
    BY <2>0, <2>8, <1>1, <1>2, OutsideKeepsInv DEF Reply, wakeVars
  <2> QED BY <1>6, <2>1, <2>2, <2>3, <2>4, <2>5, <2>6, <2>7, <2>8 DEF Waiter
<1>7. ASSUME NEW c \in Commands, Command(c)
      PROVE  IInv'
  <2>1. CASE DrainCommand(c)
    BY <2>1, <1>3 DEF DrainCommand, Threads, Labels
  <2> QED BY <1>7, <2>1, ConsumeBySessionKeepsInv DEF Command
<1>8. CASE Close
  BY <1>1, <1>8, OutsideKeepsInv DEF Close
<1> QED BY <1>4, <1>5, <1>6, <1>7, <1>8 DEF Next

\* The invariant holds at the start.
LEMMA InitInv == Init => IInv
<1> SUFFICES ASSUME Init PROVE IInv
  OBVIOUS
<1>1. TypeOK
  <2>1. "idle" \in Labels /\ 0 \in 0..MaxPerSession
    BY ConstantFacts DEF Labels
  <2>2. pc \in [Threads -> Labels] /\ count \in [Sessions -> 0..MaxPerSession]
    BY <2>1 DEF Init
  <2>3. archive = <<>> /\ published = <<>> /\ Len(archive) = 0 /\ Len(published) = 0
    BY DEF Init
  <2>4. archive \in Seq(Ids) /\ published \in Seq(Sessions \cup {NoSession})
    BY <2>3
  <2>5. given \in [Ids -> Nat] /\ taken \in [Waiters -> SUBSET Ids]
    BY DEF Init
  <2>6. queue \subseteq 1..Len(published) /\ {awake, closed} \subseteq BOOLEAN
    BY DEF Init
  <2> QED BY <2>2, <2>3, <2>4, <2>5, <2>6, ConstantFacts DEF TypeOK
<1>2. \A s \in Sessions : OfSession(s) = {}
  BY DEF Init, OfSession
<1>3. CountIsExact
  BY <1>2, FS_EmptySet DEF Init, CountIsExact
<1>4. Hands /\ NothingLost
  BY DEF Init, Hands, NothingLost, Ids, ToSet
<1> QED BY <1>1, <1>3, <1>4 DEF IInv

\* The invariant holds always.
LEMMA InvKept == Spec => []IInv
BY InitInv, StepKeepsInv, PTL DEF Spec
-----------------------------------------------------------------------------
(* The results.                                                            *)

\* Types, and with them the caps: no session has more pending than
\* MAX_NOTIF_PER_SESSION, and the archive never holds more than it may.
THEOREM TypeCorrect == Spec => []TypeOK
BY InvKept, PTL DEF IInv

\* The count that decides about eviction is the number of a session's pending
\* notifications, whichever threads publish and consume.
THEOREM CountsExact == Spec => []CountIsExact
BY InvKept, PTL DEF IInv

\* No two consumers, waits or commands, get the same notification.
THEOREM GivenAtMostOnce == Spec => []GivenOnce
<1>1. IInv => GivenOnce
  BY DEF IInv, Hands, GivenOnce, TypeOK
<1> QED BY <1>1, InvKept, PTL

\* What was published can be looked up until the caps push it out: the only
\* losses are evictions by later ones of its own session and a full archive.
THEOREM NoneLost == Spec => []NothingLost
BY InvKept, PTL DEF IInv
-----------------------------------------------------------------------------
(***************************************************************************)
(* FileTransfer.  The types, for ids and times up to n.                    *)
(***************************************************************************)
Copies(n) == [id : 0..n, size : Sizes \cup {0}, mtime : 0..n]
Trees(n) == [Files -> Copies(n)]
Manifests(n) == [type : {"manifest"}, entries : Trees(n)]
Plans == [type : {"plan"}, todo : SUBSET Files]
FilesSent(n) == [type : {"file"}, data : Copies(n), meta : Copies(n)]
Acks == [type : {"ack"}, ok : BOOLEAN]
Aborts == [type : {"abort"}]
Frames(n) == Manifests(n) \cup Plans \cup FilesSent(n) \cup Acks \cup Aborts
Landings(n) == [file : Files, over : 0..n, old : 0..n, new : 0..n]
Skips(n) == Files \X (0..n) \X (0..n)
ClientPcs == {"manifest", "plan", "stat", "read", "ack", "receive", "replace", "utime", "done"}
ThreadPcs == {"scan", "manifest", "receive", "replace", "utime", "history", "record", "failed",
              "stat", "read", "ack", "restat", "done"}
Clients(n) ==
    [pc : ClientPcs, dir : {"upload", "download"}, force : BOOLEAN, todo : SUBSET Files,
     meta : Copies(n), data : Copies(n), done : SUBSET Files, tmp : BOOLEAN]
ServerThreads(n) ==
    [pc : ThreadPcs, todo : SUBSET Files, seen : Trees(n), meta : Copies(n), data : Copies(n),
     old : 0..n, landed : SUBSET Landings(n), skipped : SUBSET Skips(n), tmp : BOOLEAN]
Records(n) == [size : Sizes \cup {0}, cli : 0..n, remote : 0..n]

DiskTypes(n) ==
    /\ local \in Trees(n) /\ remote \in Trees(n)
    /\ record \in [Files -> Records(n)]
    /\ versions \in [Files -> SUBSET (1..n)]
EndTypes(n) == cl \in [Conns -> Clients(n)] /\ dm \in [Conns -> ServerThreads(n)]
WireTypes(n) ==
    /\ toD \in [Conns -> Seq(Frames(n))] /\ toC \in [Conns -> Seq(Frames(n))]
    /\ cut \in [Conns -> BOOLEAN]
Counts ==
    /\ used \in [transfers : Nat, edits : Nat, crashes : Nat]
    /\ collided \subseteq Files
TypesUpTo(n) == DiskTypes(n) /\ EndTypes(n) /\ WireTypes(n) /\ Counts
Types == clock \in Nat /\ clock > 0 /\ TypesUpTo(clock)
-----------------------------------------------------------------------------
(* Files and frames.                                                       *)

\* A plan that is not empty has a first file.
LEMMA FirstIsOne ==
    ASSUME NEW files, files \subseteq Files, files # {}
    PROVE  /\ First(files) \in files /\ First(files) \in Files
           /\ Rest(files) = files \ {First(files)} /\ Rest(files) \subseteq Files
<1> DEFINE places == {Place[f] : f \in files}
<1>1. places \subseteq Nat /\ places # {}
  BY TransferAssumption
<1>2. PICK n \in places : \A m \in places : ~ (<<m, n>> \in OpToRel(<, Nat))
  <2> HIDE DEF places
  <2> QED BY <1>1, NatLessThanWellFounded, WFMin
<1>3. \A m \in places : n <= m
  <2> SUFFICES ASSUME NEW m \in places, m < n PROVE FALSE
    BY <1>1
  <2>1. <<m, n>> \in OpToRel(<, Nat)
    <3> HIDE DEF places
    <3> QED BY <1>1 DEF OpToRel
  <2> QED BY <1>2, <2>1
<1>4. PICK f \in files : n = Place[f]
  OBVIOUS
<1>5. \A g \in files : Place[f] <= Place[g]
  BY <1>3, <1>4
<1>6. First(files) \in files
  BY <1>5 DEF First
<1> QED BY <1>6 DEF Rest

\* A queue that gets its second frame.
LEMMA AppendSecond ==
    ASSUME NEW S, NEW q \in Seq(S), NEW y \in S, Len(q) = 1
    PROVE  Append(q, y) = <<q[1], y>>
<1>1. Append(q, y) \in Seq(S) 
  OBVIOUS
<1>2. Len(Append(q, y)) = 2
  OBVIOUS
<1>3. Append(q, y)[1] = q[1] 
  OBVIOUS
<1>4. Append(q, y)[2] = y
  <2>1. Append(q, y)[Len(q) + 1] = y
    BY AppendProperties
  <2> QED BY <2>1
<1>5. q[1] \in S
  BY 1 \in 1..Len(q), ElementOfSeq
<1>6. <<q[1], y>> \in Seq(S) 
  BY <1>5
<1>7. Len(<<q[1], y>>) = 2
  OBVIOUS
<1>8. <<q[1], y>>[1] = q[1] /\ <<q[1], y>>[2] = y
  OBVIOUS
<1>9. \A i \in 1..2 : Append(q, y)[i] = <<q[1], y>>[i]
  <2> SUFFICES ASSUME NEW i \in 1..2 PROVE Append(q, y)[i] = <<q[1], y>>[i]
    OBVIOUS
  <2>1. i = 1 \/ i = 2
    OBVIOUS
  <2>2. CASE i = 1
    BY <2>2, <1>3, <1>8, Zenon
  <2>3. CASE i = 2
    BY <2>3, <1>4, <1>8, Zenon
  <2> QED BY <2>1, <2>2, <2>3
<1> QED BY <1>1, <1>2, <1>6, <1>7, <1>9, SeqEqual

\* Queues of one frame and of two.
LEMMA ShortQueues ==
    ASSUME NEW x, NEW y
    PROVE  /\ Append(<<>>, x) = <<x>> /\ Append(<<x>>, y) = <<x, y>>
           /\ Head(<<x>>) = x /\ Tail(<<x>>) = <<>>
           /\ Head(<<x, y>>) = x /\ Tail(<<x, y>>) = <<y>>
           /\ <<x>> # <<>> /\ <<x, y>> # <<>>
           /\ Len(<<>>) = 0 /\ Len(<<x>>) = 1 /\ Len(<<x, y>>) = 2
<1>1. Append(<<x>>, y) = <<x, y>>
  <2>1. <<x>> \in Seq({x, y}) /\ y \in {x, y} /\ Len(<<x>>) = 1 /\ <<x>>[1] = x
    OBVIOUS
  <2> QED BY <2>1, AppendSecond
<1>2. Append(<<>>, x) = <<x>> /\ Head(<<x>>) = x /\ Tail(<<x>>) = <<>>
  OBVIOUS
<1>3. Head(<<x, y>>) = x /\ Tail(<<x, y>>) = <<y>>
  OBVIOUS
<1>4. <<x>> # <<>> /\ <<x, y>> # <<>>
  OBVIOUS
<1>5. Len(<<>>) = 0 /\ Len(<<x>>) = 1 /\ Len(<<x, y>>) = 2
  OBVIOUS
<1> QED BY <1>1, <1>2, <1>3, <1>4, <1>5

LEMMA ShortQueuesDiffer ==
    ASSUME NEW x, NEW y, NEW z
    PROVE  /\ <<x>> = <<y>> => x = y
           /\ <<x>> # <<y, z>>
OBVIOUS

LEMMA ShortQueuesDiffer2 ==
    ASSUME NEW w, NEW x, NEW y, NEW z, <<w, x>> = <<y, z>>
    PROVE  w = y /\ x = z
OBVIOUS

LEMMA QueueTypes ==
    ASSUME NEW S, NEW q \in Seq(S), NEW x \in S
    PROVE  /\ Append(q, x) \in Seq(S)
           /\ q # <<>> => Tail(q) \in Seq(S) /\ Head(q) \in S
           /\ <<>> \in Seq(S) /\ <<x>> \in Seq(S)
OBVIOUS

\* What is good up to n is good up to m.
LEMMA TypesGrow ==
    ASSUME NEW n \in Nat, NEW m \in Nat, n <= m
    PROVE  /\ Copies(n) \subseteq Copies(m) /\ Trees(n) \subseteq Trees(m)
           /\ Frames(n) \subseteq Frames(m)
           /\ Clients(n) \subseteq Clients(m) /\ ServerThreads(n) \subseteq ServerThreads(m)
           /\ Records(n) \subseteq Records(m)
<1>1. 0..n \subseteq 0..m
  OBVIOUS
<1>2. Copies(n) \subseteq Copies(m)
  BY <1>1 DEF Copies
<1>3. Trees(n) \subseteq Trees(m)
  BY <1>2 DEF Trees
<1>4. Manifests(n) \subseteq Manifests(m)
  BY <1>3 DEF Manifests
<1>5. FilesSent(n) \subseteq FilesSent(m)
  BY <1>2 DEF FilesSent
<1>6. Frames(n) \subseteq Frames(m)
  BY <1>4, <1>5 DEF Frames
<1>7. Clients(n) \subseteq Clients(m)
  BY <1>2 DEF Clients
<1>8. Landings(n) \subseteq Landings(m)
  BY <1>1 DEF Landings
<1>9. Skips(n) \subseteq Skips(m)
  BY <1>1 DEF Skips
<1>10. ServerThreads(n) \subseteq ServerThreads(m)
  BY <1>1, <1>2, <1>3, <1>8, <1>9 DEF ServerThreads
<1>11. Records(n) \subseteq Records(m)
  BY <1>1 DEF Records
<1> QED BY <1>2, <1>3, <1>6, <1>7, <1>10, <1>11

LEMMA TypesUpToGrow ==
    ASSUME NEW n \in Nat, NEW m \in Nat, n <= m, TypesUpTo(n)
    PROVE  TypesUpTo(m)
<1>1. /\ Copies(n) \subseteq Copies(m) /\ Trees(n) \subseteq Trees(m)
      /\ Frames(n) \subseteq Frames(m) /\ Clients(n) \subseteq Clients(m)
      /\ ServerThreads(n) \subseteq ServerThreads(m) /\ Records(n) \subseteq Records(m)
  BY TypesGrow
<1>2. Seq(Frames(n)) \subseteq Seq(Frames(m))
  BY <1>1
<1>3. SUBSET (1..n) \subseteq SUBSET (1..m)
  OBVIOUS
<1> QED BY <1>1, <1>2, <1>3 DEF TypesUpTo, DiskTypes, EndTypes, WireTypes

\* What frames are made of.
LEMMA FramesMade ==
    ASSUME NEW n \in Nat
    PROVE  /\ \A e \in Trees(n) : Manifest(e) \in Frames(n)
           /\ \A t \in SUBSET Files : Plan(t) \in Frames(n)
           /\ \A x, meta \in Copies(n) : FileFrames(x, meta) \in Frames(n)
           /\ \A ok \in BOOLEAN : Ack(ok) \in Frames(n)
           /\ Abort \in Frames(n)
BY DEF Frames, Manifests, Plans, FilesSent, Acks, Aborts, Manifest, Plan, FileFrames, Ack, Abort

LEMMA FrameParts ==
    ASSUME NEW e, NEW t, NEW x, NEW meta, NEW ok
    PROVE  /\ Manifest(e).type = "manifest" /\ Manifest(e).entries = e
           /\ Plan(t).type = "plan" /\ Plan(t).todo = t
           /\ FileFrames(x, meta).type = "file" /\ FileFrames(x, meta).data = x
           /\ FileFrames(x, meta).meta = meta
           /\ Ack(ok).type = "ack" /\ Ack(ok).ok = ok
           /\ Abort.type = "abort"
BY DEF Manifest, Plan, FileFrames, Ack, Abort

LEMMA FramesRead ==
    ASSUME NEW n \in Nat, NEW m \in Frames(n)
    PROVE  /\ m.type = "manifest" => m.entries \in Trees(n) /\ m = Manifest(m.entries)
           /\ m.type = "plan" => m.todo \in SUBSET Files /\ m = Plan(m.todo)
           /\ m.type = "file" => /\ m.data \in Copies(n) /\ m.meta \in Copies(n)
                                 /\ m = FileFrames(m.data, m.meta)
           /\ m.type = "ack" => m.ok \in BOOLEAN /\ m = Ack(m.ok)
           /\ m.type = "abort" => m = Abort
<1>1. CASE m \in Manifests(n)
  BY <1>1 DEF Manifests, Manifest
<1>2. CASE m \in Plans
  BY <1>2 DEF Plans, Plan
<1>3. CASE m \in FilesSent(n)
  BY <1>3 DEF FilesSent, FileFrames
<1>4. CASE m \in Acks
  BY <1>4 DEF Acks, Ack
<1>5. CASE m \in Aborts
  BY <1>5 DEF Aborts, Abort
<1> QED BY <1>1, <1>2, <1>3, <1>4, <1>5 DEF Frames

LEMMA NothingTyped ==
    ASSUME NEW n \in Nat
    PROVE  /\ Absent \in Copies(n) /\ NoEntries \in Trees(n)
           /\ IdleClient \in Clients(n) /\ IdleThread \in ServerThreads(n)
           /\ NoRecord \in Records(n)
<1>1. Absent \in Copies(n) /\ 0 \in 0..n
  BY DEF Absent, Copies
<1>2. NoEntries \in Trees(n)
  BY <1>1 DEF NoEntries, Trees
<1>3. IdleClient \in Clients(n)
  BY <1>1 DEF IdleClient, Clients, ClientPcs
<1>4. IdleThread \in ServerThreads(n)
  BY <1>1, <1>2 DEF IdleThread, ServerThreads, ThreadPcs
<1>5. NoRecord \in Records(n)
  BY <1>1 DEF NoRecord, RecordOf, Records
<1> QED BY <1>1, <1>2, <1>3, <1>4, <1>5

\* Sending and taking leave queues of frames.
LEMMA WireTyped ==
    ASSUME NEW n \in Nat, WireTypes(n), NEW c \in Conns
    PROVE  /\ \A m \in Frames(n) : SendD(c, m) => toD' \in [Conns -> Seq(Frames(n))]
           /\ \A m \in Frames(n) : SendC(c, m) => toC' \in [Conns -> Seq(Frames(n))]
           /\ TakeD(c) /\ toD[c] # <<>> => toD' \in [Conns -> Seq(Frames(n))]
           /\ TakeC(c) /\ toC[c] # <<>> => toC' \in [Conns -> Seq(Frames(n))]
           /\ HangUp(c) => cut' \in [Conns -> BOOLEAN]
           /\ toD[c] # <<>> => Head(toD[c]) \in Frames(n)
           /\ toC[c] # <<>> => Head(toC[c]) \in Frames(n)
<1> DEFINE F == Frames(n)
<1> HIDE DEF F
<1>1. toD \in [Conns -> Seq(F)] /\ toC \in [Conns -> Seq(F)] /\ cut \in [Conns -> BOOLEAN]
  BY DEF WireTypes, F
<1>2. \A m \in F : Append(toD[c], m) \in Seq(F) /\ Append(toC[c], m) \in Seq(F)
  BY <1>1, QueueTypes
<1>3. toD[c] # <<>> => Tail(toD[c]) \in Seq(F) /\ Head(toD[c]) \in F
  BY <1>1, QueueTypes
<1>4. toC[c] # <<>> => Tail(toC[c]) \in Seq(F) /\ Head(toC[c]) \in F
  BY <1>1, QueueTypes
<1>5. ASSUME NEW m \in F, SendD(c, m) PROVE toD' \in [Conns -> Seq(F)]
  BY <1>1, <1>2, <1>5 DEF SendD
<1>6. ASSUME NEW m \in F, SendC(c, m) PROVE toC' \in [Conns -> Seq(F)]
  BY <1>1, <1>2, <1>6 DEF SendC
<1>7. TakeD(c) /\ toD[c] # <<>> => toD' \in [Conns -> Seq(F)]
  BY <1>1, <1>3 DEF TakeD
<1>8. TakeC(c) /\ toC[c] # <<>> => toC' \in [Conns -> Seq(F)]
  BY <1>1, <1>4 DEF TakeC
<1>9. HangUp(c) => cut' \in [Conns -> BOOLEAN]
  BY <1>1 DEF HangUp
<1> QED BY <1>3, <1>4, <1>5, <1>6, <1>7, <1>8, <1>9 DEF F

\* Edited and replaced trees.
LEMMA TreeTyped ==
    ASSUME NEW n \in Nat, NEW tree \in Trees(n), NEW f \in Files, NEW x \in Copies(n),
           NEW t \in 0..n
    PROVE  /\ tree[f] \in Copies(n)
           /\ [tree EXCEPT ![f] = x] \in Trees(n)
           /\ [tree EXCEPT ![f] = [x EXCEPT !.mtime = t]] \in Trees(n)
           /\ [tree EXCEPT ![f].mtime = t] \in Trees(n)
BY DEF Trees, Copies

\* The parts of the types, one by one, of one connection.
LEMMA TypeParts ==
    ASSUME NEW n \in Nat, TypesUpTo(n), NEW c \in Conns
    PROVE  /\ cl \in [Conns -> Clients(n)] /\ dm \in [Conns -> ServerThreads(n)]
           /\ local \in Trees(n) /\ remote \in Trees(n)
           /\ record \in [Files -> Records(n)] /\ versions \in [Files -> SUBSET (1..n)]
           /\ toD \in [Conns -> Seq(Frames(n))] /\ toC \in [Conns -> Seq(Frames(n))]
           /\ cut \in [Conns -> BOOLEAN]
           /\ used \in [transfers : Nat, edits : Nat, crashes : Nat] /\ collided \subseteq Files
           /\ cl[c] \in Clients(n) /\ dm[c] \in ServerThreads(n)
           /\ cl[c].pc \in ClientPcs /\ cl[c].dir \in {"upload", "download"}
           /\ cl[c].todo \subseteq Files /\ cl[c].done \subseteq Files
           /\ cl[c].meta \in Copies(n) /\ cl[c].data \in Copies(n)
           /\ dm[c].pc \in ThreadPcs /\ dm[c].todo \subseteq Files
           /\ dm[c].seen \in Trees(n) /\ dm[c].meta \in Copies(n) /\ dm[c].data \in Copies(n)
           /\ dm[c].old \in 0..n /\ dm[c].landed \subseteq Landings(n)
           /\ dm[c].skipped \subseteq Skips(n)
           /\ toD[c] \in Seq(Frames(n)) /\ toC[c] \in Seq(Frames(n)) /\ cut[c] \in BOOLEAN
<1>1. /\ cl \in [Conns -> Clients(n)] /\ dm \in [Conns -> ServerThreads(n)]
      /\ local \in Trees(n) /\ remote \in Trees(n)
      /\ record \in [Files -> Records(n)] /\ versions \in [Files -> SUBSET (1..n)]
      /\ toD \in [Conns -> Seq(Frames(n))] /\ toC \in [Conns -> Seq(Frames(n))]
      /\ cut \in [Conns -> BOOLEAN]
      /\ used \in [transfers : Nat, edits : Nat, crashes : Nat] /\ collided \subseteq Files
  BY DEF TypesUpTo, DiskTypes, EndTypes, WireTypes, Counts
<1>2. cl[c] \in Clients(n) /\ dm[c] \in ServerThreads(n)
  BY <1>1
<1>3. /\ cl[c].pc \in ClientPcs /\ cl[c].dir \in {"upload", "download"}
      /\ cl[c].todo \subseteq Files /\ cl[c].done \subseteq Files
      /\ cl[c].meta \in Copies(n) /\ cl[c].data \in Copies(n)
  BY <1>2 DEF Clients
<1>4. /\ dm[c].pc \in ThreadPcs /\ dm[c].todo \subseteq Files
      /\ dm[c].seen \in Trees(n) /\ dm[c].meta \in Copies(n) /\ dm[c].data \in Copies(n)
      /\ dm[c].old \in 0..n /\ dm[c].landed \subseteq Landings(n)
      /\ dm[c].skipped \subseteq Skips(n)
  BY <1>2 DEF ServerThreads
<1>5. toD[c] \in Seq(Frames(n)) /\ toC[c] \in Seq(Frames(n)) /\ cut[c] \in BOOLEAN
  BY <1>1
<1> QED BY <1>1, <1>2, <1>3, <1>4, <1>5

\* The next file on either side.
LEMMA GoesOnTyped ==
    ASSUME NEW n \in Nat, TypesUpTo(n), NEW c \in Conns, NEW todo \in SUBSET Files,
           NEW done \in SUBSET Files, NEW landed \in SUBSET Landings(n)
    PROVE  /\ ClientGoesOn(c, todo, done) =>
                cl' \in [Conns -> Clients(n)] /\ cut' \in [Conns -> BOOLEAN]
           /\ dm[c].todo # {} /\ ThreadGoesOn(c, landed) =>
                dm' \in [Conns -> ServerThreads(n)] /\ cut' \in [Conns -> BOOLEAN]
<1>1. /\ cl \in [Conns -> Clients(n)] /\ dm \in [Conns -> ServerThreads(n)]
      /\ cut \in [Conns -> BOOLEAN] /\ remote \in Trees(n) /\ dm[c].todo \subseteq Files
  BY TypeParts
<1>2. Absent \in Copies(n) /\ 0 \in 0..n
  BY NothingTyped
<1>3. ASSUME ClientGoesOn(c, todo, done)
      PROVE  cl' \in [Conns -> Clients(n)] /\ cut' \in [Conns -> BOOLEAN]
  <2> DEFINE stage == IF todo = {} THEN "done" ELSE IF Uploads(c) THEN "stat" ELSE "receive"
             tmp == todo # {} /\ ~Uploads(c)
  <2>1. stage \in ClientPcs /\ tmp \in BOOLEAN
    BY DEF ClientPcs
  <2> DEFINE next == [cl[c] EXCEPT !.todo = todo, !.done = done, !.meta = Absent,
                                   !.data = Absent, !.tmp = tmp, !.pc = stage]
             end == cut[c] \/ todo = {}
  <2>2. cl' = [cl EXCEPT ![c] = next] /\ cut' = [cut EXCEPT ![c] = end]
    BY <1>3 DEF ClientGoesOn
  <2> HIDE DEF stage, tmp
  <2>3. next \in Clients(n) /\ end \in BOOLEAN
    BY <1>1, <1>2, <2>1 DEF Clients
  <2> HIDE DEF next, end
  <2> QED BY <1>1, <2>2, <2>3
<1>4. ASSUME dm[c].todo # {}, ThreadGoesOn(c, landed)
      PROVE  dm' \in [Conns -> ServerThreads(n)] /\ cut' \in [Conns -> BOOLEAN]
  <2> DEFINE rest == Rest(dm[c].todo)
             stage == IF rest = {} THEN "done" ELSE IF Uploads(c) THEN "receive" ELSE "stat"
             tmp == Uploads(c) /\ rest # {}
             old == IF rest = {} THEN 0 ELSE remote[First(rest)].id
  <2>1. rest \in SUBSET Files
    BY <1>1, <1>4, FirstIsOne
  <2>2. rest # {} => remote[First(rest)] \in Copies(n)
    <3> HIDE DEF rest
    <3> QED BY <1>1, <2>1, FirstIsOne DEF Trees
  <2>3. stage \in ThreadPcs /\ tmp \in BOOLEAN /\ old \in 0..n
    <3> HIDE DEF rest
    <3> QED BY <1>2, <2>2 DEF ThreadPcs, Copies
  <2> DEFINE next == [dm[c] EXCEPT !.todo = rest, !.landed = landed, !.meta = Absent,
                                   !.data = Absent, !.old = old, !.tmp = tmp, !.pc = stage]
             end == cut[c] \/ rest = {}
  <2>4. dm' = [dm EXCEPT ![c] = next] /\ cut' = [cut EXCEPT ![c] = end]
    BY <1>4 DEF ThreadGoesOn
  <2> HIDE DEF rest, stage, tmp, old
  <2>5. next \in ServerThreads(n) /\ end \in BOOLEAN
    BY <1>1, <1>2, <2>1, <2>3 DEF ServerThreads
  <2> HIDE DEF next, end
  <2> QED BY <1>1, <2>4, <2>5
<1> QED BY <1>3, <1>4
-----------------------------------------------------------------------------
(* The types are kept.                                                     *)
\* Who works on a file has one.
Busy(client, thread) ==
    /\ client.pc \in {"stat", "read", "ack", "receive", "replace", "utime"} => client.todo # {}
    /\ thread.pc \in {"receive", "replace", "utime", "history", "record",
                      "stat", "read", "ack", "restat"} => thread.todo # {}

LEMMA DataFrames ==
    ASSUME NEW n \in Nat, TypesUpTo(n), NEW c \in Conns
    PROVE  /\ HearsC(c, "plan") => Head(toC[c]).todo \in SUBSET Files
           /\ HearsC(c, "file") => Head(toC[c]).data \in Copies(n) /\ Head(toC[c]).meta \in Copies(n)
           /\ HearsD(c, "file") => Head(toD[c]).data \in Copies(n) /\ Head(toD[c]).meta \in Copies(n)
           /\ HearsD(c, "manifest") => Head(toD[c]).entries \in Trees(n)
<1>1. /\ toC[c] # <<>> => Head(toC[c]) \in Frames(n)
      /\ toD[c] # <<>> => Head(toD[c]) \in Frames(n)
  BY WireTyped DEF TypesUpTo
<1> QED BY <1>1, FramesRead DEF HearsC, HearsD

LEMMA ClientTypes ==
    ASSUME NEW n \in Nat, TypesUpTo(n), NEW c \in Conns, Busy(cl[c], dm[c]),
           clock \in Nat, clock' = n, clock <= n, ClientStep(c)
    PROVE  TypesUpTo(n)'
<1>1. /\ cl \in [Conns -> Clients(n)] /\ dm \in [Conns -> ServerThreads(n)]
      /\ local \in Trees(n) /\ cut \in [Conns -> BOOLEAN] /\ cl[c] \in Clients(n)
      /\ cl[c].todo \subseteq Files /\ cl[c].done \subseteq Files
      /\ cl[c].meta \in Copies(n) /\ cl[c].data \in Copies(n) /\ clock + 1 \in Nat
      /\ collided \subseteq Files
  BY TypeParts
<1>2. /\ \A e \in Trees(n) : Manifest(e) \in Frames(n)
      /\ \A x, meta \in Copies(n) : FileFrames(x, meta) \in Frames(n)
      /\ Ack(TRUE) \in Frames(n) /\ Abort \in Frames(n) /\ Absent \in Copies(n)
  BY FramesMade, NothingTyped
<1>3. /\ \A m \in Frames(n) : SendD(c, m) => toD' \in [Conns -> Seq(Frames(n))]
      /\ TakeC(c) /\ toC[c] # <<>> => toC' \in [Conns -> Seq(Frames(n))]
      /\ HangUp(c) => cut' \in [Conns -> BOOLEAN]
      /\ <<>> \in Seq(Frames(n))
  BY <1>2, WireTyped, QueueTypes DEF TypesUpTo
<1>4. cl[c].pc \in {"stat", "read", "ack", "receive", "replace", "utime"} =>
        /\ CurrentOfClient(c) \in Files /\ Rest(cl[c].todo) \subseteq Files
        /\ cl[c].done \cup {CurrentOfClient(c)} \in SUBSET Files
        /\ local[CurrentOfClient(c)] \in Copies(n)
  BY <1>1, FirstIsOne DEF Busy, CurrentOfClient, Trees
<1>5. /\ HearsC(c, "plan") => Head(toC[c]).todo \in SUBSET Files
      /\ HearsC(c, "file") => Head(toC[c]).data \in Copies(n) /\ Head(toC[c]).meta \in Copies(n)
  BY DataFrames
<1>6. ASSUME NEW todo \in SUBSET Files, NEW done \in SUBSET Files, ClientGoesOn(c, todo, done)
      PROVE  cl' \in [Conns -> Clients(n)] /\ cut' \in [Conns -> BOOLEAN]
  BY <1>6, GoesOnTyped, {} \in SUBSET Landings(n)
<1>7. CASE AnswerManifest(c)
  <2>1. [cl[c] EXCEPT !.pc = "plan"] \in Clients(n)
    BY <1>1 DEF Clients, ClientPcs
  <2>2. cl' = [cl EXCEPT ![c] = [cl[c] EXCEPT !.pc = "plan"]] /\ toC[c] # <<>>
    BY <1>7 DEF AnswerManifest, HearsC
  <2>3. cl' \in [Conns -> Clients(n)]
    BY <1>1, <2>1, <2>2
  <2> QED BY <1>1, <1>2, <1>3, <1>7, <2>2, <2>3
      DEF AnswerManifest, TypesUpTo, DiskTypes, EndTypes, WireTypes, Counts, disk
<1>8. CASE TakePlan(c)
  <2>1. cl' \in [Conns -> Clients(n)] /\ cut' \in [Conns -> BOOLEAN] /\ toC[c] # <<>>
    BY <1>5, <1>6, <1>8, {} \in SUBSET Files DEF TakePlan, HearsC
  <2> QED BY <1>1, <1>3, <1>8, <2>1
      DEF TakePlan, TypesUpTo, DiskTypes, EndTypes, WireTypes, Counts, disk
<1>9. CASE ClientStat(c)
  <2>1. Client(c, "stat") /\ local[CurrentOfClient(c)] \in Copies(n)
    BY <1>4, <1>9 DEF ClientStat, Client
  <2> DEFINE next == [cl[c] EXCEPT !.pc = "read", !.meta = local[CurrentOfClient(c)]]
  <2>2. cl' = [cl EXCEPT ![c] = next] /\ next \in Clients(n)
    BY <1>1, <1>9, <2>1 DEF ClientStat, Clients, ClientPcs
  <2> HIDE DEF next
  <2>3. cl' \in [Conns -> Clients(n)]
    BY <1>1, <2>2
  <2> QED BY <1>1, <1>9, <2>3
      DEF ClientStat, TypesUpTo, DiskTypes, EndTypes, WireTypes, Counts, disk, wire
<1>10. CASE ClientSends(c)
  <2>1. Client(c, "read") /\ local[CurrentOfClient(c)] \in Copies(n)
    BY <1>4, <1>10 DEF ClientSends, Client
  <2>2. toD' \in [Conns -> Seq(Frames(n))]
    BY <1>1, <1>2, <1>3, <1>10, <2>1 DEF ClientSends
  <2> DEFINE next == [cl[c] EXCEPT !.pc = "ack"]
  <2>3. cl' = [cl EXCEPT ![c] = next] /\ next \in Clients(n)
    BY <1>1, <1>10 DEF ClientSends, Clients, ClientPcs
  <2> HIDE DEF next
  <2>4. cl' \in [Conns -> Clients(n)]
    BY <1>1, <2>3
  <2> QED BY <1>1, <1>10, <2>2, <2>4
      DEF ClientSends, TypesUpTo, DiskTypes, EndTypes, WireTypes, Counts, disk
<1>11. CASE ClientAcked(c)
  <2>1. cl' \in [Conns -> Clients(n)] /\ cut' \in [Conns -> BOOLEAN] /\ toC[c] # <<>>
    BY <1>4, <1>6, <1>11 DEF ClientAcked, HearsC, Client
  <2> QED BY <1>1, <1>3, <1>11, <2>1
      DEF ClientAcked, TypesUpTo, DiskTypes, EndTypes, WireTypes, Counts, disk
<1>12. CASE ClientReceives(c)
  <2> DEFINE m == Head(toC[c])
             next == [cl[c] EXCEPT !.pc = "replace", !.data = m.data, !.meta = m.meta]
  <2>1. cl' = [cl EXCEPT ![c] = next] /\ next \in Clients(n) /\ toC[c] # <<>>
    BY <1>1, <1>5, <1>12 DEF ClientReceives, Clients, ClientPcs, HearsC
  <2> HIDE DEF next
  <2>2. cl' \in [Conns -> Clients(n)]
    BY <1>1, <2>1
  <2> QED BY <1>1, <1>3, <1>12, <2>1, <2>2
      DEF ClientReceives, TypesUpTo, DiskTypes, EndTypes, WireTypes, Counts, disk
<1>13. CASE ClientReplaces(c)
  <2>1. /\ CurrentOfClient(c) \in Files /\ n = clock + 1
        /\ local' = [local EXCEPT ![CurrentOfClient(c)] = [cl[c].data EXCEPT !.mtime = clock + 1]]
    BY <1>4, <1>13 DEF ClientReplaces, Client
  <2>2. local' \in Trees(n)
    BY <1>1, <2>1, TreeTyped, clock + 1 \in 0..n
  <2> DEFINE next == [cl[c] EXCEPT !.pc = "utime", !.tmp = FALSE]
  <2>3. cl' = [cl EXCEPT ![c] = next] /\ next \in Clients(n)
    BY <1>1, <1>13 DEF ClientReplaces, Clients, ClientPcs
  <2> HIDE DEF next
  <2>4. cl' \in [Conns -> Clients(n)] /\ collided' \subseteq Files
    BY <1>1, <1>13, <2>1, <2>3 DEF ClientReplaces
  <2> QED BY <1>1, <1>13, <2>2, <2>4
      DEF ClientReplaces, TypesUpTo, DiskTypes, EndTypes, WireTypes, Counts, wire
<1>14. CASE ClientUtime(c)
  <2>1. /\ CurrentOfClient(c) \in Files
        /\ local' = [local EXCEPT ![CurrentOfClient(c)].mtime = cl[c].meta.mtime]
    BY <1>4, <1>14 DEF ClientUtime, Client
  <2>2. cl[c].meta.mtime \in 0..n
    BY <1>1 DEF Copies
  <2>3. local' \in Trees(n)
    BY <1>1, <2>1, <2>2, TreeTyped
  <2>4. cl' \in [Conns -> Clients(n)] /\ cut' \in [Conns -> BOOLEAN]
    BY <1>4, <1>6, <1>14 DEF ClientUtime, Client
  <2>5. collided' \subseteq Files
    BY <1>1, <1>14, <2>1 DEF ClientUtime
  <2> QED BY <1>1, <1>2, <1>3, <1>14, <2>3, <2>4, <2>5
      DEF ClientUtime, TypesUpTo, DiskTypes, EndTypes, WireTypes, Counts
<1>15. CASE ClientGivesUp(c)
  <2> DEFINE next == [IdleClient EXCEPT !.dir = cl[c].dir, !.done = cl[c].done]
  <2>1. cl' = [cl EXCEPT ![c] = next] /\ next \in Clients(n)
    BY <1>1, <1>15, NothingTyped DEF ClientGivesUp, Clients
  <2> HIDE DEF next
  <2>2. cl' \in [Conns -> Clients(n)]
    BY <1>1, <2>1
  <2>3. toD \in [Conns -> Seq(Frames(n))] /\ toC \in [Conns -> Seq(Frames(n))]
    BY TypeParts
  <2>4. toD' \in [Conns -> Seq(Frames(n))] /\ toC' \in [Conns -> Seq(Frames(n))]
    BY <1>2, <1>3, <1>15, <2>3 DEF ClientGivesUp
  <2> QED BY <1>1, <1>3, <1>15, <2>2, <2>4
      DEF ClientGivesUp, TypesUpTo, DiskTypes, EndTypes, WireTypes, Counts, disk
<1> QED BY <1>7, <1>8, <1>9, <1>10, <1>11, <1>12, <1>13, <1>14, <1>15 DEF ClientStep, ClientFails

\* What the judgement calls the same has the times of the record.
LEMMA SkipsAreRecorded ==
    ASSUME NEW there, NEW rec, NEW here, NEW force, Classify(there, rec, here, force) = "skip"
    PROVE  rec.cli = here.mtime /\ rec.remote = there.mtime
<1>1. rec = RecordOf(here.size, here.mtime, there.mtime)
  BY DEF Classify
<1> QED BY <1>1 DEF RecordOf

\* What a judgement comes to: a plan and the files it skips, or a refusal.
Judgement(c, here, there, todo, same, refused) ==
    /\ todo \in SUBSET Files /\ same \in SUBSET Files /\ refused \in BOOLEAN
    /\ \A f \in same : record[f].cli = here[f].mtime /\ record[f].remote = there[f].mtime
    /\ SendC(c, IF refused THEN Abort ELSE Plan(todo))
    /\ dm' = [dm EXCEPT ![c] =
          [@ EXCEPT !.pc = IF refused \/ todo = {} THEN "done"
                           ELSE IF Uploads(c) THEN "receive" ELSE "stat",
                    !.todo = IF refused THEN {} ELSE todo,
                    !.old = IF todo = {} THEN 0 ELSE remote[First(todo)].id,
                    !.tmp = Uploads(c) /\ ~refused /\ todo # {},
                    !.skipped = {<<f, here[f].id, there[f].id>> : f \in same}]]
    /\ cut' = [cut EXCEPT ![c] = @ \/ refused \/ todo = {}]

LEMMA JudgeEffect ==
    ASSUME NEW c \in Conns, Judge(c)
    PROVE  \E todo, same, refused :
                Judgement(c, Head(toD[c]).entries, IF Uploads(c) THEN remote ELSE dm[c].seen,
                          todo, same, refused)
<1> DEFINE here == Head(toD[c]).entries
           there == IF Uploads(c) THEN remote ELSE dm[c].seen
           listed == {f \in Files : Exists(IF Uploads(c) THEN here[f] ELSE there[f])}
           verdict == [f \in listed |-> Classify(there[f], record[f], here[f], cl[c].force)]
           Verdicts(v) == {f \in listed : verdict[f] = v}
           todo == Verdicts("transfer")
           same == Verdicts("skip")
           refused == Verdicts("denied") # {}
<1>1. todo \in SUBSET Files /\ same \in SUBSET Files /\ refused \in BOOLEAN
  OBVIOUS
<1>2. \A f \in same : record[f].cli = here[f].mtime /\ record[f].remote = there[f].mtime
  <2> SUFFICES ASSUME NEW f \in same
               PROVE  record[f].cli = here[f].mtime /\ record[f].remote = there[f].mtime
    OBVIOUS
  <2>1. Classify(there[f], record[f], here[f], cl[c].force) = "skip"
    OBVIOUS
  <2> HIDE DEF here, there
  <2> QED BY <2>1, SkipsAreRecorded
<1>3. /\ SendC(c, IF refused THEN Abort ELSE Plan(todo))
      /\ dm' = [dm EXCEPT ![c] =
          [@ EXCEPT !.pc = IF refused \/ todo = {} THEN "done"
                           ELSE IF Uploads(c) THEN "receive" ELSE "stat",
                    !.todo = IF refused THEN {} ELSE todo,
                    !.old = IF todo = {} THEN 0 ELSE remote[First(todo)].id,
                    !.tmp = Uploads(c) /\ ~refused /\ todo # {},
                    !.skipped = {<<f, here[f].id, there[f].id>> : f \in same}]]
      /\ cut' = [cut EXCEPT ![c] = @ \/ refused \/ todo = {}]
  BY DEF Judge
<1> HIDE DEF todo, same, refused, here, there
<1>4. Judgement(c, here, there, todo, same, refused)
  BY <1>1, <1>2, <1>3 DEF Judgement
<1> QED BY <1>4 DEF here, there

LEMMA JudgeTypes ==
    ASSUME NEW n \in Nat, TypesUpTo(n), NEW c \in Conns, Judge(c), clock' = n
    PROVE  TypesUpTo(n)'
<1>1. /\ dm \in [Conns -> ServerThreads(n)] /\ cut \in [Conns -> BOOLEAN] /\ remote \in Trees(n)
      /\ dm[c] \in ServerThreads(n) /\ dm[c].seen \in Trees(n)
  BY TypeParts
<1> DEFINE here == Head(toD[c]).entries
           there == IF Uploads(c) THEN remote ELSE dm[c].seen
<1>2. here \in Trees(n) /\ there \in Trees(n) /\ toD[c] # <<>>
  BY <1>1, DataFrames DEF Judge, HearsD
<1>3. PICK todo, same, refused : Judgement(c, here, there, todo, same, refused)
  BY JudgeEffect
<1> HIDE DEF here, there
<1> DEFINE stage == IF refused \/ todo = {} THEN "done"
                 ELSE IF Uploads(c) THEN "receive" ELSE "stat"
           plan == IF refused THEN {} ELSE todo
           old == IF todo = {} THEN 0 ELSE remote[First(todo)].id
           tmp == Uploads(c) /\ ~refused /\ todo # {}
           skipped == {<<f, here[f].id, there[f].id>> : f \in same}
           next == [dm[c] EXCEPT !.pc = stage, !.todo = plan, !.old = old, !.tmp = tmp,
                                 !.skipped = skipped]
           end == cut[c] \/ refused \/ todo = {}
           m == IF refused THEN Abort ELSE Plan(todo)
<1>4. dm' = [dm EXCEPT ![c] = next] /\ cut' = [cut EXCEPT ![c] = end] /\ SendC(c, m)
  BY <1>3 DEF Judgement
<1>5. todo \in SUBSET Files /\ same \in SUBSET Files /\ refused \in BOOLEAN
  BY <1>3 DEF Judgement
<1>6. stage \in ThreadPcs /\ plan \in SUBSET Files /\ tmp \in BOOLEAN /\ end \in BOOLEAN
  BY <1>5 DEF ThreadPcs
<1>7. old \in 0..n
  BY <1>1, <1>5, FirstIsOne DEF Trees, Copies
<1>8. skipped \in SUBSET Skips(n)
  BY <1>2, <1>5 DEF Skips, Trees, Copies
<1>9. m \in Frames(n)
  BY <1>5, FramesMade
<1> HIDE DEF stage, plan, old, tmp, skipped, end, m
<1>10. next \in ServerThreads(n)
  BY <1>1, <1>6, <1>7, <1>8 DEF ServerThreads
<1> HIDE DEF next
<1>11. dm' \in [Conns -> ServerThreads(n)] /\ cut' \in [Conns -> BOOLEAN]
  BY <1>1, <1>4, <1>6, <1>10
<1>12. /\ toC' \in [Conns -> Seq(Frames(n))]
       /\ TakeD(c) => toD' \in [Conns -> Seq(Frames(n))]
  BY <1>2, <1>4, <1>9, WireTyped DEF TypesUpTo
<1> QED BY <1>11, <1>12
        DEF Judge, TypesUpTo, DiskTypes, EndTypes, WireTypes, Counts, disk

LEMMA ThreadTypes ==
    ASSUME NEW n \in Nat, TypesUpTo(n), NEW c \in Conns, Busy(cl[c], dm[c]),
           clock \in Nat, clock' = n, clock <= n, n > 0, ThreadStep(c)
    PROVE  TypesUpTo(n)'
<1>1. /\ dm \in [Conns -> ServerThreads(n)] /\ remote \in Trees(n) /\ cut \in [Conns -> BOOLEAN]
      /\ record \in [Files -> Records(n)] /\ versions \in [Files -> SUBSET (1..n)]
      /\ dm[c] \in ServerThreads(n) /\ dm[c].todo \subseteq Files /\ dm[c].seen \in Trees(n)
      /\ dm[c].meta \in Copies(n) /\ dm[c].data \in Copies(n) /\ dm[c].old \in 0..n
      /\ dm[c].landed \subseteq Landings(n) /\ dm[c].tmp \in BOOLEAN
      /\ collided \subseteq Files /\ clock + 1 \in Nat
      /\ toD \in [Conns -> Seq(Frames(n))]
  BY TypeParts DEF ServerThreads
<1>2. /\ \A e \in Trees(n) : Manifest(e) \in Frames(n)
      /\ \A x, meta \in Copies(n) : FileFrames(x, meta) \in Frames(n)
      /\ \A ok \in BOOLEAN : Ack(ok) \in Frames(n)
      /\ Absent \in Copies(n)
  BY FramesMade, NothingTyped
<1>3. /\ \A m \in Frames(n) : SendC(c, m) => toC' \in [Conns -> Seq(Frames(n))]
      /\ TakeD(c) /\ toD[c] # <<>> => toD' \in [Conns -> Seq(Frames(n))]
      /\ HangUp(c) => cut' \in [Conns -> BOOLEAN]
      /\ <<>> \in Seq(Frames(n))
  BY <1>2, WireTyped, QueueTypes DEF TypesUpTo
<1>4. dm[c].pc \in {"receive", "replace", "utime", "history", "record",
                    "stat", "read", "ack", "restat"} =>
        /\ CurrentOfThread(c) \in Files /\ remote[CurrentOfThread(c)] \in Copies(n)
        /\ dm[c].todo # {}
  BY <1>1, FirstIsOne DEF Busy, CurrentOfThread, Trees
<1>5. HearsD(c, "file") => /\ Head(toD[c]).data \in Copies(n) /\ Head(toD[c]).meta \in Copies(n)
                           /\ toD[c] # <<>>
  BY DataFrames DEF HearsD
<1>6. ASSUME NEW landed \in SUBSET Landings(n), dm[c].todo # {}, ThreadGoesOn(c, landed)
      PROVE  dm' \in [Conns -> ServerThreads(n)] /\ cut' \in [Conns -> BOOLEAN]
  BY <1>6, GoesOnTyped, {} \in SUBSET Files
<1>7. ASSUME NEW next \in ServerThreads(n), dm' = [dm EXCEPT ![c] = next]
      PROVE  dm' \in [Conns -> ServerThreads(n)]
  BY <1>1, <1>7
<1>8. CASE Scan(c)
  <2> DEFINE next == [dm[c] EXCEPT !.pc = "manifest", !.seen = remote]
  <2>1. dm' = [dm EXCEPT ![c] = next] /\ next \in ServerThreads(n)
    BY <1>1, <1>8 DEF Scan, ServerThreads, ThreadPcs
  <2> HIDE DEF next
  <2>2. dm' \in [Conns -> ServerThreads(n)]
    BY <1>7, <2>1
  <2> QED BY <1>1, <1>2, <1>3, <1>8, <2>2
      DEF Scan, TypesUpTo, DiskTypes, EndTypes, WireTypes, Counts, disk
<1>9. CASE ThreadReceives(c)
  <2> DEFINE m == Head(toD[c])
             next == [dm[c] EXCEPT !.pc = "replace", !.data = m.data, !.meta = m.meta]
  <2>1. dm' = [dm EXCEPT ![c] = next] /\ next \in ServerThreads(n) /\ toD[c] # <<>>
    BY <1>1, <1>5, <1>9 DEF ThreadReceives, ServerThreads, ThreadPcs
  <2> HIDE DEF next
  <2>2. dm' \in [Conns -> ServerThreads(n)]
    BY <1>7, <2>1
  <2> QED BY <1>1, <1>3, <1>9, <2>1, <2>2
      DEF ThreadReceives, TypesUpTo, DiskTypes, EndTypes, WireTypes, Counts, disk
<1>10. CASE ThreadReplaces(c)
  <2> DEFINE f == CurrentOfThread(c)
             l == [file |-> f, over |-> remote[f].id, old |-> dm[c].old, new |-> dm[c].data.id]
             next == [dm[c] EXCEPT !.pc = "utime", !.tmp = FALSE, !.landed = @ \cup {l}]
  <2>1. /\ f \in Files /\ n = clock + 1 /\ remote[f] \in Copies(n)
        /\ remote' = [remote EXCEPT ![f] = [dm[c].data EXCEPT !.mtime = clock + 1]]
        /\ dm' = [dm EXCEPT ![c] = next]
    BY <1>4, <1>10 DEF ThreadReplaces, Thread
  <2>2. remote' \in Trees(n)
    <3> HIDE DEF f
    <3> QED BY <1>1, <2>1, TreeTyped, clock + 1 \in 0..n
  <2>3. l \in Landings(n)
    <3> HIDE DEF f
    <3> QED BY <1>1, <2>1 DEF Landings, Copies
  <2> HIDE DEF l
  <2>4. next \in ServerThreads(n)
    BY <1>1, <2>3 DEF ServerThreads, ThreadPcs
  <2> HIDE DEF next
  <2>5. dm' \in [Conns -> ServerThreads(n)] /\ collided' \subseteq Files
    BY <1>1, <1>7, <1>10, <2>1, <2>4 DEF ThreadReplaces
  <2> QED BY <1>1, <1>10, <2>2, <2>5
      DEF ThreadReplaces, TypesUpTo, DiskTypes, EndTypes, WireTypes, Counts, wire
<1>11. CASE ThreadUtime(c)
  <2> DEFINE f == CurrentOfThread(c)
             next == [dm[c] EXCEPT !.pc = "history"]
  <2>1. /\ f \in Files /\ remote' = [remote EXCEPT ![f].mtime = dm[c].meta.mtime]
        /\ dm' = [dm EXCEPT ![c] = next]
    BY <1>4, <1>11 DEF ThreadUtime, Thread
  <2>2. dm[c].meta.mtime \in 0..n
    BY <1>1 DEF Copies
  <2>3. remote' \in Trees(n)
    <3> HIDE DEF f
    <3> QED BY <1>1, <2>1, <2>2, TreeTyped
  <2>4. next \in ServerThreads(n)
    BY <1>1 DEF ServerThreads, ThreadPcs
  <2> HIDE DEF next
  <2>5. dm' \in [Conns -> ServerThreads(n)] /\ collided' \subseteq Files
    BY <1>1, <1>7, <1>11, <2>1, <2>4 DEF ThreadUtime
  <2> QED BY <1>1, <1>11, <2>3, <2>5
      DEF ThreadUtime, TypesUpTo, DiskTypes, EndTypes, WireTypes, Counts, wire
<1>12. CASE History(c)
  <2> DEFINE f == CurrentOfThread(c)
             next == [dm[c] EXCEPT !.pc = "record"]
             more == IF Exists(remote[f]) THEN versions[f] \cup ({dm[c].old, remote[f].id} \ {0})
                     ELSE versions[f]
  <2>1. f \in Files /\ remote[f] \in Copies(n)
    BY <1>4, <1>12 DEF History, Thread
  <2>2. versions' = [versions EXCEPT ![f] = more] /\ dm' = [dm EXCEPT ![c] = next]
    BY <1>12 DEF History
  <2>3. next \in ServerThreads(n)
    BY <1>1 DEF ServerThreads, ThreadPcs
  <2> HIDE DEF next, f
  <2>4. {dm[c].old, remote[f].id} \ {0} \subseteq 1..n
    BY <1>1, <2>1 DEF Copies
  <2>5. more \in SUBSET (1..n)
    BY <1>1, <2>1, <2>4
  <2> HIDE DEF more
  <2>6. versions' \in [Files -> SUBSET (1..n)]
    BY <1>1, <2>1, <2>2, <2>5
  <2>7. dm' \in [Conns -> ServerThreads(n)]
    BY <1>7, <2>2, <2>3
  <2> QED BY <1>1, <1>12, <2>6, <2>7
      DEF History, TypesUpTo, DiskTypes, EndTypes, WireTypes, Counts, wire
<1>13. CASE Record(c)
  <2> DEFINE f == CurrentOfThread(c)
             rec == RecordOf(dm[c].meta.size, dm[c].meta.mtime, remote[f].mtime)
  <2>1. f \in Files /\ remote[f] \in Copies(n) /\ dm[c].todo # {}
    BY <1>4, <1>13 DEF Record, Thread
  <2>2. /\ record' = [record EXCEPT ![f] = rec] /\ SendC(c, Ack(TRUE))
        /\ ThreadGoesOn(c, dm[c].landed)
    BY <1>13 DEF Record
  <2> HIDE DEF f
  <2>3. rec \in Records(n)
    BY <1>1, <2>1 DEF Records, RecordOf, Copies
  <2> HIDE DEF rec
  <2>4. record' \in [Files -> Records(n)]
    BY <1>1, <2>1, <2>2, <2>3
  <2>5. dm' \in [Conns -> ServerThreads(n)] /\ cut' \in [Conns -> BOOLEAN]
    BY <1>1, <1>6, <2>1, <2>2
  <2>6. toC' \in [Conns -> Seq(Frames(n))]
    BY <1>2, <1>3, <2>2
  <2> QED BY <1>1, <1>13, <2>4, <2>5, <2>6
      DEF Record, TypesUpTo, DiskTypes, EndTypes, WireTypes, Counts
<1>14. CASE ThreadRefuses(c)
  <2> DEFINE tmp == dm[c].tmp /\ Thread(c, "replace")
             next == [dm[c] EXCEPT !.pc = "failed", !.tmp = tmp]
  <2>1. dm' = [dm EXCEPT ![c] = next]
    BY <1>14 DEF ThreadRefuses
  <2>2. tmp \in BOOLEAN
    OBVIOUS
  <2> HIDE DEF tmp
  <2>3. next \in ServerThreads(n)
    BY <1>1, <2>2 DEF ServerThreads, ThreadPcs
  <2> HIDE DEF next
  <2>4. dm' \in [Conns -> ServerThreads(n)]
    BY <1>7, <2>1, <2>3
  <2> QED BY <1>1, <1>2, <1>3, <1>14, <2>4
      DEF ThreadRefuses, TypesUpTo, DiskTypes, EndTypes, WireTypes, Counts, disk
<1>15. CASE ThreadStat(c)
  <2> DEFINE next == [dm[c] EXCEPT !.pc = "read", !.meta = remote[CurrentOfThread(c)]]
  <2>1. dm' = [dm EXCEPT ![c] = next] /\ remote[CurrentOfThread(c)] \in Copies(n)
    BY <1>4, <1>15 DEF ThreadStat, Thread
  <2>2. next \in ServerThreads(n)
    BY <1>1, <2>1 DEF ServerThreads, ThreadPcs
  <2> HIDE DEF next
  <2>3. dm' \in [Conns -> ServerThreads(n)]
    BY <1>7, <2>1, <2>2
  <2> QED BY <1>1, <1>15, <2>3
      DEF ThreadStat, TypesUpTo, DiskTypes, EndTypes, WireTypes, Counts, disk, wire
<1>16. CASE ThreadSends(c)
  <2> DEFINE next == [dm[c] EXCEPT !.pc = "ack"]
  <2>1. dm' = [dm EXCEPT ![c] = next] /\ remote[CurrentOfThread(c)] \in Copies(n)
    BY <1>4, <1>16 DEF ThreadSends, Thread
  <2>2. next \in ServerThreads(n)
    BY <1>1 DEF ServerThreads, ThreadPcs
  <2> HIDE DEF next
  <2>3. dm' \in [Conns -> ServerThreads(n)]
    BY <1>7, <2>1, <2>2
  <2>4. toC' \in [Conns -> Seq(Frames(n))]
    BY <1>1, <1>2, <1>3, <1>16, <2>1 DEF ThreadSends
  <2> QED BY <1>1, <1>16, <2>3, <2>4
      DEF ThreadSends, TypesUpTo, DiskTypes, EndTypes, WireTypes, Counts, disk
<1>17. CASE ThreadAcked(c)
  <2> DEFINE next == [dm[c] EXCEPT !.pc = "restat"]
  <2>1. dm' = [dm EXCEPT ![c] = next] /\ next \in ServerThreads(n) /\ toD[c] # <<>>
    BY <1>1, <1>17 DEF ThreadAcked, ServerThreads, ThreadPcs, HearsD
  <2> HIDE DEF next
  <2>2. dm' \in [Conns -> ServerThreads(n)]
    BY <1>7, <2>1
  <2> QED BY <1>1, <1>3, <1>17, <2>1, <2>2
      DEF ThreadAcked, TypesUpTo, DiskTypes, EndTypes, WireTypes, Counts, disk
<1>18. CASE Restat(c)
  <2> DEFINE f == CurrentOfThread(c)
             rec == RecordOf(remote[f].size, remote[f].mtime, remote[f].mtime)
             l == [file |-> f, over |-> 0, old |-> 0, new |-> 0]
  <2>1. f \in Files /\ remote[f] \in Copies(n) /\ dm[c].todo # {}
    BY <1>4, <1>18 DEF Restat, Thread
  <2>2. /\ record' = [record EXCEPT ![f] = rec]
        /\ ThreadGoesOn(c, dm[c].landed \cup {l})
    BY <1>18 DEF Restat
  <2> HIDE DEF f
  <2>3. rec \in Records(n) /\ l \in Landings(n)
    BY <1>1, <2>1 DEF Records, RecordOf, Copies, Landings
  <2> HIDE DEF rec, l
  <2>4. record' \in [Files -> Records(n)]
    BY <1>1, <2>1, <2>2, <2>3
  <2>5. dm[c].landed \cup {l} \in SUBSET Landings(n)
    BY <1>1, <2>3
  <2>6. dm' \in [Conns -> ServerThreads(n)] /\ cut' \in [Conns -> BOOLEAN]
    BY <1>6, <2>1, <2>2, <2>5
  <2> QED BY <1>1, <1>18, <2>4, <2>6
      DEF Restat, TypesUpTo, DiskTypes, EndTypes, WireTypes, Counts
<1>19. CASE ThreadQuits(c)
  <2>1. Ended(dm[c]) \in ServerThreads(n)
    BY <1>1, NothingTyped DEF Ended, ServerThreads
  <2>2. dm' \in [Conns -> ServerThreads(n)]
    BY <1>7, <1>19, <2>1 DEF ThreadQuits
  <2>3. toD' \in [Conns -> Seq(Frames(n))]
    BY <1>1, <1>3, <1>19 DEF ThreadQuits
  <2> QED BY <1>1, <1>3, <1>19, <2>2, <2>3
      DEF ThreadQuits, TypesUpTo, DiskTypes, EndTypes, WireTypes, Counts, disk
<1> QED BY <1>8, <1>9, <1>10, <1>11, <1>12, <1>13, <1>14, <1>15, <1>16, <1>17, <1>18, <1>19,
           JudgeTypes DEF ThreadStep

\* A client that gives up, for whatever reason.
LEMMA GivesUpTypes ==
    ASSUME NEW n \in Nat, TypesUpTo(n), NEW c \in Conns, clock' = n, ClientGivesUp(c)
    PROVE  TypesUpTo(n)'
<1>1. /\ cl \in [Conns -> Clients(n)] /\ cl[c] \in Clients(n)
      /\ toD \in [Conns -> Seq(Frames(n))] /\ toC \in [Conns -> Seq(Frames(n))]
  BY TypeParts
<1>2. Abort \in Frames(n) /\ <<>> \in Seq(Frames(n))
  BY FramesMade, QueueTypes
<1> DEFINE next == [IdleClient EXCEPT !.dir = cl[c].dir, !.done = cl[c].done]
<1>3. cl' = [cl EXCEPT ![c] = next] /\ next \in Clients(n)
  BY <1>1, NothingTyped DEF ClientGivesUp, Clients
<1> HIDE DEF next
<1>4. cl' \in [Conns -> Clients(n)]
  BY <1>1, <1>3
<1>5. toD' \in [Conns -> Seq(Frames(n))] /\ cut' \in [Conns -> BOOLEAN]
  BY <1>1, <1>2, WireTyped DEF ClientGivesUp, TypesUpTo
<1>6. toC' \in [Conns -> Seq(Frames(n))]
  BY <1>1, <1>2 DEF ClientGivesUp
<1> QED BY <1>4, <1>5, <1>6
        DEF ClientGivesUp, TypesUpTo, DiskTypes, EndTypes, WireTypes, Counts, disk

LEMMA StartTypes ==
    ASSUME NEW n \in Nat, TypesUpTo(n), NEW c \in Conns, clock' = n,
           NEW dir \in {"upload", "download"}, NEW force \in BOOLEAN, Start(c, dir, force)
    PROVE  TypesUpTo(n)'
<1>1. /\ cl \in [Conns -> Clients(n)] /\ dm \in [Conns -> ServerThreads(n)]
      /\ toD \in [Conns -> Seq(Frames(n))] /\ toC \in [Conns -> Seq(Frames(n))]
      /\ cut \in [Conns -> BOOLEAN] /\ local \in Trees(n)
      /\ used \in [transfers : Nat, edits : Nat, crashes : Nat]
  BY TypeParts
<1>2. Manifest(local) \in Frames(n)
  BY <1>1, FramesMade
<1> DEFINE client == [IdleClient EXCEPT !.pc = IF dir = "upload" THEN "plan" ELSE "manifest",
                                        !.dir = dir, !.force = force]
           thread == [IdleThread EXCEPT !.pc = IF dir = "upload" THEN "manifest" ELSE "scan"]
           frames == IF dir = "upload" THEN <<Manifest(local)>> ELSE <<>>
<1>3. cl' = [cl EXCEPT ![c] = client] /\ dm' = [dm EXCEPT ![c] = thread]
      /\ toD' = [toD EXCEPT ![c] = frames] /\ toC' = [toC EXCEPT ![c] = <<>>]
      /\ cut' = [cut EXCEPT ![c] = FALSE] /\ used' = [used EXCEPT !.transfers = @ + 1]
  BY DEF Start
<1>4. client \in Clients(n)
  BY NothingTyped DEF Clients, ClientPcs
<1>5. thread \in ServerThreads(n)
  BY NothingTyped DEF ServerThreads, ThreadPcs
<1>6. frames \in Seq(Frames(n)) /\ <<>> \in Seq(Frames(n))
  BY <1>2, QueueTypes
<1> HIDE DEF client, thread, frames
<1>7. cl' \in [Conns -> Clients(n)] /\ dm' \in [Conns -> ServerThreads(n)]
  BY <1>1, <1>3, <1>4, <1>5
<1>8. /\ toD' \in [Conns -> Seq(Frames(n))] /\ toC' \in [Conns -> Seq(Frames(n))]
      /\ cut' \in [Conns -> BOOLEAN]
  BY <1>1, <1>3, <1>6
<1>9. used' \in [transfers : Nat, edits : Nat, crashes : Nat]
  <2>1. /\ used \in [transfers : Nat, edits : Nat, crashes : Nat]
        /\ used' = [used EXCEPT !.transfers = @ + 1]
    BY <1>1, <1>3
  <2> QED BY <2>1
<1>10. DiskTypes(n)' /\ collided' \subseteq Files
  BY TypeParts DEF Start, DiskTypes, disk
<1> QED BY <1>7, <1>8, <1>9, <1>10 DEF TypesUpTo, EndTypes, WireTypes, Counts

LEMMA SurroundingsTypes ==
    ASSUME NEW n \in Nat, TypesUpTo(n), clock \in Nat, clock <= n, clock' = n,
           \/ \E f \in Files, size \in Sizes \cup {0} : EditLocal(f, size) \/ EditRemote(f, size)
           \/ Crash
           \/ \E c \in Conns : Break(c)
    PROVE  TypesUpTo(n)'
<1>1. /\ local \in Trees(n) /\ remote \in Trees(n) /\ dm \in [Conns -> ServerThreads(n)]
      /\ toD \in [Conns -> Seq(Frames(n))] /\ toC \in [Conns -> Seq(Frames(n))]
      /\ cut \in [Conns -> BOOLEAN] /\ collided \subseteq Files
      /\ used \in [transfers : Nat, edits : Nat, crashes : Nat]
  BY DEF TypesUpTo, DiskTypes, EndTypes, WireTypes, Counts
<1>2. /\ [used EXCEPT !.edits = @ + 1] \in [transfers : Nat, edits : Nat, crashes : Nat]
      /\ [used EXCEPT !.crashes = @ + 1] \in [transfers : Nat, edits : Nat, crashes : Nat]
  <2>1. used \in [transfers : Nat, edits : Nat, crashes : Nat]
    BY <1>1
  <2> QED BY <2>1
<1>3. <<>> \in Seq(Frames(n))
  BY FramesMade, QueueTypes
<1>4. ASSUME NEW f \in Files, NEW size \in Sizes \cup {0}, EditLocal(f, size)
      PROVE  TypesUpTo(n)'
  <2>1. EditedFile(size) \in Copies(n)
    <3>1. n = clock + 1
      BY <1>4 DEF EditLocal
    <3> QED BY <3>1, NothingTyped DEF EditedFile, Copies
  <2>2. local' = [local EXCEPT ![f] = EditedFile(size)] /\ collided' \subseteq Files
    BY <1>1, <1>4 DEF EditLocal
  <2>3. local' \in Trees(n)
    BY <1>1, <2>1, <2>2 DEF Trees
  <2> QED BY <1>2, <1>4, <2>2, <2>3
      DEF EditLocal, TypesUpTo, DiskTypes, EndTypes, WireTypes, Counts, wire
<1>5. ASSUME NEW f \in Files, NEW size \in Sizes \cup {0}, EditRemote(f, size)
      PROVE  TypesUpTo(n)'
  <2>1. EditedFile(size) \in Copies(n)
    <3>1. n = clock + 1
      BY <1>5 DEF EditRemote
    <3> QED BY <3>1, NothingTyped DEF EditedFile, Copies
  <2>2. remote' = [remote EXCEPT ![f] = EditedFile(size)] /\ collided' \subseteq Files
    BY <1>1, <1>5 DEF EditRemote
  <2>3. remote' \in Trees(n)
    BY <1>1, <2>1, <2>2 DEF Trees
  <2> QED BY <1>2, <1>5, <2>2, <2>3
      DEF EditRemote, TypesUpTo, DiskTypes, EndTypes, WireTypes, Counts, wire
<1>6. CASE Crash
  <2>1. dm' \in [Conns -> ServerThreads(n)]
    <3>1. \A c \in Conns : Ended(dm[c]) \in ServerThreads(n)
      BY <1>1, NothingTyped DEF Ended, ServerThreads
    <3> QED BY <1>6, <3>1 DEF Crash
  <2>2. toD' \in [Conns -> Seq(Frames(n))] /\ cut' \in [Conns -> BOOLEAN]
    BY <1>1, <1>3, <1>6 DEF Crash
  <2> QED BY <1>2, <1>6, <2>1, <2>2
      DEF Crash, TypesUpTo, DiskTypes, EndTypes, WireTypes, Counts, disk
<1>7. ASSUME NEW c \in Conns, Break(c)
      PROVE  TypesUpTo(n)'
  <2>1. /\ toD' \in [Conns -> Seq(Frames(n))] /\ toC' \in [Conns -> Seq(Frames(n))]
        /\ cut' \in [Conns -> BOOLEAN]
    BY <1>1, <1>3, <1>7 DEF Break, HangUp
  <2> QED BY <1>7, <2>1
      DEF Break, TypesUpTo, DiskTypes, EndTypes, WireTypes, Counts, disk
<1> QED BY <1>4, <1>5, <1>6, <1>7

LEMMA StepKeepsTypes ==
    ASSUME Types, \A c \in Conns : Busy(cl[c], dm[c]), [TransferNext]_transferVars
    PROVE  Types'
<1>1. CASE UNCHANGED transferVars
  BY <1>1 DEF Types, TypesUpTo, DiskTypes, EndTypes, WireTypes, Counts,
              transferVars, disk, wire
<1>2. CASE TransferNext
  <2>1. PICK n \in Nat : clock' = n /\ clock \in Nat /\ clock <= n /\ n > 0
    <3> DEFINE Ticks == clock' = clock \/ clock' = clock + 1
    <3>1. ASSUME NEW c \in Conns, ClientStep(c) \/ ClientTimesOut(c) PROVE Ticks
      BY <3>1 DEF ClientStep, AnswerManifest, TakePlan, ClientStat, ClientSends, ClientAcked,
         ClientReceives, ClientReplaces, ClientUtime, ClientFails, ClientGivesUp,
         ClientTimesOut, disk
    <3>2. ASSUME NEW c \in Conns, ThreadStep(c) PROVE Ticks
      BY <3>2 DEF ThreadStep, Scan, Judge, ThreadReceives, ThreadReplaces, ThreadUtime, History,
         Record, ThreadRefuses, ThreadStat, ThreadSends, ThreadAcked, Restat, ThreadQuits, disk
    <3>3. ASSUME \/ \E c \in Conns : Break(c)
                 \/ \E c \in Conns, dir \in {"upload", "download"}, force \in BOOLEAN :
                        Start(c, dir, force)
                 \/ \E f \in Files, size \in Sizes \cup {0} :
                        EditLocal(f, size) \/ EditRemote(f, size)
                 \/ Crash
          PROVE  Ticks
      BY <3>3 DEF Break, Start, EditLocal, EditRemote, Crash, disk
    <3>4. Ticks
      BY <1>2, <3>1, <3>2, <3>3 DEF TransferNext
    <3> QED BY <3>4 DEF Types
  <2>2. TypesUpTo(clock) /\ clock > 0
    BY DEF Types
  <2>3. TypesUpTo(n)
    BY <2>1, <2>2, TypesUpToGrow
  <2>4. TypesUpTo(n)'
    <3> USE <2>1, <2>3
    <3>1. ASSUME NEW c \in Conns, ClientStep(c) PROVE TypesUpTo(n)'
      BY <3>1, ClientTypes
    <3>2. ASSUME NEW c \in Conns, ThreadStep(c) PROVE TypesUpTo(n)'
      BY <3>2, ThreadTypes
    <3>3. ASSUME NEW c \in Conns, ClientTimesOut(c) PROVE TypesUpTo(n)'
      BY <3>3, GivesUpTypes DEF ClientTimesOut
    <3>4. ASSUME NEW c \in Conns, NEW dir \in {"upload", "download"}, NEW force \in BOOLEAN,
                 Start(c, dir, force)
          PROVE  TypesUpTo(n)'
      BY <3>4, StartTypes
    <3>5. CASE \/ \E f \in Files, size \in Sizes \cup {0} :
                        EditLocal(f, size) \/ EditRemote(f, size)
               \/ Crash
               \/ \E c \in Conns : Break(c)
      BY <3>5, SurroundingsTypes
    <3> QED BY <1>2, <3>1, <3>2, <3>3, <3>4, <3>5 DEF TransferNext
  <2> QED BY <2>1, <2>4 DEF Types
<1> QED BY <1>1, <1>2

LEMMA InitTypes == TransferInit => Types
<1> SUFFICES ASSUME TransferInit PROVE Types
  OBVIOUS
<1>1. clock = 1
  BY DEF TransferInit
<1>2. (CHOOSE s \in Sizes : TRUE) \in Sizes
  BY TransferAssumption
<1>3. local \in Trees(1) /\ remote \in Trees(1)
  BY <1>2, NothingTyped DEF TransferInit, Trees, Copies
<1>4. record \in [Files -> Records(1)] /\ versions \in [Files -> SUBSET (1..1)]
  BY NothingTyped DEF TransferInit
<1>5. cl \in [Conns -> Clients(1)] /\ dm \in [Conns -> ServerThreads(1)]
  BY NothingTyped DEF TransferInit
<1>6. /\ toD \in [Conns -> Seq(Frames(1))] /\ toC \in [Conns -> Seq(Frames(1))]
      /\ cut \in [Conns -> BOOLEAN]
  BY DEF TransferInit
<1>7. used \in [transfers : Nat, edits : Nat, crashes : Nat] /\ collided \subseteq Files
  BY DEF TransferInit
<1> QED BY <1>1, <1>3, <1>4, <1>5, <1>6, <1>7
        DEF Types, TypesUpTo, DiskTypes, EndTypes, WireTypes, Counts
-----------------------------------------------------------------------------
(***************************************************************************)
(* The two ends of a connection in step.  client and thread are the ends,  *)
(* up and down what is under way to the daemon and to the client, and gone *)
(* says that the connection is cut.                                        *)
(***************************************************************************)
Names(thread) == {l.file : l \in thread.landed}
FileFirst(q) == \E m : m.type = "file" /\ (q = <<m>> \/ q = <<m, Abort>>)
FileLast(q) == \E m : m.type = "file" /\ (q = <<m>> \/ \E t : q = <<Plan(t), m>>)
AckFirst(q) == q = <<Ack(TRUE)>> \/ q = <<Ack(TRUE), Abort>>

\* Before the plan nothing is done, and who has ended has cut the connection.
Framed(client, thread, down, gone) ==
    /\ thread.pc = "done" => gone \/ client.pc = "done"
    /\ client.pc = "done" => (gone \/ thread.pc = "done") /\ down = <<>>
    /\ client.pc \in {"manifest", "plan"} \/ thread.pc \in {"scan", "manifest"} =>
            client.done = {} /\ thread.landed = {}
    /\ thread.pc \in {"scan", "manifest"} => client.pc \in {"manifest", "plan", "done"}

\* What can be under way in an upload, and where the two ends can be then.
UploadWire(client, thread, up, down, gone) ==
    /\ client.pc \in {"plan", "stat", "read", "ack", "done"}
    /\ thread.pc \in {"manifest", "receive", "replace", "utime", "history", "record", "failed",
                      "done"}
    /\ \/ down = <<>>
       \/ /\ client.pc = "plan" /\ thread.pc # "manifest"
          /\ down = <<Abort>> \/ \E t \in SUBSET Files : down = <<Plan(t)>>
       \/ client.pc = "ack" /\ \E ok \in BOOLEAN : down = <<Ack(ok)>>
    /\ \/ up = <<>>
       \/ /\ thread.pc = "manifest" /\ client.pc \in {"plan", "done"}
          /\ \E e : up = <<Manifest(e)>>
       \/ /\ client.pc = "ack" /\ thread.pc \in {"receive", "failed"}
          /\ \E m : m.type = "file" /\ up = <<m>>
       \/ client.pc = "done" /\ gone /\ thread.pc # "manifest" /\ up = <<Abort>>
       \/ client.pc = "done" /\ gone /\ thread.pc \in {"receive", "failed"} /\ FileFirst(up)

\* While the connection is there, both work on the same file of the same plan.
UploadAgree(client, thread, up, down) ==
    /\ client.pc = "plan" =>
            \/ down = <<>> /\ thread.pc = "manifest"
            \/ thread.pc = "receive" /\ down = <<Plan(thread.todo)>>
    /\ client.pc \in {"stat", "read"} => thread.pc = "receive" /\ thread.todo = client.todo
    /\ client.pc = "ack" =>
            \/ /\ down = <<>> /\ thread.todo = client.todo
               /\ thread.pc \in {"receive", "replace", "utime", "history", "record"}
            \/ /\ down = <<Ack(TRUE)>> /\ thread.pc = "receive"
               /\ thread.todo = Rest(client.todo)
            \/ down = <<Ack(FALSE)>> /\ thread.pc = "failed"

\* How far one end can be ahead of the other.
UploadLevel(client, thread, up, down) ==
    /\ client.pc \in {"plan", "stat", "read"} =>
            /\ Names(thread) = client.done
            /\ thread.pc \in {"manifest", "receive", "failed", "done"}
    /\ client.pc \in {"stat", "read"} => up = <<>> /\ down = <<>>
    /\ thread.pc = "replace" \/ FileFirst(up) => Names(thread) = client.done
    /\ thread.pc \in {"utime", "history", "record"} =>
            Names(thread) = client.done \cup {First(thread.todo)}
    /\ down = <<Ack(TRUE)>> =>
            /\ Names(thread) = client.done \cup {First(client.todo)}
            /\ thread.pc \in {"receive", "failed", "done"} /\ ~FileFirst(up)
    /\ client.done \subseteq Names(thread)
    /\ \E f : Names(thread) \subseteq client.done \cup {f}

DownloadWire(client, thread, up, down, gone) ==
    /\ client.pc \in {"manifest", "plan", "receive", "replace", "utime", "done"}
    /\ thread.pc \in {"scan", "manifest", "stat", "read", "ack", "restat", "done"}
    /\ \/ down = <<>>
       \/ /\ client.pc = "manifest" /\ thread.pc \in {"manifest", "done"}
          /\ \E e : down = <<Manifest(e)>>
       \/ /\ client.pc = "plan" /\ thread.pc \notin {"scan", "manifest"}
          /\ down = <<Abort>> \/ \E t \in SUBSET Files : down = <<Plan(t)>>
       \/ /\ client.pc = "plan" /\ thread.pc \in {"ack", "done"}
          /\ \E t \in SUBSET Files : \E m : t # {} /\ m.type = "file" /\ down = <<Plan(t), m>>
       \/ /\ client.pc = "receive" /\ thread.pc \in {"ack", "done"}
          /\ \E m : m.type = "file" /\ down = <<m>>
    /\ \/ up = <<>>
       \/ /\ thread.pc = "manifest" /\ client.pc \in {"plan", "done"}
          /\ \E e : up = <<Manifest(e)>>
       \/ thread.pc = "ack" /\ client.pc \in {"receive", "done"} /\ up = <<Ack(TRUE)>>
       \/ /\ client.pc = "done" /\ gone /\ thread.pc \notin {"scan", "manifest"}
          /\ up = <<Abort>> \/ (up = <<Ack(TRUE), Abort>> /\ thread.pc = "ack")

DownloadAgree(client, thread, up, down) ==
    /\ client.pc = "manifest" =>
            \/ down = <<>> /\ thread.pc = "scan"
            \/ thread.pc = "manifest" /\ \E e : down = <<Manifest(e)>>
    /\ client.pc = "plan" =>
            \/ down = <<>> /\ thread.pc = "manifest"
            \/ down = <<Plan(thread.todo)>> /\ thread.pc \in {"stat", "read"} /\ up = <<>>
            \/ /\ thread.pc = "ack" /\ up = <<>>
               /\ \E m : m.type = "file" /\ down = <<Plan(thread.todo), m>>
    /\ client.pc \in {"replace", "utime"} =>
            thread.pc = "ack" /\ up = <<>> /\ thread.todo = client.todo
    /\ client.pc = "receive" =>
            \/ /\ thread.todo = client.todo /\ up = <<>>
               /\ \/ down # <<>> /\ thread.pc = "ack"
                  \/ down = <<>> /\ thread.pc \in {"stat", "read"}
            \/ /\ Rest(thread.todo) = client.todo /\ down = <<>>
               /\ \/ thread.pc = "ack" /\ up = <<Ack(TRUE)>>
                  \/ thread.pc = "restat" /\ up = <<>>

DownloadLevel(client, thread, up, down) ==
    /\ client.pc \in {"replace", "utime"} \/ FileLast(down) =>
            /\ Names(thread) = client.done
            /\ thread.pc \in {"ack", "done"} /\ ~AckFirst(up)
    /\ client.pc \in {"replace", "utime"} => down = <<>>
    /\ thread.pc \in {"stat", "read"} => Names(thread) = client.done /\ ~AckFirst(up)
    /\ thread.pc = "restat" \/ (thread.pc = "ack" /\ AckFirst(up)) =>
            client.done = Names(thread) \cup {First(thread.todo)}
    /\ thread.pc = "restat" => ~AckFirst(up) /\ ~FileLast(down)
    /\ Names(thread) \subseteq client.done
    /\ \E f : client.done \subseteq Names(thread) \cup {f}

InStep(client, thread, up, down, gone) ==
    /\ Busy(client, thread)
    /\ Framed(client, thread, down, gone)
    /\ client.dir = "upload" =>
            /\ UploadWire(client, thread, up, down, gone)
            /\ ~gone => UploadAgree(client, thread, up, down)
            /\ UploadLevel(client, thread, up, down)
    /\ client.dir = "download" =>
            /\ DownloadWire(client, thread, up, down, gone)
            /\ ~gone => DownloadAgree(client, thread, up, down)
            /\ DownloadLevel(client, thread, up, down)

Lockstep == \A c \in Conns : InStep(cl[c], dm[c], toD[c], toC[c], cut[c])

\* The frames are what they are called, and queues with different contents differ.
LEMMA FramesDiffer ==
    /\ \A e, t, ok : /\ Manifest(e) # Plan(t) /\ Manifest(e) # Ack(ok) /\ Manifest(e) # Abort
                     /\ Plan(t) # Ack(ok) /\ Plan(t) # Abort /\ Ack(ok) # Abort
    /\ Ack(TRUE) # Ack(FALSE)
    /\ \A t, u : Plan(t) = Plan(u) => t = u
    /\ \A m : m.type = "file" => /\ \A e : m # Manifest(e)
                                 /\ \A t : m # Plan(t)
                                 /\ \A ok : m # Ack(ok)
                                 /\ m # Abort
BY DEF Manifest, Plan, Ack, Abort

LEMMA QueuesDiffer ==
    /\ \A x, y : <<x>> = <<y>> => x = y
    /\ \A x : <<x>> # <<>>
    /\ \A x, y : <<x, y>> # <<>>
    /\ \A x, y, z : <<x>> # <<y, z>>
    /\ \A w, x, y, z : <<w, x>> = <<y, z>> => w = y /\ x = z
BY ShortQueues, ShortQueuesDiffer, ShortQueuesDiffer2

LEMMA NotFileFirst == ~FileFirst(<<>>) /\ ~FileFirst(<<Abort>>)
<1>1. \A m : <<>> # <<m>> /\ <<>> # <<m, Abort>> /\ <<Abort>> # <<m, Abort>>
  BY QueuesDiffer
<1>2. \A m : m.type = "file" => m # Abort
  BY FramesDiffer
<1>3. \A m : m.type = "file" => <<Abort>> # <<m>>
  BY <1>2, QueuesDiffer
<1>4. ~FileFirst(<<>>)
  BY <1>1, Zenon DEF FileFirst
<1>5. ~FileFirst(<<Abort>>)
  BY <1>1, <1>3, Zenon DEF FileFirst
<1> QED BY <1>4, <1>5

\* A client that goes on with its plan.
GoesOn(client, next, todo, done) ==
    /\ next.dir = client.dir /\ next.todo = todo /\ next.done = done
    /\ next.pc = IF todo = {} THEN "done" ELSE IF client.dir = "upload" THEN "stat" ELSE "receive"

LEMMA PlanTakenUpload ==
    ASSUME NEW client, NEW thread, NEW up, NEW down, NEW gone \in BOOLEAN, NEW t \in SUBSET Files,
           InStep(client, thread, up, down, gone), client.dir = "upload",
           client.pc = "plan", down = <<Plan(t)>>,
           NEW next, GoesOn(client, next, t, {})
    PROVE  InStep(next, thread, up, <<>>, gone \/ t = {})
<1>1. /\ UploadWire(client, thread, up, down, gone) /\ UploadLevel(client, thread, up, down)
      /\ Framed(client, thread, down, gone) /\ Busy(client, thread)
      /\ ~gone => UploadAgree(client, thread, up, down)
  BY DEF InStep
<1>2. up = <<>> /\ thread.pc # "manifest" /\ client.done = {} /\ thread.landed = {}
  BY <1>1, QueuesDiffer, FramesDiffer DEF UploadWire, Framed
<1>3. next.dir = "upload" /\ next.todo = t /\ next.done = {}
  BY DEF GoesOn
<1>4. IF t = {} THEN next.pc = "done" ELSE next.pc = "stat"
  BY DEF GoesOn
<1>5. Names(thread) = {}
  BY <1>2 DEF Names
<1>6. ~gone => thread.pc = "receive" /\ thread.todo = t
  BY <1>1, QueuesDiffer, FramesDiffer DEF UploadAgree
<1>7. UploadWire(next, thread, up, <<>>, gone \/ t = {})
  BY <1>1, <1>2, <1>3, <1>4 DEF UploadWire
<1>8. ~(gone \/ t = {}) => UploadAgree(next, thread, up, <<>>)
  BY <1>3, <1>4, <1>6 DEF UploadAgree
<1>9. UploadLevel(next, thread, up, <<>>)
  BY <1>1, <1>2, <1>3, <1>4, <1>5, QueuesDiffer DEF UploadLevel, UploadWire, FileFirst
<1>10. thread.pc \notin {"scan", "manifest"}
  BY <1>1, <1>2 DEF UploadWire
<1>11. Framed(next, thread, <<>>, gone \/ t = {}) /\ Busy(next, thread)
  BY <1>1, <1>2, <1>3, <1>4, <1>10 DEF Framed, Busy
<1> QED BY <1>3, <1>7, <1>8, <1>9, <1>11 DEF InStep

\* A client between the look at the time of a file, its sending and the wait.
LEMMA FileReadUpload ==
    ASSUME NEW client, NEW thread, NEW up, NEW down, NEW gone \in BOOLEAN,
           InStep(client, thread, up, down, gone), client.dir = "upload", client.pc = "stat",
           NEW next, next.pc = "read", next.dir = client.dir, next.todo = client.todo,
           next.done = client.done
    PROVE  InStep(next, thread, up, down, gone)
BY DEF InStep, Busy, Framed, UploadWire, UploadAgree, UploadLevel

LEMMA FileSentUpload ==
    ASSUME NEW client, NEW thread, NEW up, NEW down, NEW gone \in BOOLEAN,
           InStep(client, thread, up, down, gone), client.dir = "upload", client.pc = "read",
           NEW next, next.pc = "ack", next.dir = client.dir, next.todo = client.todo,
           next.done = client.done, NEW m, m.type = "file"
    PROVE  InStep(next, thread, IF gone THEN up ELSE Append(up, m), down, gone)
<1>1. /\ UploadWire(client, thread, up, down, gone) /\ UploadLevel(client, thread, up, down)
      /\ Framed(client, thread, down, gone) /\ Busy(client, thread)
      /\ ~gone => UploadAgree(client, thread, up, down)
  BY DEF InStep
<1>2. up = <<>> /\ down = <<>> /\ Names(thread) = client.done
  BY <1>1 DEF UploadLevel
<1>3. Append(up, m) = <<m>>
  BY <1>2, ShortQueues
<1>4. CASE gone
  BY <1>1, <1>2, <1>4, QueuesDiffer
     DEF InStep, Busy, Framed, UploadWire, UploadAgree, UploadLevel, FileFirst
<1>5. CASE ~gone
  <2>1. thread.pc = "receive" /\ thread.todo = client.todo
    BY <1>1, <1>5 DEF UploadAgree
  <2>2. UploadWire(next, thread, <<m>>, down, gone)
    BY <1>1, <1>2, <2>1 DEF UploadWire
  <2>3. UploadLevel(next, thread, <<m>>, down)
    BY <1>1, <1>2, <2>1, QueuesDiffer DEF UploadLevel
  <2> QED BY <1>1, <1>2, <1>3, <1>5, <2>1, <2>2, <2>3 DEF InStep, Busy, Framed, UploadAgree
<1> QED BY <1>4, <1>5

\* The acknowledgement: what the client counts has landed, nothing else has.
LEMMA AckTakenUpload ==
    ASSUME NEW client, NEW thread, NEW up, NEW down, NEW gone \in BOOLEAN,
           InStep(client, thread, up, down, gone), client.dir = "upload", client.pc = "ack",
           down = <<Ack(TRUE)>>, NEW next,
           GoesOn(client, next, Rest(client.todo), client.done \cup {First(client.todo)})
    PROVE  InStep(next, thread, up, <<>>, gone \/ Rest(client.todo) = {})
<1>1. /\ UploadWire(client, thread, up, down, gone) /\ UploadLevel(client, thread, up, down)
      /\ Framed(client, thread, down, gone) /\ Busy(client, thread)
      /\ ~gone => UploadAgree(client, thread, up, down)
  BY DEF InStep
<1> DEFINE todo == Rest(client.todo)
           done == client.done \cup {First(client.todo)}
<1>2. next.dir = "upload" /\ next.todo = todo /\ next.done = done
  BY DEF GoesOn
<1>3. IF todo = {} THEN next.pc = "done" ELSE next.pc = "stat"
  BY DEF GoesOn
<1>4. /\ Names(thread) = done /\ ~FileFirst(up)
      /\ thread.pc \in {"receive", "failed", "done"}
  BY <1>1 DEF UploadLevel
<1> HIDE DEF done
<1>5. up = <<>>
  <2>1. ~ \E m : m.type = "file" /\ up = <<m>>
    BY <1>4 DEF FileFirst
  <2> QED BY <1>1, <1>4, <2>1 DEF UploadWire
<1>6. ~gone => thread.pc = "receive" /\ thread.todo = todo
  BY <1>1, QueuesDiffer, FramesDiffer DEF UploadAgree
<1> HIDE DEF todo
<1>7. UploadWire(next, thread, up, <<>>, gone \/ todo = {})
  BY <1>1, <1>2, <1>3, <1>4, <1>5 DEF UploadWire
<1>8. ~(gone \/ todo = {}) => UploadAgree(next, thread, up, <<>>)
  BY <1>2, <1>3, <1>6 DEF UploadAgree
<1>9. UploadLevel(next, thread, up, <<>>)
  BY <1>2, <1>3, <1>4, <1>5, QueuesDiffer DEF UploadLevel
<1>10. Framed(next, thread, <<>>, gone \/ todo = {}) /\ Busy(next, thread)
  BY <1>1, <1>2, <1>3, <1>4 DEF Framed, Busy
<1> QED BY <1>2, <1>7, <1>8, <1>9, <1>10 DEF InStep, todo

\* A client that gives up cuts the connection, and only a file that is on its way may land.
LEMMA GivenUpUpload ==
    ASSUME NEW client, NEW thread, NEW up, NEW down, NEW gone \in BOOLEAN,
           InStep(client, thread, up, down, gone), client.dir = "upload", client.pc # "done",
           NEW next, next.pc = "done", next.dir = client.dir, next.done = client.done,
           NEW left, left = IF client.pc \in {"manifest", "plan"} \/ gone THEN up
                            ELSE Append(up, Abort)
    PROVE  InStep(next, thread, left, <<>>, TRUE)
<1>1. /\ UploadWire(client, thread, up, down, gone) /\ UploadLevel(client, thread, up, down)
      /\ Framed(client, thread, down, gone) /\ Busy(client, thread)
  BY DEF InStep
<1>2. Framed(next, thread, <<>>, TRUE) /\ Busy(next, thread)
  BY <1>1 DEF Framed, Busy
<1>3. /\ next.pc \in {"plan", "stat", "read", "ack", "done"}
      /\ thread.pc \in {"manifest", "receive", "replace", "utime", "history", "record",
                        "failed", "done"}
  BY <1>1 DEF UploadWire
<1>4. CASE up = <<>>
  <2>1. left = <<>> \/ (left = <<Abort>> /\ client.pc # "plan")
    BY <1>4, ShortQueues
  <2>2. client.pc # "plan" => thread.pc # "manifest"
    BY <1>1 DEF Framed, UploadWire
  <2>4. UploadWire(next, thread, left, <<>>, TRUE)
    BY <1>3, <2>1, <2>2 DEF UploadWire
  <2>5. ~FileFirst(left)
    BY <2>1, NotFileFirst
  <2>6. UploadLevel(next, thread, left, <<>>)
    BY <1>1, <2>5, QueuesDiffer DEF UploadLevel
  <2> QED BY <1>2, <2>4, <2>6 DEF InStep
<1>5. CASE thread.pc = "manifest" /\ \E e : up = <<Manifest(e)>>
  <2>1. client.pc = "plan" /\ left = up
    BY <1>1, <1>5, QueuesDiffer, FramesDiffer DEF UploadWire
  <2>2. UploadWire(next, thread, left, <<>>, TRUE)
    BY <1>3, <1>5, <2>1 DEF UploadWire
  <2>3. UploadLevel(next, thread, left, <<>>)
    BY <1>1, <2>1, QueuesDiffer DEF UploadLevel
  <2> QED BY <1>2, <2>2, <2>3 DEF InStep
<1>6. CASE /\ client.pc = "ack" /\ thread.pc \in {"receive", "failed"}
           /\ \E m : m.type = "file" /\ up = <<m>>
  <2>1. PICK m : m.type = "file" /\ up = <<m>>
    BY <1>6
  <2>2. left = <<m>> \/ left = <<m, Abort>>
    BY <1>6, <2>1, ShortQueues
  <2>3. FileFirst(left) /\ FileFirst(up)
    BY <2>1, <2>2 DEF FileFirst
  <2>4. UploadWire(next, thread, left, <<>>, TRUE)
    BY <1>3, <1>6, <2>3 DEF UploadWire
  <2>5. UploadLevel(next, thread, left, <<>>)
    BY <1>1, <1>6, <2>3, QueuesDiffer DEF UploadLevel
  <2> QED BY <1>2, <2>4, <2>5 DEF InStep
<1> QED BY <1>1, <1>4, <1>5, <1>6 DEF UploadWire

\* The daemon has judged the manifest: it has a plan, or the connection ends.
LEMMA JudgedUpload ==
    ASSUME NEW client, NEW thread, NEW up, NEW down, NEW gone \in BOOLEAN,
           InStep(client, thread, up, down, gone), client.dir = "upload",
           thread.pc = "manifest", up # <<>>,
           NEW todo \in SUBSET Files, NEW refused \in BOOLEAN, NEW next,
           next.pc = IF refused \/ todo = {} THEN "done" ELSE "receive",
           next.todo = IF refused THEN {} ELSE todo, next.landed = thread.landed,
           NEW m, m = IF refused THEN Abort ELSE Plan(todo)
    PROVE  InStep(client, next, Tail(up), IF gone THEN down ELSE Append(down, m),
                  gone \/ refused \/ todo = {})
<1>1. /\ UploadWire(client, thread, up, down, gone) /\ UploadLevel(client, thread, up, down)
      /\ Framed(client, thread, down, gone) /\ Busy(client, thread)
      /\ ~gone => UploadAgree(client, thread, up, down)
  BY DEF InStep
<1>2. client.pc \in {"plan", "done"} /\ \E e : up = <<Manifest(e)>>
  BY <1>1 DEF UploadWire
<1>3. Tail(up) = <<>>
  BY <1>2, ShortQueues
<1>4. down = <<>> /\ client.done = {} /\ thread.landed = {}
  BY <1>1, <1>2 DEF Framed, UploadWire
<1>5. Append(down, m) = <<m>>
  BY <1>4, ShortQueues
<1>6. Names(next) = {} /\ Names(thread) = {}
  BY <1>4 DEF Names
<1>7. ~gone => client.pc = "plan"
  BY <1>1, <1>2 DEF Framed
<1> DEFINE left == IF gone THEN down ELSE Append(down, m)
           end == gone \/ refused \/ todo = {}
<1>8. left = IF gone THEN <<>> ELSE <<m>>
  BY <1>4, <1>5
<1>9. /\ ~end => left = <<Plan(next.todo)>> /\ next.pc = "receive" /\ client.pc = "plan"
      /\ end => next.pc = "done" \/ gone
      /\ next.pc \in {"done", "receive"} /\ (next.pc = "receive" => next.todo # {})
      /\ gone => left = <<>>
      /\ ~gone => client.pc = "plan" /\ (left = <<Abort>> \/ left = <<Plan(todo)>>)
  BY <1>7, <1>8
<1>10. left # <<Ack(TRUE)>>
  <2>1. left = <<>> \/ left = <<Abort>> \/ left = <<Plan(todo)>>
    BY <1>9
  <2>2. /\ <<>> # <<Ack(TRUE)>> /\ <<Abort>> # <<Ack(TRUE)>>
        /\ <<Plan(todo)>> # <<Ack(TRUE)>>
    BY QueuesDiffer, FramesDiffer
  <2> HIDE DEF left
  <2> QED BY <2>1, <2>2
<1> HIDE DEF left, end
<1>11. UploadWire(client, next, <<>>, left, end)
  BY <1>2, <1>9 DEF UploadWire
<1>12. ~end => UploadAgree(client, next, <<>>, left)
  BY <1>9 DEF UploadAgree
<1>13. UploadLevel(client, next, <<>>, left)
  BY <1>2, <1>4, <1>6, <1>9, <1>10, NotFileFirst DEF UploadLevel
<1>14. Framed(client, next, left, end) /\ Busy(client, next)
  <2>1. client.pc = "done" => gone /\ left = <<>> /\ end
    BY <1>7, <1>9 DEF end
  <2>2. next.pc = "done" => end \/ client.pc = "done"
    BY DEF end
  <2> QED BY <1>1, <1>2, <1>4, <1>9, <2>1, <2>2 DEF Framed, Busy
<1> QED BY <1>3, <1>11, <1>12, <1>13, <1>14 DEF InStep, left, end

\* The frames of a file are read; they are the only file under way.
LEMMA FileTakenUpload ==
    ASSUME NEW client, NEW thread, NEW up, NEW down, NEW gone \in BOOLEAN,
           InStep(client, thread, up, down, gone), client.dir = "upload",
           thread.pc = "receive", up # <<>>, Head(up).type = "file",
           NEW next, next.pc = "replace", next.todo = thread.todo, next.landed = thread.landed
    PROVE  InStep(client, next, Tail(up), down, gone)
<1>1. /\ UploadWire(client, thread, up, down, gone) /\ UploadLevel(client, thread, up, down)
      /\ Framed(client, thread, down, gone) /\ Busy(client, thread)
      /\ ~gone => UploadAgree(client, thread, up, down)
  BY DEF InStep
<1>2. Head(<<Abort>>).type # "file"
  BY ShortQueues DEF Abort
<1>3. \/ client.pc = "ack" /\ \E m : m.type = "file" /\ up = <<m>>
      \/ client.pc = "done" /\ gone /\ FileFirst(up)
  BY <1>1, <1>2 DEF UploadWire
<1>4. FileFirst(up)
  BY <1>3 DEF FileFirst
<1>5. Tail(up) = <<>> \/ (client.pc = "done" /\ gone /\ Tail(up) = <<Abort>>)
  <2>1. CASE \E m : m.type = "file" /\ up = <<m>>
    BY <2>1, ShortQueues
  <2>2. CASE \E m : m.type = "file" /\ up = <<m, Abort>>
    <3>1. client.pc = "done" /\ gone
      BY <1>3, <2>2, QueuesDiffer
    <3> QED BY <2>2, <3>1, ShortQueues
  <2> QED BY <1>4, <2>1, <2>2 DEF FileFirst
<1>6. Names(next) = Names(thread) /\ Names(thread) = client.done
  BY <1>1, <1>4 DEF Names, UploadLevel
<1>7. ~FileFirst(Tail(up))
  BY <1>5, NotFileFirst
<1>8. down # <<Ack(TRUE)>> /\ client.pc \in {"ack", "done"}
  BY <1>1, <1>3, <1>4 DEF UploadLevel
<1>9. ~gone => client.pc = "ack" /\ down = <<>> /\ thread.todo = client.todo
  BY <1>1, <1>3, <1>8 DEF UploadAgree
<1>10. UploadWire(client, next, Tail(up), down, gone)
  BY <1>1, <1>5, <1>8 DEF UploadWire
<1>11. ~gone => UploadAgree(client, next, Tail(up), down)
  BY <1>8, <1>9 DEF UploadAgree
<1>12. UploadLevel(client, next, Tail(up), down)
  BY <1>1, <1>6, <1>7, <1>8 DEF UploadLevel
<1>13. Framed(client, next, down, gone) /\ Busy(client, next)
  BY <1>1, <1>8 DEF Framed, Busy
<1> QED BY <1>10, <1>11, <1>12, <1>13 DEF InStep

\* The file has landed, and nothing of it has been counted.
LEMMA FileLandedUpload ==
    ASSUME NEW client, NEW thread, NEW up, NEW down, NEW gone \in BOOLEAN,
           InStep(client, thread, up, down, gone), client.dir = "upload",
           thread.pc = "replace",
           NEW next, next.pc = "utime", next.todo = thread.todo,
           Names(next) = Names(thread) \cup {First(thread.todo)}
    PROVE  InStep(client, next, up, down, gone)
<1>1. /\ UploadWire(client, thread, up, down, gone) /\ UploadLevel(client, thread, up, down)
      /\ Framed(client, thread, down, gone) /\ Busy(client, thread)
      /\ ~gone => UploadAgree(client, thread, up, down)
  BY DEF InStep
<1>2. Names(thread) = client.done /\ client.pc \in {"ack", "done"} /\ down # <<Ack(TRUE)>>
  BY <1>1 DEF UploadLevel, UploadWire
<1>3. up = <<>> \/ (client.pc = "done" /\ gone /\ up = <<Abort>>)
  BY <1>1 DEF UploadWire
<1>4. ~FileFirst(up)
  BY <1>3, NotFileFirst
<1>5. UploadWire(client, next, up, down, gone)
  BY <1>1, <1>3 DEF UploadWire
<1>6. UploadLevel(client, next, up, down)
  BY <1>2, <1>4 DEF UploadLevel
<1>7. ~gone => UploadAgree(client, next, up, down)
  BY <1>1 DEF UploadAgree
<1>8. Framed(client, next, down, gone) /\ Busy(client, next)
  BY <1>1, <1>2 DEF Framed, Busy
<1> QED BY <1>5, <1>6, <1>7, <1>8 DEF InStep

\* Its time is set, its version written: both ends are where they were.
LEMMA FileFinishedUpload ==
    ASSUME NEW client, NEW thread, NEW up, NEW down, NEW gone \in BOOLEAN,
           InStep(client, thread, up, down, gone), client.dir = "upload",
           thread.pc \in {"utime", "history"},
           NEW next, next.pc \in {"history", "record"}, next.todo = thread.todo,
           next.landed = thread.landed
    PROVE  InStep(client, next, up, down, gone)
<1>1. Names(next) = Names(thread)
  BY DEF Names
<1> QED BY <1>1 DEF InStep, Busy, Framed, UploadWire, UploadAgree, UploadLevel

\* A thread that goes on with its plan.
MovesOn(client, thread, next) ==
    /\ next.todo = Rest(thread.todo)
    /\ next.pc = IF Rest(thread.todo) = {} THEN "done"
                 ELSE IF client.dir = "upload" THEN "receive" ELSE "stat"

LEMMA FileRecordedUpload ==
    ASSUME NEW client, NEW thread, NEW up, NEW down, NEW gone \in BOOLEAN,
           InStep(client, thread, up, down, gone), client.dir = "upload",
           thread.pc = "record", NEW next, MovesOn(client, thread, next),
           next.landed = thread.landed
    PROVE  InStep(client, next, up, IF gone THEN down ELSE Append(down, Ack(TRUE)),
                  gone \/ Rest(thread.todo) = {})
<1>1. /\ UploadWire(client, thread, up, down, gone) /\ UploadLevel(client, thread, up, down)
      /\ Framed(client, thread, down, gone) /\ Busy(client, thread)
      /\ ~gone => UploadAgree(client, thread, up, down)
  BY DEF InStep
<1>2. /\ Names(thread) = client.done \cup {First(thread.todo)}
      /\ client.pc \in {"ack", "done"} /\ down # <<Ack(TRUE)>>
  BY <1>1 DEF UploadLevel, UploadWire
<1>3. up = <<>> \/ (client.pc = "done" /\ gone /\ up = <<Abort>>)
  BY <1>1 DEF UploadWire
<1>4. ~FileFirst(up)
  BY <1>3, NotFileFirst
<1>5. ~gone => client.pc = "ack" /\ down = <<>> /\ thread.todo = client.todo
  <2>1. ~gone => client.pc = "ack"
    BY <1>1, <1>2 DEF Framed
  <2> QED BY <1>1, <2>1 DEF UploadAgree
<1> DEFINE left == IF gone THEN down ELSE Append(down, Ack(TRUE))
           todo == Rest(thread.todo)
           end == gone \/ todo = {}
<1>6. left = IF gone THEN down ELSE <<Ack(TRUE)>>
  BY <1>5, ShortQueues
<1>7. Names(next) = Names(thread)
  BY DEF Names
<1>8. next.todo = todo /\ (IF todo = {} THEN next.pc = "done" ELSE next.pc = "receive")
  BY DEF MovesOn
<1>9. ~end => ~gone /\ todo # {}
  OBVIOUS
<1>10. gone \/ todo = {} <=> end
  OBVIOUS
<1> HIDE DEF left, end
<1>11. UploadWire(client, next, up, left, end)
  <2>1. CASE gone
    BY <1>1, <1>2, <1>3, <1>6, <1>8, <1>10, <2>1 DEF UploadWire
  <2>2. CASE ~gone
    BY <1>1, <1>2, <1>3, <1>5, <1>6, <1>8, <2>2 DEF UploadWire
  <2> QED BY <2>1, <2>2
<1>12. ~end => UploadAgree(client, next, up, left)
  BY <1>5, <1>6, <1>8, <1>9 DEF UploadAgree, todo
<1>13. UploadLevel(client, next, up, left)
  <2>1. left = <<Ack(TRUE)>> => thread.todo = client.todo
    BY <1>2, <1>5, <1>6
  <2> QED BY <1>1, <1>2, <1>4, <1>7, <1>8, <2>1 DEF UploadLevel
<1>14. Framed(client, next, left, end) /\ Busy(client, next)
  <2>1. client.pc = "done" => gone /\ left = <<>>
    BY <1>1, <1>5, <1>6 DEF Framed
  <2> QED BY <1>1, <1>2, <1>8, <1>10, <2>1 DEF Framed, Busy
<1> QED BY <1>11, <1>12, <1>13, <1>14 DEF InStep, left, end

\* A file that fails is refused, and the thread waits for the client to hang up.
LEMMA FileRefusedUpload ==
    ASSUME NEW client, NEW thread, NEW up, NEW down, NEW gone \in BOOLEAN,
           InStep(client, thread, up, down, gone), client.dir = "upload",
           \/ thread.pc = "receive" /\ (up # <<>> \/ gone)
           \/ thread.pc \in {"replace", "utime", "record"},
           NEW next, next.pc = "failed", next.todo = thread.todo, next.landed = thread.landed
    PROVE  InStep(client, next, up, IF gone THEN down ELSE Append(down, Ack(FALSE)), gone)
<1>1. /\ UploadWire(client, thread, up, down, gone) /\ UploadLevel(client, thread, up, down)
      /\ Framed(client, thread, down, gone) /\ Busy(client, thread)
      /\ ~gone => UploadAgree(client, thread, up, down)
  BY DEF InStep
<1>2. Names(next) = Names(thread)
  BY DEF Names
<1>3. CASE gone
  <2>1. UploadWire(client, next, up, down, gone)
    BY <1>1, <1>3 DEF UploadWire
  <2>2. UploadLevel(client, next, up, down)
    BY <1>1, <1>2 DEF UploadLevel
  <2>3. Framed(client, next, down, gone) /\ Busy(client, next)
    BY <1>1, <1>3 DEF Framed, Busy
  <2> QED BY <1>3, <2>1, <2>2, <2>3 DEF InStep
<1>4. CASE ~gone
  <2>1. client.pc = "ack"
    <3>1. thread.pc = "receive" => client.pc \in {"ack", "done"}
      BY <1>1, <1>4 DEF UploadWire
    <3>2. thread.pc # "receive" => client.pc \in {"ack", "done"}
      BY <1>1 DEF UploadLevel, UploadWire
    <3> QED BY <1>1, <1>4, <3>1, <3>2 DEF Framed
  <2>2. up = <<>> \/ (thread.pc = "receive" /\ FileFirst(up))
    <3>1. up = <<>> \/ (thread.pc = "receive" /\ \E m : m.type = "file" /\ up = <<m>>)
      BY <1>1, <1>4, <2>1 DEF UploadWire
    <3> QED BY <3>1 DEF FileFirst
  <2>3. down = <<>>
    BY <1>1, <1>4, <2>1, <2>2 DEF UploadAgree, UploadLevel
  <2>4. Append(down, Ack(FALSE)) = <<Ack(FALSE)>>
    BY <2>3, ShortQueues
  <2>5. <<Ack(FALSE)>> # <<Ack(TRUE)>>
    BY QueuesDiffer, FramesDiffer
  <2>6. UploadWire(client, next, up, <<Ack(FALSE)>>, gone)
    BY <1>1, <1>4, <2>1 DEF UploadWire
  <2>7. UploadAgree(client, next, up, <<Ack(FALSE)>>)
    BY <2>1 DEF UploadAgree
  <2>8. UploadLevel(client, next, up, <<Ack(FALSE)>>)
    BY <1>1, <1>2, <2>1, <2>5 DEF UploadLevel
  <2>9. Framed(client, next, <<Ack(FALSE)>>, gone) /\ Busy(client, next)
    BY <1>1, <2>1 DEF Framed, Busy
  <2> QED BY <1>4, <2>4, <2>6, <2>7, <2>8, <2>9 DEF InStep
<1> QED BY <1>3, <1>4

\* A thread that ends hangs up, and what it had not read is lost.
LEMMA ThreadEndedUpload ==
    ASSUME NEW client, NEW thread, NEW up, NEW down, NEW gone \in BOOLEAN,
           InStep(client, thread, up, down, gone), client.dir = "upload",
           NEW next, next.pc = "done", next.landed = thread.landed
    PROVE  InStep(client, next, <<>>, down, gone \/ thread.pc # "done")
<1>1. /\ UploadWire(client, thread, up, down, gone) /\ UploadLevel(client, thread, up, down)
      /\ Framed(client, thread, down, gone) /\ Busy(client, thread)
  BY DEF InStep
<1>2. Names(next) = Names(thread)
  BY DEF Names
<1>3. UploadWire(client, next, <<>>, down, gone \/ thread.pc # "done")
  BY <1>1 DEF UploadWire
<1>4. UploadLevel(client, next, <<>>, down)
  BY <1>1, <1>2, NotFileFirst DEF UploadLevel
<1>5. Framed(client, next, down, gone \/ thread.pc # "done") /\ Busy(client, next)
  BY <1>1 DEF Framed, Busy
<1>6. ~gone /\ thread.pc = "done" => client.pc = "done"
  BY <1>1 DEF Framed
<1>7. client.pc = "done" => UploadAgree(client, next, <<>>, down)
  BY DEF UploadAgree
<1> QED BY <1>3, <1>4, <1>5, <1>6, <1>7 DEF InStep

LEMMA BrokenUpload ==
    ASSUME NEW client, NEW thread, NEW up, NEW down, NEW gone \in BOOLEAN,
           InStep(client, thread, up, down, gone), client.dir = "upload"
    PROVE  InStep(client, thread, <<>>, <<>>, TRUE)
<1>1. <<>> # <<Ack(TRUE)>>
  BY QueuesDiffer
<1> QED BY <1>1, NotFileFirst DEF InStep, Busy, Framed, UploadWire, UploadLevel

-----------------------------------------------------------------------------
(* The same of a download. *)
LEMMA NoAckFirst ==
    /\ ~AckFirst(<<>>) /\ ~AckFirst(<<Abort>>)
    /\ \A e : ~AckFirst(<<Manifest(e)>>)
<1>1. \A x, y : <<x>> = <<y>> => x = y
  BY QueuesDiffer
<1>2. \A x, y, z : <<x>> # <<y, z>> /\ <<>> # <<x>> /\ <<>> # <<x, y>>
  BY QueuesDiffer
<1>3. ASSUME NEW x, x # Ack(TRUE) PROVE ~AckFirst(<<x>>)
  BY <1>1, <1>2, <1>3 DEF AckFirst
<1>4. ~AckFirst(<<>>)
  BY <1>2 DEF AckFirst
<1>5. Abort # Ack(TRUE) /\ \A e : Manifest(e) # Ack(TRUE)
  BY FramesDiffer
<1> QED BY <1>3, <1>4, <1>5

LEMMA NoFileLast ==
    /\ ~FileLast(<<>>) /\ ~FileLast(<<Abort>>)
    /\ \A t : ~FileLast(<<Plan(t)>>)
    /\ \A e : ~FileLast(<<Manifest(e)>>)
<1>1. \A m : m.type = "file" => m # Abort /\ (\A t : m # Plan(t)) /\ (\A e : m # Manifest(e))
  BY FramesDiffer
<1>2. \A m : <<>> # <<m>> /\ (\A t : <<>> # <<Plan(t), m>>)
  BY QueuesDiffer
<1>3. \A x, m, t : <<x>> # <<Plan(t), m>>
  BY QueuesDiffer
<1>4. \A x, m : <<x>> = <<m>> => x = m
  BY QueuesDiffer
<1>5. ~FileLast(<<>>)
  BY <1>2, Zenon DEF FileLast
<1>6. ASSUME NEW x, ~ (x.type = "file") PROVE ~FileLast(<<x>>)
  BY <1>3, <1>4, <1>6 DEF FileLast
<1>7. /\ Abort.type # "file" /\ (\A t : Plan(t).type # "file")
      /\ (\A e : Manifest(e).type # "file")
  BY DEF Abort, Plan, Manifest
<1> QED BY <1>5, <1>6, <1>7

LEMMA DownloadParts ==
    ASSUME NEW client, NEW thread, NEW up, NEW down, NEW gone \in BOOLEAN,
           InStep(client, thread, up, down, gone), client.dir = "download"
    PROVE  /\ DownloadWire(client, thread, up, down, gone)
           /\ DownloadLevel(client, thread, up, down)
           /\ Framed(client, thread, down, gone) /\ Busy(client, thread)
           /\ ~gone => DownloadAgree(client, thread, up, down)
BY DEF InStep

LEMMA DownloadInStep ==
    ASSUME NEW client, NEW thread, NEW up, NEW down, NEW gone, client.dir = "download",
           DownloadWire(client, thread, up, down, gone),
           DownloadLevel(client, thread, up, down),
           Framed(client, thread, down, gone), Busy(client, thread),
           ~gone => DownloadAgree(client, thread, up, down)
    PROVE  InStep(client, thread, up, down, gone)
BY DEF InStep

LEMMA ManifestAnswered ==
    ASSUME NEW client, NEW thread, NEW up, NEW down, NEW gone \in BOOLEAN,
           InStep(client, thread, up, down, gone), client.dir = "download",
           client.pc = "manifest", down # <<>>, NEW e,
           NEW next, next.pc = "plan", next.dir = client.dir, next.todo = client.todo,
           next.done = client.done
    PROVE  InStep(next, thread, IF gone THEN up ELSE Append(up, Manifest(e)), Tail(down), gone)
<1>1. /\ DownloadWire(client, thread, up, down, gone)
      /\ DownloadLevel(client, thread, up, down)
      /\ Framed(client, thread, down, gone) /\ Busy(client, thread)
      /\ ~gone => DownloadAgree(client, thread, up, down)
  BY DownloadParts
<1>2. /\ thread.pc \in {"manifest", "done"} /\ \E x : down = <<Manifest(x)>>
  BY <1>1 DEF DownloadWire
<1>3. Tail(down) = <<>>
  BY <1>2, ShortQueues
<1>4. up = <<>>
  BY <1>1 DEF DownloadWire
<1> DEFINE left == IF gone THEN up ELSE Append(up, Manifest(e))
<1>5. left = IF gone THEN <<>> ELSE <<Manifest(e)>>
  BY <1>4, ShortQueues
<1>6. ~gone => thread.pc = "manifest"
  BY <1>1, <1>2 DEF DownloadAgree
<1> HIDE DEF left
<1>7. ~AckFirst(left)
  BY <1>5, NoAckFirst
<1>8. DownloadWire(next, thread, left, <<>>, gone)
  BY <1>1, <1>2, <1>5, <1>6 DEF DownloadWire
<1>9. DownloadLevel(next, thread, left, <<>>)
  BY <1>1, <1>2, <1>7, NoFileLast DEF DownloadLevel
<1>10. ~gone => DownloadAgree(next, thread, left, <<>>)
  BY <1>6 DEF DownloadAgree
<1>11. Framed(next, thread, <<>>, gone) /\ Busy(next, thread)
  BY <1>1, <1>2 DEF Framed, Busy
<1> QED BY <1>3, <1>8, <1>9, <1>10, <1>11, DownloadInStep DEF left

LEMMA PlanTakenDownload ==
    ASSUME NEW client, NEW thread, NEW up, NEW down, NEW gone \in BOOLEAN,
           InStep(client, thread, up, down, gone), client.dir = "download",
           client.pc = "plan", down # <<>>, Head(down).type = "plan", NEW t, t = Head(down).todo,
           NEW next, GoesOn(client, next, t, {})
    PROVE  InStep(next, thread, up, Tail(down), gone \/ t = {})
<1>1. /\ DownloadWire(client, thread, up, down, gone)
      /\ DownloadLevel(client, thread, up, down)
      /\ Framed(client, thread, down, gone) /\ Busy(client, thread)
      /\ ~gone => DownloadAgree(client, thread, up, down)
  BY DownloadParts
<1>2. next.dir = "download" /\ next.todo = t /\ next.done = {}
  BY DEF GoesOn
<1>3. IF t = {} THEN next.pc = "done" ELSE next.pc = "receive"
  BY DEF GoesOn
<1>4. Head(<<Abort>>).type # "plan"
  BY ShortQueues DEF Abort
<1>5. /\ thread.pc \notin {"scan", "manifest"}
      /\ \/ \E s \in SUBSET Files : down = <<Plan(s)>>
         \/ /\ thread.pc \in {"ack", "done"}
            /\ \E s \in SUBSET Files : \E m : s # {} /\ m.type = "file" /\ down = <<Plan(s), m>>
  BY <1>1, <1>4 DEF DownloadWire
<1>6. /\ up = <<>> /\ client.done = {} /\ Names(thread) = {}
  BY <1>1, <1>5 DEF DownloadWire, Framed, Names
<1>7. CASE \E s \in SUBSET Files : down = <<Plan(s)>>
  <2>1. PICK s \in SUBSET Files : down = <<Plan(s)>>
    BY <1>7
  <2>2. Tail(down) = <<>> /\ Head(down) = Plan(s)
    BY <2>1, ShortQueues
  <2>3. t = s
    BY <2>2 DEF Plan
  <2>4. ~gone => thread.todo = t /\ thread.pc \in {"stat", "read"}
    <3>1. \A u, m : down # <<Plan(u), m>>
      BY <2>1, QueuesDiffer
    <3>2. \A u : down = <<Plan(u)>> => u = s
      BY <2>1, QueuesDiffer, FramesDiffer
    <3>3. down # <<>>
      BY <2>1, QueuesDiffer
    <3> QED BY <1>1, <2>3, <3>1, <3>2, <3>3 DEF DownloadAgree
  <2>5. DownloadWire(next, thread, up, <<>>, gone \/ t = {})
    BY <1>1, <1>3, <1>5, <1>6 DEF DownloadWire
  <2>6. DownloadLevel(next, thread, up, <<>>)
    BY <1>1, <1>2, <1>3, <1>6, NoFileLast, NoAckFirst DEF DownloadLevel
  <2>7. ~(gone \/ t = {}) => DownloadAgree(next, thread, up, <<>>)
    BY <1>2, <1>3, <1>6, <2>4 DEF DownloadAgree
  <2>8. Framed(next, thread, <<>>, gone \/ t = {}) /\ Busy(next, thread)
    BY <1>1, <1>2, <1>3, <1>5 DEF Framed, Busy
  <2> QED BY <1>2, <2>2, <2>5, <2>6, <2>7, <2>8, DownloadInStep
<1>8. CASE /\ thread.pc \in {"ack", "done"}
           /\ \E s \in SUBSET Files : \E m : s # {} /\ m.type = "file" /\ down = <<Plan(s), m>>
  <2>0. PICK s \in SUBSET Files : \E m : s # {} /\ m.type = "file" /\ down = <<Plan(s), m>>
    BY <1>8
  <2>1. PICK m : s # {} /\ m.type = "file" /\ down = <<Plan(s), m>>
    BY <2>0
  <2>2. Tail(down) = <<m>> /\ Head(down) = Plan(s)
    BY <2>1, ShortQueues
  <2>3. t = s /\ next.pc = "receive"
    BY <1>3, <2>1, <2>2 DEF Plan
  <2>4. ~gone => thread.todo = t /\ thread.pc = "ack"
    <3>1. \A u, x : down = <<Plan(u), x>> => u = s
      BY <2>1, QueuesDiffer, FramesDiffer
    <3>2. \A u : down # <<Plan(u)>>
      BY <2>1, QueuesDiffer
    <3>3. down # <<>>
      BY <2>1, QueuesDiffer
    <3> QED BY <1>1, <2>3, <3>1, <3>2, <3>3 DEF DownloadAgree
  <2>5. DownloadWire(next, thread, up, <<m>>, gone)
    BY <1>1, <1>6, <1>8, <2>1, <2>3 DEF DownloadWire
  <2>6. DownloadLevel(next, thread, up, <<m>>)
    BY <1>2, <1>6, <1>8, <2>3, NoAckFirst DEF DownloadLevel
  <2>7. ~gone => DownloadAgree(next, thread, up, <<m>>)
    BY <1>2, <1>6, <2>3, <2>4, QueuesDiffer DEF DownloadAgree
  <2>8. Framed(next, thread, <<m>>, gone) /\ Busy(next, thread)
    BY <1>1, <1>2, <1>5, <2>1, <2>3 DEF Framed, Busy
  <2>9. (gone \/ t = {}) = gone
    BY <2>1, <2>3
  <2> QED BY <1>2, <2>2, <2>5, <2>6, <2>7, <2>8, <2>9, DownloadInStep
<1> QED BY <1>5, <1>7, <1>8

LEMMA FileTakenDownload ==
    ASSUME NEW client, NEW thread, NEW up, NEW down, NEW gone \in BOOLEAN,
           InStep(client, thread, up, down, gone), client.dir = "download",
           client.pc = "receive", down # <<>>,
           NEW next, next.pc = "replace", next.dir = client.dir, next.todo = client.todo,
           next.done = client.done
    PROVE  InStep(next, thread, up, Tail(down), gone)
<1>1. /\ DownloadWire(client, thread, up, down, gone)
      /\ DownloadLevel(client, thread, up, down)
      /\ Framed(client, thread, down, gone) /\ Busy(client, thread)
      /\ ~gone => DownloadAgree(client, thread, up, down)
  BY DownloadParts
<1>2. /\ thread.pc \in {"ack", "done"} /\ \E m : m.type = "file" /\ down = <<m>>
  BY <1>1 DEF DownloadWire
<1>3. Tail(down) = <<>> /\ FileLast(down)
  BY <1>2, ShortQueues DEF FileLast
<1>4. Names(thread) = client.done /\ ~AckFirst(up)
  BY <1>1, <1>3 DEF DownloadLevel
<1>5. up = <<>>
  BY <1>1, <1>4 DEF DownloadWire, AckFirst
<1>6. DownloadWire(next, thread, up, <<>>, gone)
  BY <1>1, <1>2, <1>5 DEF DownloadWire
<1>7. DownloadLevel(next, thread, up, <<>>)
  BY <1>1, <1>2, <1>4 DEF DownloadLevel
<1>8. ~gone => DownloadAgree(next, thread, up, <<>>)
  BY <1>1, <1>2, <1>5 DEF DownloadAgree
<1>9. Framed(next, thread, <<>>, gone) /\ Busy(next, thread)
  BY <1>1, <1>2 DEF Framed, Busy
<1> QED BY <1>3, <1>6, <1>7, <1>8, <1>9, DownloadInStep

LEMMA FileReplacedDownload ==
    ASSUME NEW client, NEW thread, NEW up, NEW down, NEW gone \in BOOLEAN,
           InStep(client, thread, up, down, gone), client.dir = "download",
           client.pc = "replace",
           NEW next, next.pc = "utime", next.dir = client.dir, next.todo = client.todo,
           next.done = client.done
    PROVE  InStep(next, thread, up, down, gone)
BY DEF InStep, Busy, Framed, DownloadWire, DownloadAgree, DownloadLevel

LEMMA FileCountedDownload ==
    ASSUME NEW client, NEW thread, NEW up, NEW down, NEW gone \in BOOLEAN,
           InStep(client, thread, up, down, gone), client.dir = "download",
           client.pc = "utime", NEW next,
           GoesOn(client, next, Rest(client.todo), client.done \cup {First(client.todo)})
    PROVE  InStep(next, thread, IF gone THEN up ELSE Append(up, Ack(TRUE)), down,
                  gone \/ Rest(client.todo) = {})
<1>1. /\ DownloadWire(client, thread, up, down, gone)
      /\ DownloadLevel(client, thread, up, down)
      /\ Framed(client, thread, down, gone) /\ Busy(client, thread)
      /\ ~gone => DownloadAgree(client, thread, up, down)
  BY DownloadParts
<1> DEFINE todo == Rest(client.todo)
           done == client.done \cup {First(client.todo)}
           left == IF gone THEN up ELSE Append(up, Ack(TRUE))
           end == gone \/ todo = {}
<1>2. next.dir = "download" /\ next.todo = todo /\ next.done = done
  BY DEF GoesOn
<1>3. IF todo = {} THEN next.pc = "done" ELSE next.pc = "receive"
  BY DEF GoesOn
<1>4. /\ Names(thread) = client.done /\ thread.pc \in {"ack", "done"} /\ down = <<>>
  BY <1>1 DEF DownloadLevel
<1>5. up = <<>>
  BY <1>1 DEF DownloadWire
<1>6. left = IF gone THEN <<>> ELSE <<Ack(TRUE)>>
  BY <1>5, ShortQueues
<1>7. ~gone => thread.pc = "ack" /\ thread.todo = client.todo
  BY <1>1 DEF DownloadAgree
<1>8. end <=> gone \/ todo = {}
  OBVIOUS
<1>9. AckFirst(left) => ~gone
  BY <1>6, NoAckFirst
<1>10. client.done \subseteq done /\ done = client.done \cup {First(client.todo)}
  OBVIOUS
<1>11. ~gone => Rest(thread.todo) = todo /\ First(thread.todo) = First(client.todo)
  BY <1>7
<1> HIDE DEF left, end, todo, done
<1>12. DownloadWire(next, thread, left, down, end)
  BY <1>1, <1>3, <1>4, <1>6, <1>7, <1>8 DEF DownloadWire
<1>13. DownloadLevel(next, thread, left, down)
  BY <1>2, <1>3, <1>4, <1>9, <1>10, <1>11, NoFileLast DEF DownloadLevel
<1>14. ~end => DownloadAgree(next, thread, left, down)
  BY <1>2, <1>3, <1>4, <1>6, <1>7, <1>8, <1>11 DEF DownloadAgree
<1>15. Framed(next, thread, down, end) /\ Busy(next, thread)
  BY <1>1, <1>2, <1>3, <1>4, <1>8 DEF Framed, Busy
<1> QED BY <1>2, <1>12, <1>13, <1>14, <1>15, DownloadInStep DEF left, end, todo

LEMMA GivenUpDownload ==
    ASSUME NEW client, NEW thread, NEW up, NEW down, NEW gone \in BOOLEAN,
           InStep(client, thread, up, down, gone), client.dir = "download", client.pc # "done",
           NEW next, next.pc = "done", next.dir = client.dir, next.done = client.done,
           NEW left, left = IF client.pc \in {"manifest", "plan"} \/ gone THEN up
                            ELSE Append(up, Abort)
    PROVE  InStep(next, thread, left, <<>>, TRUE)
<1>1. /\ DownloadWire(client, thread, up, down, gone)
      /\ DownloadLevel(client, thread, up, down)
      /\ Framed(client, thread, down, gone) /\ Busy(client, thread)
  BY DownloadParts
<1>2. Framed(next, thread, <<>>, TRUE) /\ Busy(next, thread)
  BY <1>1 DEF Framed, Busy
<1>3. client.pc \in {"receive", "replace", "utime"} => thread.pc \notin {"scan", "manifest"}
  BY <1>1 DEF Framed
<1>4. \/ left = up /\ (up = <<>> \/ (thread.pc = "manifest" /\ \E e : up = <<Manifest(e)>>)
                         \/ (thread.pc = "ack" /\ up = <<Ack(TRUE)>>))
      \/ up = <<>> /\ left = <<Abort>> /\ thread.pc \notin {"scan", "manifest"}
      \/ thread.pc = "ack" /\ up = <<Ack(TRUE)>> /\ left = <<Ack(TRUE), Abort>>
  <2>1. client.pc \in {"manifest", "plan"} =>
            up = <<>> \/ (thread.pc = "manifest" /\ \E e : up = <<Manifest(e)>>)
    BY <1>1 DEF DownloadWire
  <2>2. client.pc \notin {"manifest", "plan"} =>
            /\ up = <<>> \/ (thread.pc = "ack" /\ up = <<Ack(TRUE)>>)
            /\ thread.pc \notin {"scan", "manifest"}
    BY <1>1, <1>3 DEF DownloadWire
  <2>3. /\ Append(<<>>, Abort) = <<Abort>>
        /\ Append(<<Ack(TRUE)>>, Abort) = <<Ack(TRUE), Abort>>
    BY ShortQueues
  <2> QED BY <2>1, <2>2, <2>3
<1>5. DownloadWire(next, thread, left, <<>>, TRUE)
  BY <1>1, <1>4 DEF DownloadWire
<1>6. AckFirst(left) <=> AckFirst(up)
  BY <1>4, NoAckFirst DEF AckFirst
<1>7. DownloadLevel(next, thread, left, <<>>)
  BY <1>1, <1>6, NoFileLast DEF DownloadLevel
<1> QED BY <1>2, <1>5, <1>7, DownloadInStep

LEMMA ScannedDownload ==
    ASSUME NEW client, NEW thread, NEW up, NEW down, NEW gone \in BOOLEAN,
           InStep(client, thread, up, down, gone), client.dir = "download",
           thread.pc = "scan", NEW e,
           NEW next, next.pc = "manifest", next.todo = thread.todo, next.landed = thread.landed
    PROVE  InStep(client, next, up, IF gone THEN down ELSE Append(down, Manifest(e)), gone)
<1>1. /\ DownloadWire(client, thread, up, down, gone)
      /\ DownloadLevel(client, thread, up, down)
      /\ Framed(client, thread, down, gone) /\ Busy(client, thread)
      /\ ~gone => DownloadAgree(client, thread, up, down)
  BY DownloadParts
<1>2. down = <<>> /\ up = <<>>
  BY <1>1 DEF DownloadWire
<1>3. ~gone => client.pc = "manifest"
  BY <1>1 DEF Framed, DownloadAgree
<1> DEFINE left == IF gone THEN down ELSE Append(down, Manifest(e))
<1>4. left = IF gone THEN <<>> ELSE <<Manifest(e)>>
  BY <1>2, ShortQueues
<1>5. Names(next) = Names(thread)
  BY DEF Names
<1> HIDE DEF left
<1>6. ~FileLast(left)
  BY <1>4, NoFileLast
<1>7. client.pc \in {"manifest", "plan", "done"}
  BY <1>1 DEF Framed
<1>8. DownloadWire(client, next, up, left, gone)
  BY <1>1, <1>2, <1>3, <1>4 DEF DownloadWire
<1>9. DownloadLevel(client, next, up, left)
  BY <1>1, <1>5, <1>6, <1>7 DEF DownloadLevel
<1>10. ~gone => DownloadAgree(client, next, up, left)
  BY <1>3, <1>4 DEF DownloadAgree
<1>11. Framed(client, next, left, gone) /\ Busy(client, next)
  BY <1>1, <1>3, <1>4, <1>7 DEF Framed, Busy
<1> QED BY <1>8, <1>9, <1>10, <1>11, DownloadInStep DEF left

LEMMA JudgedDownload ==
    ASSUME NEW client, NEW thread, NEW up, NEW down, NEW gone \in BOOLEAN,
           InStep(client, thread, up, down, gone), client.dir = "download",
           thread.pc = "manifest", up # <<>>,
           NEW todo \in SUBSET Files, NEW refused \in BOOLEAN, NEW next,
           next.pc = IF refused \/ todo = {} THEN "done" ELSE "stat",
           next.todo = IF refused THEN {} ELSE todo, next.landed = thread.landed,
           NEW m, m = IF refused THEN Abort ELSE Plan(todo)
    PROVE  InStep(client, next, Tail(up), IF gone THEN down ELSE Append(down, m),
                  gone \/ refused \/ todo = {})
<1>1. /\ DownloadWire(client, thread, up, down, gone)
      /\ DownloadLevel(client, thread, up, down)
      /\ Framed(client, thread, down, gone) /\ Busy(client, thread)
      /\ ~gone => DownloadAgree(client, thread, up, down)
  BY DownloadParts
<1>2. client.pc \in {"plan", "done"} /\ \E e : up = <<Manifest(e)>>
  BY <1>1 DEF DownloadWire
<1>3. Tail(up) = <<>>
  BY <1>2, ShortQueues
<1>4. down = <<>> /\ client.done = {} /\ thread.landed = {}
  BY <1>1, <1>2 DEF Framed, DownloadWire
<1>5. Append(down, m) = <<m>>
  BY <1>4, ShortQueues
<1>6. Names(next) = {} /\ Names(thread) = {}
  BY <1>4 DEF Names
<1>7. ~gone => client.pc = "plan"
  BY <1>1, <1>2 DEF Framed
<1> DEFINE left == IF gone THEN down ELSE Append(down, m)
           end == gone \/ refused \/ todo = {}
<1>8. left = IF gone THEN <<>> ELSE <<m>>
  BY <1>4, <1>5
<1>9. /\ ~end => left = <<Plan(next.todo)>> /\ next.pc = "stat" /\ client.pc = "plan"
      /\ end => next.pc = "done" \/ gone
      /\ next.pc \in {"done", "stat"} /\ (next.pc = "stat" => next.todo # {})
      /\ gone => left = <<>>
      /\ ~gone => client.pc = "plan" /\ (left = <<Abort>> \/ left = <<Plan(todo)>>)
  BY <1>7, <1>8
<1>10. ~FileLast(left)
  <2>1. left = <<>> \/ left = <<Abort>> \/ left = <<Plan(todo)>>
    BY <1>9
  <2> HIDE DEF left
  <2> QED BY <2>1, NoFileLast
<1> HIDE DEF left, end
<1>11. DownloadWire(client, next, <<>>, left, end)
  BY <1>2, <1>9 DEF DownloadWire
<1>12. ~end => DownloadAgree(client, next, <<>>, left)
  BY <1>9 DEF DownloadAgree
<1>13. DownloadLevel(client, next, <<>>, left)
  BY <1>2, <1>4, <1>6, <1>9, <1>10, NoAckFirst DEF DownloadLevel
<1>14. Framed(client, next, left, end) /\ Busy(client, next)
  <2>1. client.pc = "done" => gone /\ left = <<>> /\ end
    BY <1>7, <1>9 DEF end
  <2>2. next.pc = "done" => end \/ client.pc = "done"
    BY DEF end
  <2> QED BY <1>1, <1>2, <1>4, <1>9, <2>1, <2>2 DEF Framed, Busy
<1> QED BY <1>3, <1>11, <1>12, <1>13, <1>14, DownloadInStep DEF left, end

LEMMA FileReadDownload ==
    ASSUME NEW client, NEW thread, NEW up, NEW down, NEW gone \in BOOLEAN,
           InStep(client, thread, up, down, gone), client.dir = "download",
           thread.pc = "stat",
           NEW next, next.pc = "read", next.todo = thread.todo, next.landed = thread.landed
    PROVE  InStep(client, next, up, down, gone)
<1>1. Names(next) = Names(thread)
  BY DEF Names
<1> QED BY <1>1 DEF InStep, Busy, Framed, DownloadWire, DownloadAgree, DownloadLevel

LEMMA FileSentDownload ==
    ASSUME NEW client, NEW thread, NEW up, NEW down, NEW gone \in BOOLEAN,
           InStep(client, thread, up, down, gone), client.dir = "download",
           thread.pc = "read", thread.todo \subseteq Files, NEW m, m.type = "file",
           NEW next, next.pc = "ack", next.todo = thread.todo, next.landed = thread.landed
    PROVE  InStep(client, next, up, IF gone THEN down ELSE Append(down, m), gone)
<1>1. /\ DownloadWire(client, thread, up, down, gone)
      /\ DownloadLevel(client, thread, up, down)
      /\ Framed(client, thread, down, gone) /\ Busy(client, thread)
      /\ ~gone => DownloadAgree(client, thread, up, down)
  BY DownloadParts
<1>2. Names(next) = Names(thread)
  BY DEF Names
<1>3. Names(thread) = client.done /\ ~AckFirst(up) /\ thread.todo # {}
  BY <1>1 DEF DownloadLevel, Busy
<1>4. up = <<>> \/ (client.pc = "done" /\ gone /\ up = <<Abort>>)
  BY <1>1 DEF DownloadWire
<1>5. CASE gone
  <2>1. down = <<>> \/ (client.pc = "plan"
            /\ (down = <<Abort>> \/ \E t \in SUBSET Files : down = <<Plan(t)>>))
    BY <1>1 DEF DownloadWire
  <2>2. ~FileLast(down) /\ client.pc \notin {"replace", "utime"}
    BY <1>1, <2>1, NoFileLast DEF DownloadLevel
  <2>3. DownloadWire(client, next, up, down, gone)
    BY <1>1, <1>4, <1>5, <2>1 DEF DownloadWire
  <2>4. DownloadLevel(client, next, up, down)
    BY <1>1, <1>2, <1>3, <2>2 DEF DownloadLevel
  <2>5. Framed(client, next, down, gone) /\ Busy(client, next)
    BY <1>1, <1>3, <1>5 DEF Framed, Busy
  <2> QED BY <1>5, <2>3, <2>4, <2>5, DownloadInStep
<1>6. CASE ~gone
  <2>1. /\ up = <<>>
        /\ \/ client.pc = "plan" /\ down = <<Plan(thread.todo)>>
           \/ client.pc = "receive" /\ down = <<>> /\ thread.todo = client.todo
    <3>1. client.pc \in {"plan", "receive"}
      BY <1>1, <1>6 DEF DownloadAgree, DownloadWire, Framed
    <3> QED BY <1>1, <1>4, <1>6, <3>1 DEF DownloadAgree
  <2>2. CASE client.pc = "plan" /\ down = <<Plan(thread.todo)>>
    <3>1. Append(down, m) = <<Plan(thread.todo), m>>
      BY <2>2, ShortQueues
    <3>2. DownloadWire(client, next, up, <<Plan(thread.todo), m>>, gone)
      BY <1>1, <1>3, <2>1, <2>2 DEF DownloadWire
    <3>3. DownloadLevel(client, next, up, <<Plan(thread.todo), m>>)
      BY <1>2, <1>3, <2>2 DEF DownloadLevel
    <3>4. DownloadAgree(client, next, up, <<Plan(thread.todo), m>>)
      BY <2>1, <2>2 DEF DownloadAgree
    <3>5. Framed(client, next, <<Plan(thread.todo), m>>, gone) /\ Busy(client, next)
      BY <1>1, <1>3, <2>2 DEF Framed, Busy
    <3> QED BY <1>6, <3>1, <3>2, <3>3, <3>4, <3>5, DownloadInStep
  <2>3. CASE client.pc = "receive" /\ down = <<>> /\ thread.todo = client.todo
    <3>1. Append(down, m) = <<m>>
      BY <2>3, ShortQueues
    <3>2. DownloadWire(client, next, up, <<m>>, gone)
      BY <1>1, <2>1, <2>3 DEF DownloadWire
    <3>3. DownloadLevel(client, next, up, <<m>>)
      BY <1>2, <1>3, <2>3 DEF DownloadLevel
    <3>4. DownloadAgree(client, next, up, <<m>>)
      BY <2>1, <2>3, QueuesDiffer DEF DownloadAgree
    <3>5. Framed(client, next, <<m>>, gone) /\ Busy(client, next)
      BY <1>1, <1>3, <2>3 DEF Framed, Busy
    <3> QED BY <1>6, <3>1, <3>2, <3>3, <3>4, <3>5, DownloadInStep
  <2> QED BY <2>1, <2>2, <2>3
<1> QED BY <1>5, <1>6

LEMMA FileAckedDownload ==
    ASSUME NEW client, NEW thread, NEW up, NEW down, NEW gone \in BOOLEAN,
           InStep(client, thread, up, down, gone), client.dir = "download",
           thread.pc = "ack", up # <<>>, Head(up).type = "ack",
           NEW next, next.pc = "restat", next.todo = thread.todo, next.landed = thread.landed
    PROVE  InStep(client, next, Tail(up), down, gone)
<1>1. /\ DownloadWire(client, thread, up, down, gone)
      /\ DownloadLevel(client, thread, up, down)
      /\ Framed(client, thread, down, gone) /\ Busy(client, thread)
      /\ ~gone => DownloadAgree(client, thread, up, down)
  BY DownloadParts
<1>2. Head(<<Abort>>).type # "ack"
  BY ShortQueues DEF Abort
<1>3. \/ client.pc \in {"receive", "done"} /\ up = <<Ack(TRUE)>>
      \/ client.pc = "done" /\ gone /\ up = <<Ack(TRUE), Abort>>
  BY <1>1, <1>2 DEF DownloadWire
<1>4. AckFirst(up)
  BY <1>3 DEF AckFirst
<1>5. Tail(up) = <<>> \/ (client.pc = "done" /\ gone /\ Tail(up) = <<Abort>>)
  <2>1. Tail(<<Ack(TRUE)>>) = <<>> /\ Tail(<<Ack(TRUE), Abort>>) = <<Abort>>
    BY ShortQueues
  <2> QED BY <1>3, <2>1
<1>6. ~AckFirst(Tail(up))
  BY <1>5, NoAckFirst
<1>7. /\ ~FileLast(down) /\ client.pc \in {"receive", "done"}
      /\ client.done = Names(thread) \cup {First(thread.todo)}
  BY <1>1, <1>3, <1>4 DEF DownloadLevel
<1>8. down = <<>>
  <2>1. ~ \E m : m.type = "file" /\ down = <<m>>
    BY <1>7 DEF FileLast
  <2> QED BY <1>1, <1>7, <2>1 DEF DownloadWire
<1>9. ~gone => client.pc = "receive" /\ Rest(thread.todo) = client.todo /\ Tail(up) = <<>>
  <2>1. ~gone => client.pc = "receive"
    BY <1>1, <1>7 DEF Framed
  <2> QED BY <1>1, <1>5, <1>8, <2>1 DEF DownloadAgree
<1>10. Names(next) = Names(thread)
  BY DEF Names
<1>11. DownloadWire(client, next, Tail(up), down, gone)
  BY <1>1, <1>5, <1>8, <1>7 DEF DownloadWire
<1>12. DownloadLevel(client, next, Tail(up), down)
  BY <1>1, <1>6, <1>7, <1>10 DEF DownloadLevel
<1>13. ~gone => DownloadAgree(client, next, Tail(up), down)
  BY <1>8, <1>9 DEF DownloadAgree
<1>14. Framed(client, next, down, gone) /\ Busy(client, next)
  BY <1>1, <1>7 DEF Framed, Busy
<1> QED BY <1>11, <1>12, <1>13, <1>14, DownloadInStep

LEMMA FileRecordedDownload ==
    ASSUME NEW client, NEW thread, NEW up, NEW down, NEW gone \in BOOLEAN,
           InStep(client, thread, up, down, gone), client.dir = "download",
           thread.pc = "restat", NEW next, MovesOn(client, thread, next),
           Names(next) = Names(thread) \cup {First(thread.todo)}
    PROVE  InStep(client, next, up, down, gone \/ Rest(thread.todo) = {})
<1>1. /\ DownloadWire(client, thread, up, down, gone)
      /\ DownloadLevel(client, thread, up, down)
      /\ Framed(client, thread, down, gone) /\ Busy(client, thread)
      /\ ~gone => DownloadAgree(client, thread, up, down)
  BY DownloadParts
<1>2. /\ client.done = Names(thread) \cup {First(thread.todo)}
      /\ ~FileLast(down) /\ ~AckFirst(up) /\ client.pc \notin {"replace", "utime"}
  BY <1>1 DEF DownloadLevel
<1>3. up = <<>> \/ (client.pc = "done" /\ gone /\ up = <<Abort>>)
  BY <1>1 DEF DownloadWire
<1>4. /\ client.pc \in {"plan", "receive", "done"} /\ client.done # {}
  BY <1>1, <1>2 DEF DownloadWire, Framed
<1>5. client.pc \in {"receive", "done"} /\ down = <<>>
  BY <1>1, <1>4 DEF DownloadWire, Framed
<1>6. ~gone => client.pc = "receive" /\ Rest(thread.todo) = client.todo /\ up = <<>>
  <2>1. ~gone => client.pc = "receive"
    BY <1>1, <1>5 DEF Framed
  <2> QED BY <1>1, <1>3, <2>1 DEF DownloadAgree
<1> DEFINE todo == Rest(thread.todo)
           end == gone \/ todo = {}
<1>7. next.todo = todo /\ (IF todo = {} THEN next.pc = "done" ELSE next.pc = "stat")
  BY DEF MovesOn
<1>8. end <=> gone \/ todo = {}
  OBVIOUS
<1>9. Names(next) = client.done
  BY <1>2
<1>10. ~gone => client.todo = todo
  BY <1>6
<1> HIDE DEF todo, end
<1>11. DownloadWire(client, next, up, down, end)
  BY <1>1, <1>3, <1>5, <1>7, <1>8 DEF DownloadWire
<1>12. DownloadLevel(client, next, up, down)
  BY <1>2, <1>5, <1>7, <1>9 DEF DownloadLevel
<1>13. ~end => DownloadAgree(client, next, up, down)
  BY <1>5, <1>6, <1>7, <1>8, <1>10 DEF DownloadAgree
<1>14. Framed(client, next, down, end) /\ Busy(client, next)
  BY <1>1, <1>5, <1>7, <1>8 DEF Framed, Busy
<1> QED BY <1>11, <1>12, <1>13, <1>14, DownloadInStep DEF todo, end

LEMMA ThreadEndedDownload ==
    ASSUME NEW client, NEW thread, NEW up, NEW down, NEW gone \in BOOLEAN,
           InStep(client, thread, up, down, gone), client.dir = "download",
           NEW next, next.pc = "done", next.landed = thread.landed
    PROVE  InStep(client, next, <<>>, down, gone \/ thread.pc # "done")
<1>1. /\ DownloadWire(client, thread, up, down, gone)
      /\ DownloadLevel(client, thread, up, down)
      /\ Framed(client, thread, down, gone) /\ Busy(client, thread)
  BY DownloadParts
<1>2. Names(next) = Names(thread)
  BY DEF Names
<1>3. DownloadWire(client, next, <<>>, down, gone \/ thread.pc # "done")
  BY <1>1 DEF DownloadWire
<1>4. DownloadLevel(client, next, <<>>, down)
  BY <1>1, <1>2, NoAckFirst DEF DownloadLevel
<1>5. Framed(client, next, down, gone \/ thread.pc # "done") /\ Busy(client, next)
  BY <1>1 DEF Framed, Busy
<1>6. ~gone /\ thread.pc = "done" => client.pc = "done"
  BY <1>1 DEF Framed
<1>7. client.pc = "done" => DownloadAgree(client, next, <<>>, down)
  BY DEF DownloadAgree
<1> QED BY <1>3, <1>4, <1>5, <1>6, <1>7, DownloadInStep

LEMMA BrokenDownload ==
    ASSUME NEW client, NEW thread, NEW up, NEW down, NEW gone \in BOOLEAN,
           InStep(client, thread, up, down, gone), client.dir = "download"
    PROVE  InStep(client, thread, <<>>, <<>>, TRUE)
BY NoAckFirst, NoFileLast DEF InStep, Busy, Framed, DownloadWire, DownloadLevel

-----------------------------------------------------------------------------
(* The actions keep the two ends in step.                                  *)
Alone(c) ==
    \A e \in Conns \ {c} : /\ cl'[e] = cl[e] /\ dm'[e] = dm[e]
                           /\ toD'[e] = toD[e] /\ toC'[e] = toC[e] /\ cut'[e] = cut[e]

LEMMA OneMoves ==
    ASSUME Lockstep, NEW c \in Conns, Alone(c),
           InStep(cl'[c], dm'[c], toD'[c], toC'[c], cut'[c])
    PROVE  Lockstep'
<1> SUFFICES ASSUME NEW e \in Conns PROVE InStep(cl'[e], dm'[e], toD'[e], toC'[e], cut'[e])
  BY DEF Lockstep
<1>1. CASE e = c
  BY <1>1
<1>2. CASE e # c
  BY <1>2 DEF Lockstep, Alone
<1> QED BY <1>1, <1>2

LEMMA WhereTheyAre ==
    ASSUME NEW client, NEW thread, NEW up, NEW down, NEW gone \in BOOLEAN,
           InStep(client, thread, up, down, gone)
    PROVE  /\ client.dir = "upload" =>
                /\ client.pc \in {"plan", "stat", "read", "ack", "done"}
                /\ thread.pc \in {"manifest", "receive", "replace", "utime", "history", "record",
                                  "failed", "done"}
           /\ client.dir = "download" =>
                /\ client.pc \in {"manifest", "plan", "receive", "replace", "utime", "done"}
                /\ thread.pc \in {"scan", "manifest", "stat", "read", "ack", "restat", "done"}
BY DEF InStep, UploadWire, DownloadWire

LEMMA ReadByClient ==
    ASSUME NEW client, NEW thread, NEW up, NEW down, NEW gone \in BOOLEAN,
           InStep(client, thread, up, down, gone), client.dir = "upload", down # <<>>
    PROVE  /\ client.pc = "plan" /\ Head(down).type = "plan" =>
                down = <<Plan(Head(down).todo)>> /\ Tail(down) = <<>>
                /\ Head(down).todo \in SUBSET Files
           /\ client.pc = "ack" /\ Head(down).ok => down = <<Ack(TRUE)>> /\ Tail(down) = <<>>
<1>1. /\ client.pc = "plan" => down = <<Abort>> \/ \E t \in SUBSET Files : down = <<Plan(t)>>
      /\ client.pc = "ack" => \E ok \in BOOLEAN : down = <<Ack(ok)>>
  BY DEF InStep, UploadWire
<1>2. Head(<<Abort>>).type # "plan"
  BY ShortQueues DEF Abort
<1>3. ASSUME client.pc = "plan", Head(down).type = "plan"
      PROVE  /\ down = <<Plan(Head(down).todo)>> /\ Tail(down) = <<>>
             /\ Head(down).todo \in SUBSET Files
  <2>1. PICK t \in SUBSET Files : down = <<Plan(t)>>
    BY <1>1, <1>2, <1>3
  <2>2. Head(down) = Plan(t) /\ Tail(down) = <<>>
    BY <2>1, ShortQueues
  <2> QED BY <2>1, <2>2 DEF Plan
<1>4. ASSUME client.pc = "ack", Head(down).ok PROVE down = <<Ack(TRUE)>> /\ Tail(down) = <<>>
  <2>1. PICK ok \in BOOLEAN : down = <<Ack(ok)>>
    BY <1>1, <1>4
  <2>2. Head(down) = Ack(ok) /\ Tail(down) = <<>>
    BY <2>1, ShortQueues
  <2>3. Ack(ok).ok = ok
    BY DEF Ack
  <2>4. ok = TRUE
    BY <1>4, <2>2, <2>3
  <2> QED BY <2>1, <2>2, <2>4
<1> QED BY <1>3, <1>4

LEMMA PlanReadUpload ==
    ASSUME NEW client, NEW thread, NEW up, NEW down, NEW gone \in BOOLEAN,
           InStep(client, thread, up, down, gone), client.dir = "upload", client.pc = "plan",
           down # <<>>, Head(down).type = "plan", NEW t, t = Head(down).todo,
           NEW next, GoesOn(client, next, t, {})
    PROVE  InStep(next, thread, up, Tail(down), gone \/ t = {})
<1>1. down = <<Plan(t)>> /\ Tail(down) = <<>> /\ t \in SUBSET Files
  BY ReadByClient
<1>2. InStep(next, thread, up, <<>>, gone \/ t = {})
  BY <1>1, PlanTakenUpload
<1> QED BY <1>1, <1>2

LEMMA AckReadUpload ==
    ASSUME NEW client, NEW thread, NEW up, NEW down, NEW gone \in BOOLEAN,
           InStep(client, thread, up, down, gone), client.dir = "upload", client.pc = "ack",
           down # <<>>, Head(down).ok, NEW todo, todo = Rest(client.todo), NEW next,
           GoesOn(client, next, todo, client.done \cup {First(client.todo)})
    PROVE  InStep(next, thread, up, Tail(down), gone \/ todo = {})
<1>1. down = <<Ack(TRUE)>> /\ Tail(down) = <<>>
  BY ReadByClient
<1>2. InStep(next, thread, up, <<>>, gone \/ todo = {})
  BY <1>1, AckTakenUpload
<1> QED BY <1>1, <1>2

LEMMA ClientGoneOn ==
    ASSUME Types, NEW c \in Conns, NEW todo, NEW done, ClientGoesOn(c, todo, done)
    PROVE  /\ GoesOn(cl[c], cl'[c], todo, done)
           /\ cut'[c] = (cut[c] \/ todo = {})
           /\ \A e \in Conns \ {c} : cl'[e] = cl[e] /\ cut'[e] = cut[e]
<1>1. cl \in [Conns -> Clients(clock)] /\ cut \in [Conns -> BOOLEAN]
  BY TypeParts DEF Types
<1>2. cl[c] \in Clients(clock)
  BY <1>1
<1> DEFINE tmp == todo # {} /\ ~Uploads(c)
           stage == IF todo = {} THEN "done" ELSE IF Uploads(c) THEN "stat" ELSE "receive"
           next == [cl[c] EXCEPT !.todo = todo, !.done = done, !.meta = Absent, !.data = Absent,
                                 !.tmp = tmp, !.pc = stage]
<1>3. cl' = [cl EXCEPT ![c] = next] /\ cut' = [cut EXCEPT ![c] = @ \/ todo = {}]
  BY DEF ClientGoesOn
<1> HIDE DEF tmp, stage
<1>4. next.dir = cl[c].dir /\ next.todo = todo /\ next.done = done /\ next.pc = stage
  BY <1>2 DEF Clients
<1> HIDE DEF next
<1>5. cl'[c] = next
  BY <1>1, <1>3
<1> QED BY <1>1, <1>3, <1>4, <1>5 DEF GoesOn, stage, Uploads

LEMMA ClientGaveUp ==
    ASSUME Types, NEW c \in Conns, ClientGivesUp(c)
    PROVE  /\ cl'[c].pc = "done" /\ cl'[c].dir = cl[c].dir /\ cl'[c].done = cl[c].done
           /\ cut'[c] = TRUE /\ toC'[c] = <<>> /\ dm'[c] = dm[c]
           /\ toD'[c] = IF cl[c].pc \in {"manifest", "plan"} \/ cut[c] THEN toD[c]
                        ELSE Append(toD[c], Abort)
           /\ Alone(c)
<1>1. /\ cl \in [Conns -> Clients(clock)] /\ cut \in [Conns -> BOOLEAN]
      /\ toD \in [Conns -> Seq(Frames(clock))] /\ toC \in [Conns -> Seq(Frames(clock))]
  BY TypeParts DEF Types
<1> DEFINE next == [IdleClient EXCEPT !.dir = cl[c].dir, !.done = cl[c].done]
<1>2. next.pc = "done" /\ next.dir = cl[c].dir /\ next.done = cl[c].done
  BY DEF IdleClient
<1>3. cl' = [cl EXCEPT ![c] = next]
  BY DEF ClientGivesUp
<1> HIDE DEF next
<1>4. cl'[c] = next /\ \A e \in Conns \ {c} : cl'[e] = cl[e]
  BY <1>1, <1>3
<1>5. /\ toD'[c] = IF cl[c].pc \in {"manifest", "plan"} \/ cut[c] THEN toD[c]
                   ELSE Append(toD[c], Abort)
      /\ \A e \in Conns \ {c} : toD'[e] = toD[e]
  <2>1. CASE cl[c].pc \in {"manifest", "plan"}
    BY <2>1 DEF ClientGivesUp
  <2>2. CASE cl[c].pc \notin {"manifest", "plan"}
    <3>1. toD' = [toD EXCEPT ![c] = IF cut[c] THEN @ ELSE Append(@, Abort)]
      BY <2>2 DEF ClientGivesUp, SendD
    <3> QED BY <1>1, <2>2, <3>1
  <2> QED BY <2>1, <2>2
<1>6. /\ cut'[c] = TRUE /\ toC'[c] = <<>>
      /\ \A e \in Conns \ {c} : toC'[e] = toC[e] /\ cut'[e] = cut[e]
  BY <1>1 DEF ClientGivesUp, HangUp
<1> QED BY <1>2, <1>4, <1>5, <1>6 DEF ClientGivesUp, Alone

LEMMA GivingUpKeepsStep ==
    ASSUME Types, Lockstep, NEW c \in Conns, ClientGivesUp(c), ~Client(c, "done")
    PROVE  Lockstep'
<1>1. InStep(cl[c], dm[c], toD[c], toC[c], cut[c]) /\ cut[c] \in BOOLEAN
  BY TypeParts DEF Lockstep, Types
<1>2. cl[c].dir = "upload" \/ cl[c].dir = "download"
  BY TypeParts DEF Types
<1>3. InStep(cl'[c], dm[c], toD'[c], <<>>, TRUE)
  <2>1. /\ cl[c].pc # "done"
        /\ cl'[c].pc = "done" /\ cl'[c].dir = cl[c].dir /\ cl'[c].done = cl[c].done
        /\ toD'[c] = IF cl[c].pc \in {"manifest", "plan"} \/ cut[c] THEN toD[c]
                     ELSE Append(toD[c], Abort)
    BY ClientGaveUp DEF Client
  <2>2. CASE cl[c].dir = "upload"
    BY <1>1, <2>1, <2>2, GivenUpUpload
  <2>3. CASE cl[c].dir = "download"
    BY <1>1, <2>1, <2>3, GivenUpDownload
  <2> QED BY <1>2, <2>2, <2>3
<1> QED BY <1>3, ClientGaveUp, OneMoves

LEMMA ClientKeepsStep ==
    ASSUME Types, Lockstep, NEW c \in Conns, ClientStep(c)
    PROVE  Lockstep'
<1>1. /\ cl \in [Conns -> Clients(clock)] /\ cut \in [Conns -> BOOLEAN]
      /\ dm \in [Conns -> ServerThreads(clock)]
      /\ toD \in [Conns -> Seq(Frames(clock))] /\ toC \in [Conns -> Seq(Frames(clock))]
      /\ cl[c] \in Clients(clock) /\ cut[c] \in BOOLEAN
      /\ cl[c].dir \in {"upload", "download"}
  BY TypeParts DEF Types
<1>2. InStep(cl[c], dm[c], toD[c], toC[c], cut[c])
  BY DEF Lockstep
<1>3. /\ cl[c].dir = "upload" => cl[c].pc \in {"plan", "stat", "read", "ack", "done"}
      /\ cl[c].dir = "download" =>
            cl[c].pc \in {"manifest", "plan", "receive", "replace", "utime", "done"}
  BY <1>1, <1>2, WhereTheyAre
<1>4. CASE AnswerManifest(c)
  <2>1. cl[c].pc = "manifest" /\ toC[c] # <<>> /\ cl[c].dir = "download"
    BY <1>1, <1>3, <1>4 DEF AnswerManifest, Client, HearsC
  <2>2. /\ cl'[c].pc = "plan" /\ cl'[c].dir = cl[c].dir /\ cl'[c].todo = cl[c].todo
        /\ cl'[c].done = cl[c].done
    BY <1>1, <1>4 DEF AnswerManifest, Clients
  <2>3. /\ toD'[c] = IF cut[c] THEN toD[c] ELSE Append(toD[c], Manifest(local))
        /\ toC'[c] = Tail(toC[c]) /\ dm'[c] = dm[c] /\ cut'[c] = cut[c]
    BY <1>1, <1>4 DEF AnswerManifest, SendD, TakeC
  <2>4. Alone(c)
    BY <1>1, <1>4 DEF AnswerManifest, SendD, TakeC, Alone
  <2>5. InStep(cl'[c], dm'[c], toD'[c], toC'[c], cut'[c])
    BY <1>1, <1>2, <2>1, <2>2, <2>3, ManifestAnswered
  <2> QED BY <2>4, <2>5, OneMoves
<1>5. CASE TakePlan(c)
  <2> DEFINE t == Head(toC[c]).todo
  <2>1. /\ cl[c].pc = "plan" /\ toC[c] # <<>> /\ Head(toC[c]).type = "plan"
        /\ ClientGoesOn(c, t, {})
    BY <1>5 DEF TakePlan, Client, HearsC
  <2> HIDE DEF t
  <2>2. /\ GoesOn(cl[c], cl'[c], t, {}) /\ cut'[c] = (cut[c] \/ t = {})
        /\ \A e \in Conns \ {c} : cl'[e] = cl[e] /\ cut'[e] = cut[e]
    BY <2>1, ClientGoneOn
  <2>3. toC'[c] = Tail(toC[c]) /\ dm'[c] = dm[c] /\ toD'[c] = toD[c]
    BY <1>1, <1>5 DEF TakePlan, TakeC
  <2>4. Alone(c)
    BY <1>1, <1>5, <2>2 DEF TakePlan, TakeC, Alone
  <2>5. InStep(cl'[c], dm'[c], toD'[c], toC'[c], cut'[c])
    <3>1. /\ InStep(cl[c], dm[c], toD[c], toC[c], cut[c]) /\ cut[c] \in BOOLEAN
          /\ cl[c].pc = "plan" /\ toC[c] # <<>> /\ Head(toC[c]).type = "plan"
          /\ t = Head(toC[c]).todo /\ GoesOn(cl[c], cl'[c], t, {})
      BY <1>1, <1>2, <2>1, <2>2 DEF t
    <3>2. cl[c].dir = "upload" =>
            InStep(cl'[c], dm[c], toD[c], Tail(toC[c]), cut[c] \/ t = {})
      BY <3>1, PlanReadUpload
    <3>3. cl[c].dir = "download" =>
            InStep(cl'[c], dm[c], toD[c], Tail(toC[c]), cut[c] \/ t = {})
      BY <3>1, PlanTakenDownload
    <3> QED BY <1>1, <2>2, <2>3, <3>2, <3>3
  <2> QED BY <2>4, <2>5, OneMoves
<1>6. CASE ClientStat(c)
  <2>1. cl[c].pc = "stat" /\ cl[c].dir = "upload"
    BY <1>1, <1>3, <1>6 DEF ClientStat, Client
  <2>2. /\ cl'[c].pc = "read" /\ cl'[c].dir = cl[c].dir /\ cl'[c].todo = cl[c].todo
        /\ cl'[c].done = cl[c].done
    BY <1>1, <1>6 DEF ClientStat, Clients
  <2>3. /\ toD'[c] = toD[c] /\ toC'[c] = toC[c] /\ dm'[c] = dm[c] /\ cut'[c] = cut[c]
    BY <1>6 DEF ClientStat, wire
  <2>4. Alone(c)
    BY <1>1, <1>6 DEF ClientStat, wire, Alone
  <2>5. InStep(cl'[c], dm'[c], toD'[c], toC'[c], cut'[c])
    BY <1>1, <1>2, <2>1, <2>2, <2>3, FileReadUpload
  <2> QED BY <2>4, <2>5, OneMoves
<1>7. CASE ClientSends(c)
  <2> DEFINE m == FileFrames(local[CurrentOfClient(c)], cl[c].meta)
  <2>1. cl[c].pc = "read" /\ cl[c].dir = "upload" /\ m.type = "file"
    BY <1>1, <1>3, <1>7 DEF ClientSends, Client, FileFrames
  <2>2. /\ cl'[c].pc = "ack" /\ cl'[c].dir = cl[c].dir /\ cl'[c].todo = cl[c].todo
        /\ cl'[c].done = cl[c].done
    BY <1>1, <1>7 DEF ClientSends, Clients
  <2>3. SendD(c, m) /\ UNCHANGED <<dm, toC, cut>> /\ cl' = [cl EXCEPT ![c].pc = "ack"]
    BY <1>7 DEF ClientSends
  <2> HIDE DEF m
  <2>4. /\ toD'[c] = IF cut[c] THEN toD[c] ELSE Append(toD[c], m)
        /\ toC'[c] = toC[c] /\ dm'[c] = dm[c] /\ cut'[c] = cut[c]
    BY <1>1, <2>3 DEF SendD
  <2>5. Alone(c)
    BY <1>1, <2>3 DEF SendD, Alone
  <2>6. InStep(cl'[c], dm'[c], toD'[c], toC'[c], cut'[c])
    <3>1. InStep(cl'[c], dm[c], IF cut[c] THEN toD[c] ELSE Append(toD[c], m), toC[c], cut[c])
      BY <1>1, <1>2, <2>1, <2>2, FileSentUpload
    <3> QED BY <2>4, <3>1
  <2> QED BY <2>5, <2>6, OneMoves
<1>8. CASE ClientAcked(c)
  <2> DEFINE todo == Rest(cl[c].todo)
             done == cl[c].done \cup {First(cl[c].todo)}
  <2>1. /\ cl[c].pc = "ack" /\ toC[c] # <<>> /\ Head(toC[c]).ok /\ cl[c].dir = "upload"
        /\ ClientGoesOn(c, todo, done)
    BY <1>1, <1>3, <1>8 DEF ClientAcked, Client, HearsC, CurrentOfClient
  <2> HIDE DEF todo, done
  <2>2. /\ GoesOn(cl[c], cl'[c], todo, done) /\ cut'[c] = (cut[c] \/ todo = {})
        /\ \A e \in Conns \ {c} : cl'[e] = cl[e] /\ cut'[e] = cut[e]
    BY <2>1, ClientGoneOn
  <2>3. toC'[c] = Tail(toC[c]) /\ dm'[c] = dm[c] /\ toD'[c] = toD[c]
    BY <1>1, <1>8 DEF ClientAcked, TakeC
  <2>4. Alone(c)
    BY <1>1, <1>8, <2>2 DEF ClientAcked, TakeC, Alone
  <2>5. /\ InStep(cl[c], dm[c], toD[c], toC[c], cut[c]) /\ cut[c] \in BOOLEAN
        /\ cl[c].pc = "ack" /\ cl[c].dir = "upload" /\ toC[c] # <<>> /\ Head(toC[c]).ok
        /\ todo = Rest(cl[c].todo)
        /\ GoesOn(cl[c], cl'[c], todo, cl[c].done \cup {First(cl[c].todo)})
    BY <1>1, <1>2, <2>1, <2>2 DEF todo, done
  <2>6. InStep(cl'[c], dm'[c], toD'[c], toC'[c], cut'[c])
    <3>1. InStep(cl'[c], dm[c], toD[c], Tail(toC[c]), cut[c] \/ todo = {})
      BY <2>5, AckReadUpload
    <3> QED BY <2>2, <2>3, <3>1
  <2> QED BY <2>4, <2>6, OneMoves
<1>9. CASE ClientReceives(c)
  <2>1. cl[c].pc = "receive" /\ cl[c].dir = "download" /\ toC[c] # <<>>
    BY <1>1, <1>3, <1>9 DEF ClientReceives, Client, HearsC
  <2>2. /\ cl'[c].pc = "replace" /\ cl'[c].dir = cl[c].dir /\ cl'[c].todo = cl[c].todo
        /\ cl'[c].done = cl[c].done
    BY <1>1, <1>9 DEF ClientReceives, Clients
  <2>3. /\ toD'[c] = toD[c] /\ toC'[c] = Tail(toC[c]) /\ dm'[c] = dm[c] /\ cut'[c] = cut[c]
    BY <1>1, <1>9 DEF ClientReceives, TakeC
  <2>4. Alone(c)
    BY <1>1, <1>9 DEF ClientReceives, TakeC, Alone
  <2>5. InStep(cl'[c], dm'[c], toD'[c], toC'[c], cut'[c])
    BY <1>1, <1>2, <2>1, <2>2, <2>3, FileTakenDownload
  <2> QED BY <2>4, <2>5, OneMoves
<1>10. CASE ClientReplaces(c)
  <2>1. cl[c].pc = "replace" /\ cl[c].dir = "download"
    BY <1>1, <1>3, <1>10 DEF ClientReplaces, Client
  <2>2. /\ cl'[c].pc = "utime" /\ cl'[c].dir = cl[c].dir /\ cl'[c].todo = cl[c].todo
        /\ cl'[c].done = cl[c].done
    BY <1>1, <1>10 DEF ClientReplaces, Clients
  <2>3. /\ toD'[c] = toD[c] /\ toC'[c] = toC[c] /\ dm'[c] = dm[c] /\ cut'[c] = cut[c]
    BY <1>10 DEF ClientReplaces, wire
  <2>4. Alone(c)
    BY <1>1, <1>10 DEF ClientReplaces, wire, Alone
  <2>5. InStep(cl'[c], dm'[c], toD'[c], toC'[c], cut'[c])
    BY <1>1, <1>2, <2>1, <2>2, <2>3, FileReplacedDownload
  <2> QED BY <2>4, <2>5, OneMoves
<1>11. CASE ClientUtime(c)
  <2> DEFINE todo == Rest(cl[c].todo)
             done == cl[c].done \cup {First(cl[c].todo)}
  <2>1. /\ cl[c].pc = "utime" /\ cl[c].dir = "download" /\ ClientGoesOn(c, todo, done)
        /\ SendD(c, Ack(TRUE)) /\ UNCHANGED <<dm, toC>>
    BY <1>1, <1>3, <1>11 DEF ClientUtime, Client, CurrentOfClient
  <2> HIDE DEF todo, done
  <2>2. /\ GoesOn(cl[c], cl'[c], todo, done) /\ cut'[c] = (cut[c] \/ todo = {})
        /\ \A e \in Conns \ {c} : cl'[e] = cl[e] /\ cut'[e] = cut[e]
    BY <2>1, ClientGoneOn
  <2>3. /\ toD'[c] = IF cut[c] THEN toD[c] ELSE Append(toD[c], Ack(TRUE))
        /\ dm'[c] = dm[c] /\ toC'[c] = toC[c]
    BY <1>1, <2>1 DEF SendD
  <2>4. Alone(c)
    BY <1>1, <2>1, <2>2 DEF SendD, Alone
  <2>5. InStep(cl'[c], dm'[c], toD'[c], toC'[c], cut'[c])
    <3>1. GoesOn(cl[c], cl'[c], Rest(cl[c].todo), cl[c].done \cup {First(cl[c].todo)})
      BY <2>2 DEF todo, done
    <3>2. InStep(cl'[c], dm[c], IF cut[c] THEN toD[c] ELSE Append(toD[c], Ack(TRUE)), toC[c],
                 cut[c] \/ Rest(cl[c].todo) = {})
      BY <1>1, <1>2, <2>1, <3>1, FileCountedDownload
    <3> QED BY <2>2, <2>3, <3>2 DEF todo
  <2> QED BY <2>4, <2>5, OneMoves
<1>12. CASE ClientFails(c)
  BY <1>12, GivingUpKeepsStep DEF ClientFails, Client
<1> QED BY <1>4, <1>5, <1>6, <1>7, <1>8, <1>9, <1>10, <1>11, <1>12 DEF ClientStep

LEMMA ThreadGoneOn ==
    ASSUME Types, NEW c \in Conns, NEW landed, ThreadGoesOn(c, landed)
    PROVE  /\ MovesOn(cl[c], dm[c], dm'[c]) /\ dm'[c].landed = landed
           /\ cut'[c] = (cut[c] \/ Rest(dm[c].todo) = {})
           /\ \A e \in Conns \ {c} : dm'[e] = dm[e] /\ cut'[e] = cut[e]
<1>1. dm \in [Conns -> ServerThreads(clock)] /\ cut \in [Conns -> BOOLEAN]
  BY TypeParts DEF Types
<1>2. dm[c] \in ServerThreads(clock)
  BY <1>1
<1> DEFINE todo == Rest(dm[c].todo)
           tmp == Uploads(c) /\ todo # {}
           old == IF todo = {} THEN 0 ELSE remote[First(todo)].id
           stage == IF todo = {} THEN "done" ELSE IF Uploads(c) THEN "receive" ELSE "stat"
           next == [dm[c] EXCEPT !.todo = todo, !.landed = landed, !.meta = Absent,
                                 !.data = Absent, !.old = old, !.tmp = tmp, !.pc = stage]
<1>3. dm' = [dm EXCEPT ![c] = next] /\ cut' = [cut EXCEPT ![c] = @ \/ todo = {}]
  BY DEF ThreadGoesOn
<1> HIDE DEF todo, tmp, old, stage
<1>4. next.todo = todo /\ next.landed = landed /\ next.pc = stage
  BY <1>2 DEF ServerThreads
<1> HIDE DEF next
<1>5. dm'[c] = next
  BY <1>1, <1>3
<1>6. cut'[c] = (cut[c] \/ todo = {})
  BY <1>1, <1>3
<1>7. MovesOn(cl[c], dm[c], dm'[c])
  BY <1>4, <1>5 DEF MovesOn, stage, todo, Uploads
<1> QED BY <1>1, <1>3, <1>4, <1>5, <1>6, <1>7 DEF todo

LEMMA OneMoreLanded ==
    ASSUME NEW thread, NEW next, NEW l, next.landed = thread.landed \cup {l}
    PROVE  Names(next) = Names(thread) \cup {l.file}
BY DEF Names

LEMMA JudgeKeepsStep ==
    ASSUME Types, Lockstep, NEW c \in Conns, Judge(c)
    PROVE  Lockstep'
<1>1. /\ dm \in [Conns -> ServerThreads(clock)] /\ cut \in [Conns -> BOOLEAN]
      /\ toD \in [Conns -> Seq(Frames(clock))] /\ toC \in [Conns -> Seq(Frames(clock))]
      /\ dm[c] \in ServerThreads(clock) /\ cut[c] \in BOOLEAN
      /\ cl[c].dir \in {"upload", "download"}
  BY TypeParts DEF Types
<1> DEFINE here == Head(toD[c]).entries
           there == IF Uploads(c) THEN remote ELSE dm[c].seen
<1>2. PICK todo, same, refused : Judgement(c, here, there, todo, same, refused)
  BY JudgeEffect
<1>3. todo \in SUBSET Files /\ refused \in BOOLEAN
  BY <1>2 DEF Judgement
<1> DEFINE stage == IF refused \/ todo = {} THEN "done"
                 ELSE IF Uploads(c) THEN "receive" ELSE "stat"
           plan == IF refused THEN {} ELSE todo
           old == IF todo = {} THEN 0 ELSE remote[First(todo)].id
           tmp == Uploads(c) /\ ~refused /\ todo # {}
           skipped == {<<f, here[f].id, there[f].id>> : f \in same}
           next == [dm[c] EXCEPT !.pc = stage, !.todo = plan, !.old = old, !.tmp = tmp,
                                 !.skipped = skipped]
           m == IF refused THEN Abort ELSE Plan(todo)
<1>4. /\ dm' = [dm EXCEPT ![c] = next]
      /\ cut' = [cut EXCEPT ![c] = @ \/ refused \/ todo = {}] /\ SendC(c, m)
  BY <1>2 DEF Judgement
<1> HIDE DEF here, there, stage, plan, old, tmp, skipped, m
<1>5. next.pc = stage /\ next.todo = plan /\ next.landed = dm[c].landed
  BY <1>1 DEF ServerThreads
<1> HIDE DEF next
<1>6. dm'[c] = next /\ cut'[c] = (cut[c] \/ refused \/ todo = {})
  BY <1>1, <1>4
<1>7. /\ toC'[c] = IF cut[c] THEN toC[c] ELSE Append(toC[c], m)
      /\ toD'[c] = Tail(toD[c]) /\ cl'[c] = cl[c]
      /\ Alone(c)
  BY <1>1, <1>4 DEF Judge, SendC, TakeD, Alone
<1>8. /\ InStep(cl[c], dm[c], toD[c], toC[c], cut[c]) /\ cut[c] \in BOOLEAN
      /\ dm[c].pc = "manifest" /\ toD[c] # <<>>
      /\ next.todo = (IF refused THEN {} ELSE todo) /\ next.landed = dm[c].landed
      /\ m = IF refused THEN Abort ELSE Plan(todo)
  BY <1>1, <1>5 DEF Lockstep, Judge, Thread, HearsD, plan, m
<1>9. InStep(cl[c], next, Tail(toD[c]), IF cut[c] THEN toC[c] ELSE Append(toC[c], m),
             cut[c] \/ refused \/ todo = {})
  <2>1. CASE cl[c].dir = "upload"
    <3>1. next.pc = IF refused \/ todo = {} THEN "done" ELSE "receive"
      BY <1>5, <2>1 DEF stage, Uploads
    <3> QED BY <1>3, <1>8, <2>1, <3>1, JudgedUpload
  <2>2. CASE cl[c].dir = "download"
    <3>1. next.pc = IF refused \/ todo = {} THEN "done" ELSE "stat"
      BY <1>5, <2>2 DEF stage, Uploads
    <3> QED BY <1>3, <1>8, <2>2, <3>1, JudgedDownload
  <2> QED BY <1>1, <2>1, <2>2
<1> QED BY <1>6, <1>7, <1>9, OneMoves

LEMMA ThreadKeepsStep ==
    ASSUME Types, Lockstep, NEW c \in Conns, ThreadStep(c)
    PROVE  Lockstep'
<1>1. /\ dm \in [Conns -> ServerThreads(clock)] /\ cut \in [Conns -> BOOLEAN]
      /\ toD \in [Conns -> Seq(Frames(clock))] /\ toC \in [Conns -> Seq(Frames(clock))]
      /\ dm[c] \in ServerThreads(clock) /\ cut[c] \in BOOLEAN
      /\ cl[c].dir \in {"upload", "download"} /\ dm[c].todo \subseteq Files
  BY TypeParts DEF Types
<1>2. InStep(cl[c], dm[c], toD[c], toC[c], cut[c])
  BY DEF Lockstep
<1>3. /\ cl[c].dir = "upload" =>
            dm[c].pc \in {"manifest", "receive", "replace", "utime", "history", "record",
                          "failed", "done"}
      /\ cl[c].dir = "download" =>
            dm[c].pc \in {"scan", "manifest", "stat", "read", "ack", "restat", "done"}
  BY <1>1, <1>2, WhereTheyAre
<1>4. CASE Scan(c)
  <2>1. dm[c].pc = "scan" /\ cl[c].dir = "download"
    BY <1>1, <1>3, <1>4 DEF Scan, Thread
  <2>2. dm'[c].pc = "manifest" /\ dm'[c].todo = dm[c].todo /\ dm'[c].landed = dm[c].landed
    BY <1>1, <1>4 DEF Scan, ServerThreads
  <2>3. /\ toC'[c] = IF cut[c] THEN toC[c] ELSE Append(toC[c], Manifest(remote))
        /\ toD'[c] = toD[c] /\ cl'[c] = cl[c] /\ cut'[c] = cut[c] /\ Alone(c)
    BY <1>1, <1>4 DEF Scan, SendC, Alone
  <2>4. InStep(cl[c], dm'[c], toD[c],
               IF cut[c] THEN toC[c] ELSE Append(toC[c], Manifest(remote)), cut[c])
    BY <1>1, <1>2, <2>1, <2>2, ScannedDownload
  <2> QED BY <2>3, <2>4, OneMoves
<1>5. CASE Judge(c)
  BY <1>5, JudgeKeepsStep
<1>6. CASE ThreadReceives(c)
  <2>1. /\ dm[c].pc = "receive" /\ cl[c].dir = "upload" /\ toD[c] # <<>>
        /\ Head(toD[c]).type = "file"
    BY <1>1, <1>3, <1>6 DEF ThreadReceives, Thread, HearsD
  <2>2. dm'[c].pc = "replace" /\ dm'[c].todo = dm[c].todo /\ dm'[c].landed = dm[c].landed
    BY <1>1, <1>6 DEF ThreadReceives, ServerThreads
  <2>3. /\ toC'[c] = toC[c] /\ toD'[c] = Tail(toD[c]) /\ cl'[c] = cl[c] /\ cut'[c] = cut[c]
        /\ Alone(c)
    BY <1>1, <1>6 DEF ThreadReceives, TakeD, Alone
  <2>4. InStep(cl[c], dm'[c], Tail(toD[c]), toC[c], cut[c])
    BY <1>1, <1>2, <2>1, <2>2, FileTakenUpload
  <2> QED BY <2>3, <2>4, OneMoves
<1>7. CASE ThreadReplaces(c)
  <2> DEFINE l == [file |-> First(dm[c].todo), over |-> remote[First(dm[c].todo)].id,
                   old |-> dm[c].old, new |-> dm[c].data.id]
  <2>1. dm[c].pc = "replace" /\ cl[c].dir = "upload"
    BY <1>1, <1>3, <1>7 DEF ThreadReplaces, Thread
  <2>2. dm' = [dm EXCEPT ![c].pc = "utime", ![c].tmp = FALSE, ![c].landed = @ \cup {l}]
    BY <1>7 DEF ThreadReplaces, CurrentOfThread
  <2>3. l.file = First(dm[c].todo)
    OBVIOUS
  <2> HIDE DEF l
  <2>4. /\ dm'[c].pc = "utime" /\ dm'[c].todo = dm[c].todo
        /\ dm'[c].landed = dm[c].landed \cup {l}
    BY <1>1, <2>2 DEF ServerThreads
  <2>5. Names(dm'[c]) = Names(dm[c]) \cup {First(dm[c].todo)}
    <3>1. Names(dm'[c]) = Names(dm[c]) \cup {l.file}
      BY <2>4, OneMoreLanded
    <3> QED BY <2>3, <3>1
  <2>6. /\ toC'[c] = toC[c] /\ toD'[c] = toD[c] /\ cl'[c] = cl[c] /\ cut'[c] = cut[c]
    BY <1>7 DEF ThreadReplaces, wire
  <2>7. Alone(c)
    BY <1>1, <1>7, <2>2 DEF ThreadReplaces, wire, Alone
  <2>8. InStep(cl[c], dm'[c], toD[c], toC[c], cut[c])
    BY <1>1, <1>2, <2>1, <2>4, <2>5, FileLandedUpload
  <2> QED BY <2>6, <2>7, <2>8, OneMoves
<1>8. CASE ThreadUtime(c) \/ History(c)
  <2>1. dm[c].pc \in {"utime", "history"} /\ cl[c].dir = "upload"
    BY <1>1, <1>3, <1>8 DEF ThreadUtime, History, Thread
  <2>2. /\ dm'[c].pc \in {"history", "record"} /\ dm'[c].todo = dm[c].todo
        /\ dm'[c].landed = dm[c].landed
    BY <1>1, <1>8 DEF ThreadUtime, History, ServerThreads
  <2>3. /\ toC'[c] = toC[c] /\ toD'[c] = toD[c] /\ cl'[c] = cl[c] /\ cut'[c] = cut[c]
        /\ Alone(c)
    BY <1>1, <1>8 DEF ThreadUtime, History, wire, Alone
  <2>4. InStep(cl[c], dm'[c], toD[c], toC[c], cut[c])
    <3>1. InStep(cl[c], dm[c], toD[c], toC[c], cut[c]) /\ cut[c] \in BOOLEAN
      BY <1>1, <1>2
    <3> QED BY <2>1, <2>2, <3>1, FileFinishedUpload
  <2> QED BY <2>3, <2>4, OneMoves
<1>9. CASE Record(c)
  <2>1. /\ dm[c].pc = "record" /\ cl[c].dir = "upload" /\ ThreadGoesOn(c, dm[c].landed)
        /\ SendC(c, Ack(TRUE)) /\ UNCHANGED <<cl, toD>>
    BY <1>1, <1>3, <1>9 DEF Record, Thread
  <2>2. /\ MovesOn(cl[c], dm[c], dm'[c]) /\ dm'[c].landed = dm[c].landed
        /\ cut'[c] = (cut[c] \/ Rest(dm[c].todo) = {})
        /\ \A e \in Conns \ {c} : dm'[e] = dm[e] /\ cut'[e] = cut[e]
    BY <2>1, ThreadGoneOn
  <2>3. /\ toC'[c] = IF cut[c] THEN toC[c] ELSE Append(toC[c], Ack(TRUE))
        /\ toD'[c] = toD[c] /\ cl'[c] = cl[c]
    BY <1>1, <2>1 DEF SendC
  <2>4. Alone(c)
    BY <1>1, <2>1, <2>2 DEF SendC, Alone
  <2>5. InStep(cl[c], dm'[c], toD[c], IF cut[c] THEN toC[c] ELSE Append(toC[c], Ack(TRUE)),
               cut[c] \/ Rest(dm[c].todo) = {})
    BY <1>1, <1>2, <2>1, <2>2, FileRecordedUpload
  <2> QED BY <2>2, <2>3, <2>4, <2>5, OneMoves
<1>10. CASE ThreadRefuses(c)
  <2>1. /\ \/ dm[c].pc = "receive" /\ (toD[c] # <<>> \/ cut[c])
           \/ dm[c].pc \in {"replace", "utime", "record"}
        /\ cl[c].dir = "upload"
    BY <1>1, <1>3, <1>10 DEF ThreadRefuses, Thread
  <2>2. dm'[c].pc = "failed" /\ dm'[c].todo = dm[c].todo /\ dm'[c].landed = dm[c].landed
    BY <1>1, <1>10 DEF ThreadRefuses, ServerThreads
  <2>3. /\ toC'[c] = IF cut[c] THEN toC[c] ELSE Append(toC[c], Ack(FALSE))
        /\ toD'[c] = toD[c] /\ cl'[c] = cl[c] /\ cut'[c] = cut[c] /\ Alone(c)
    BY <1>1, <1>10 DEF ThreadRefuses, SendC, Alone
  <2>4. InStep(cl[c], dm'[c], toD[c], IF cut[c] THEN toC[c] ELSE Append(toC[c], Ack(FALSE)),
               cut[c])
    BY <1>1, <1>2, <2>1, <2>2, FileRefusedUpload
  <2> QED BY <2>3, <2>4, OneMoves
<1>11. CASE ThreadStat(c)
  <2>1. dm[c].pc = "stat" /\ cl[c].dir = "download"
    BY <1>1, <1>3, <1>11 DEF ThreadStat, Thread
  <2>2. dm'[c].pc = "read" /\ dm'[c].todo = dm[c].todo /\ dm'[c].landed = dm[c].landed
    BY <1>1, <1>11 DEF ThreadStat, ServerThreads
  <2>3. /\ toC'[c] = toC[c] /\ toD'[c] = toD[c] /\ cl'[c] = cl[c] /\ cut'[c] = cut[c]
        /\ Alone(c)
    BY <1>1, <1>11 DEF ThreadStat, wire, Alone
  <2>4. InStep(cl[c], dm'[c], toD[c], toC[c], cut[c])
    BY <1>1, <1>2, <2>1, <2>2, FileReadDownload
  <2> QED BY <2>3, <2>4, OneMoves
<1>12. CASE ThreadSends(c)
  <2> DEFINE m == FileFrames(remote[CurrentOfThread(c)], dm[c].meta)
  <2>1. dm[c].pc = "read" /\ cl[c].dir = "download" /\ m.type = "file"
    BY <1>1, <1>3, <1>12 DEF ThreadSends, Thread, FileFrames
  <2>2. dm'[c].pc = "ack" /\ dm'[c].todo = dm[c].todo /\ dm'[c].landed = dm[c].landed
    BY <1>1, <1>12 DEF ThreadSends, ServerThreads
  <2>3. SendC(c, m) /\ UNCHANGED <<cl, toD, cut>> /\ dm' = [dm EXCEPT ![c].pc = "ack"]
    BY <1>12 DEF ThreadSends
  <2> HIDE DEF m
  <2>4. /\ toC'[c] = IF cut[c] THEN toC[c] ELSE Append(toC[c], m)
        /\ toD'[c] = toD[c] /\ cl'[c] = cl[c] /\ cut'[c] = cut[c] /\ Alone(c)
    BY <1>1, <2>3 DEF SendC, Alone
  <2>5. InStep(cl[c], dm'[c], toD[c], IF cut[c] THEN toC[c] ELSE Append(toC[c], m), cut[c])
    BY <1>1, <1>2, <2>1, <2>2, FileSentDownload
  <2> QED BY <2>4, <2>5, OneMoves
<1>13. CASE ThreadAcked(c)
  <2>1. /\ dm[c].pc = "ack" /\ cl[c].dir = "download" /\ toD[c] # <<>>
        /\ Head(toD[c]).type = "ack"
    BY <1>1, <1>3, <1>13 DEF ThreadAcked, Thread, HearsD
  <2>2. dm'[c].pc = "restat" /\ dm'[c].todo = dm[c].todo /\ dm'[c].landed = dm[c].landed
    BY <1>1, <1>13 DEF ThreadAcked, ServerThreads
  <2>3. /\ toC'[c] = toC[c] /\ toD'[c] = Tail(toD[c]) /\ cl'[c] = cl[c] /\ cut'[c] = cut[c]
        /\ Alone(c)
    BY <1>1, <1>13 DEF ThreadAcked, TakeD, Alone
  <2>4. InStep(cl[c], dm'[c], Tail(toD[c]), toC[c], cut[c])
    BY <1>1, <1>2, <2>1, <2>2, FileAckedDownload
  <2> QED BY <2>3, <2>4, OneMoves
<1>14. CASE Restat(c)
  <2> DEFINE l == [file |-> First(dm[c].todo), over |-> 0, old |-> 0, new |-> 0]
             landed == dm[c].landed \cup {l}
  <2>1. /\ dm[c].pc = "restat" /\ cl[c].dir = "download" /\ ThreadGoesOn(c, landed)
        /\ UNCHANGED <<cl, toD, toC>>
    BY <1>1, <1>3, <1>14 DEF Restat, Thread, CurrentOfThread
  <2>2. l.file = First(dm[c].todo)
    OBVIOUS
  <2> HIDE DEF l, landed
  <2>3. /\ MovesOn(cl[c], dm[c], dm'[c]) /\ dm'[c].landed = landed
        /\ cut'[c] = (cut[c] \/ Rest(dm[c].todo) = {})
        /\ \A e \in Conns \ {c} : dm'[e] = dm[e] /\ cut'[e] = cut[e]
    BY <2>1, ThreadGoneOn
  <2>4. Names(dm'[c]) = Names(dm[c]) \cup {First(dm[c].todo)}
    <3>1. Names(dm'[c]) = Names(dm[c]) \cup {l.file}
      BY <2>3, OneMoreLanded DEF landed
    <3> QED BY <2>2, <3>1
  <2>5. /\ toC'[c] = toC[c] /\ toD'[c] = toD[c] /\ cl'[c] = cl[c] /\ Alone(c)
    BY <2>1, <2>3 DEF Alone
  <2>6. InStep(cl[c], dm'[c], toD[c], toC[c], cut[c] \/ Rest(dm[c].todo) = {})
    BY <1>1, <1>2, <2>1, <2>3, <2>4, FileRecordedDownload
  <2> QED BY <2>3, <2>5, <2>6, OneMoves
<1>15. CASE ThreadQuits(c)
  <2>1. dm[c].pc # "done"
    BY <1>15 DEF ThreadQuits, Thread
  <2>2. dm'[c] = Ended(dm[c])
    BY <1>1, <1>15 DEF ThreadQuits
  <2>3. Ended(dm[c]).pc = "done" /\ Ended(dm[c]).landed = dm[c].landed
    BY DEF Ended, IdleThread
  <2>4. /\ toC'[c] = toC[c] /\ toD'[c] = <<>> /\ cl'[c] = cl[c] /\ cut'[c] = TRUE
        /\ Alone(c)
    BY <1>1, <1>15 DEF ThreadQuits, HangUp, Alone
  <2>5. InStep(cl[c], Ended(dm[c]), <<>>, toC[c], cut[c] \/ dm[c].pc # "done")
    BY <1>1, <1>2, <2>3, ThreadEndedUpload, ThreadEndedDownload
  <2>6. (cut[c] \/ dm[c].pc # "done") = TRUE
    BY <2>1
  <2> QED BY <2>2, <2>4, <2>5, <2>6, OneMoves
<1> QED BY <1>4, <1>5, <1>6, <1>7, <1>8, <1>9, <1>10, <1>11, <1>12, <1>13, <1>14, <1>15
        DEF ThreadStep

LEMMA StartKeepsStep ==
    ASSUME Types, Lockstep, NEW c \in Conns, NEW dir \in {"upload", "download"},
           NEW force \in BOOLEAN, Start(c, dir, force)
    PROVE  Lockstep'
<1>1. /\ cl \in [Conns -> Clients(clock)] /\ cut \in [Conns -> BOOLEAN]
      /\ dm \in [Conns -> ServerThreads(clock)]
      /\ toD \in [Conns -> Seq(Frames(clock))] /\ toC \in [Conns -> Seq(Frames(clock))]
  BY TypeParts DEF Types
<1> DEFINE client == [IdleClient EXCEPT !.pc = IF dir = "upload" THEN "plan" ELSE "manifest",
                                        !.dir = dir, !.force = force]
           thread == [IdleThread EXCEPT !.pc = IF dir = "upload" THEN "manifest" ELSE "scan"]
           up == IF dir = "upload" THEN <<Manifest(local)>> ELSE <<>>
<1>2. /\ client.pc = IF dir = "upload" THEN "plan" ELSE "manifest"
      /\ client.dir = dir /\ client.todo = {} /\ client.done = {}
  BY DEF IdleClient
<1>3. /\ thread.pc = IF dir = "upload" THEN "manifest" ELSE "scan"
      /\ thread.todo = {} /\ thread.landed = {}
  BY DEF IdleThread
<1>4. /\ cl' = [cl EXCEPT ![c] = client] /\ dm' = [dm EXCEPT ![c] = thread]
      /\ toD' = [toD EXCEPT ![c] = up] /\ toC' = [toC EXCEPT ![c] = <<>>]
      /\ cut' = [cut EXCEPT ![c] = FALSE]
  BY DEF Start
<1>5. up = IF dir = "upload" THEN <<Manifest(local)>> ELSE <<>>
  OBVIOUS
<1>6. Names(thread) = {}
  BY <1>3 DEF Names
<1> HIDE DEF client, thread, up
<1>7. cl'[c] = client /\ dm'[c] = thread /\ toD'[c] = up /\ toC'[c] = <<>> /\ cut'[c] = FALSE
  BY <1>1, <1>4
<1>8. Alone(c)
  BY <1>1, <1>4 DEF Alone
<1>9. InStep(client, thread, up, <<>>, FALSE)
  <2>1. CASE dir = "upload"
    <3>1. ~FileFirst(up)
      <4>1. \A m : m.type = "file" => m # Manifest(local)
        BY FramesDiffer
      <4>2. \A m : <<Manifest(local)>> = <<m>> => Manifest(local) = m
        BY QueuesDiffer
      <4>3. \A m : <<Manifest(local)>> # <<m, Abort>>
        BY QueuesDiffer
      <4>4. ~FileFirst(<<Manifest(local)>>)
        BY <4>1, <4>2, <4>3 DEF FileFirst
      <4> QED BY <1>5, <2>1, <4>4
    <3>2. <<>> # <<Ack(TRUE)>>
      BY QueuesDiffer
    <3>3. UploadWire(client, thread, up, <<>>, FALSE)
      BY <1>2, <1>3, <1>5, <2>1 DEF UploadWire
    <3>4. UploadAgree(client, thread, up, <<>>)
      BY <1>2, <1>3, <1>5, <2>1 DEF UploadAgree
    <3>5. UploadLevel(client, thread, up, <<>>)
      BY <1>2, <1>3, <1>6, <2>1, <3>1, <3>2 DEF UploadLevel
    <3>6. Framed(client, thread, <<>>, FALSE) /\ Busy(client, thread)
      BY <1>2, <1>3, <2>1 DEF Framed, Busy
    <3> QED BY <1>2, <2>1, <3>3, <3>4, <3>5, <3>6 DEF InStep
  <2>2. CASE dir = "download"
    <3>1. DownloadWire(client, thread, up, <<>>, FALSE)
      BY <1>2, <1>3, <1>5, <2>2 DEF DownloadWire
    <3>2. DownloadAgree(client, thread, up, <<>>)
      BY <1>2, <1>3, <1>5, <2>2 DEF DownloadAgree
    <3>3. DownloadLevel(client, thread, up, <<>>)
      BY <1>2, <1>3, <1>5, <1>6, <2>2, NoAckFirst, NoFileLast DEF DownloadLevel
    <3>4. Framed(client, thread, <<>>, FALSE) /\ Busy(client, thread)
      BY <1>2, <1>3, <2>2 DEF Framed, Busy
    <3> QED BY <1>2, <2>2, <3>1, <3>2, <3>3, <3>4, DownloadInStep
  <2> QED BY <2>1, <2>2
<1> QED BY <1>7, <1>8, <1>9, OneMoves

LEMMA BreakKeepsStep ==
    ASSUME Types, Lockstep, NEW c \in Conns, Break(c)
    PROVE  Lockstep'
<1>1. /\ toD \in [Conns -> Seq(Frames(clock))] /\ toC \in [Conns -> Seq(Frames(clock))]
      /\ cut \in [Conns -> BOOLEAN] /\ cut[c] \in BOOLEAN
      /\ cl[c].dir \in {"upload", "download"}
  BY TypeParts DEF Types
<1>2. /\ cl'[c] = cl[c] /\ dm'[c] = dm[c] /\ toD'[c] = <<>> /\ toC'[c] = <<>>
      /\ cut'[c] = TRUE /\ Alone(c)
  BY <1>1 DEF Break, HangUp, Alone
<1>3. InStep(cl[c], dm[c], toD[c], toC[c], cut[c])
  BY DEF Lockstep
<1>4. InStep(cl[c], dm[c], <<>>, <<>>, TRUE)
  BY <1>1, <1>3, BrokenUpload, BrokenDownload
<1> QED BY <1>2, <1>4, OneMoves

LEMMA CrashKeepsStep ==
    ASSUME Types, Lockstep, Crash
    PROVE  Lockstep'
<1> SUFFICES ASSUME NEW c \in Conns PROVE InStep(cl'[c], dm'[c], toD'[c], toC'[c], cut'[c])
  BY DEF Lockstep
<1>1. cut[c] \in BOOLEAN /\ cl[c].dir \in {"upload", "download"}
  BY TypeParts DEF Types
<1>2. /\ cl'[c] = cl[c] /\ dm'[c] = Ended(dm[c]) /\ toD'[c] = <<>> /\ toC'[c] = toC[c]
      /\ cut'[c] = (cut[c] \/ dm[c].pc # "done")
  BY DEF Crash, Thread
<1>3. InStep(cl[c], dm[c], toD[c], toC[c], cut[c])
  BY DEF Lockstep
<1>4. Ended(dm[c]).pc = "done" /\ Ended(dm[c]).landed = dm[c].landed
  BY DEF Ended, IdleThread
<1>5. InStep(cl[c], Ended(dm[c]), <<>>, toC[c], cut[c] \/ dm[c].pc # "done")
  BY <1>1, <1>3, <1>4, ThreadEndedUpload, ThreadEndedDownload
<1> QED BY <1>2, <1>5

LEMMA NextKeepsStep ==
    ASSUME Types, Lockstep, [TransferNext]_transferVars
    PROVE  Lockstep'
<1>1. CASE UNCHANGED transferVars
  BY <1>1 DEF transferVars, wire, Lockstep
<1>2. CASE TransferNext
  <2>1. ASSUME NEW c \in Conns, ClientStep(c) PROVE Lockstep'
    BY <2>1, ClientKeepsStep
  <2>2. ASSUME NEW c \in Conns, ThreadStep(c) PROVE Lockstep'
    BY <2>2, ThreadKeepsStep
  <2>3. ASSUME NEW c \in Conns, ClientTimesOut(c) PROVE Lockstep'
    BY <2>3, GivingUpKeepsStep DEF ClientTimesOut
  <2>4. ASSUME NEW c \in Conns, Break(c) PROVE Lockstep'
    BY <2>4, BreakKeepsStep
  <2>5. ASSUME NEW c \in Conns, NEW dir \in {"upload", "download"}, NEW force \in BOOLEAN,
               Start(c, dir, force)
        PROVE  Lockstep'
    BY <2>5, StartKeepsStep
  <2>6. ASSUME NEW f \in Files, NEW size \in Sizes \cup {0},
               EditLocal(f, size) \/ EditRemote(f, size)
        PROVE  Lockstep'
    BY <2>6 DEF EditLocal, EditRemote, wire, Lockstep
  <2>7. CASE Crash
    BY <2>7, CrashKeepsStep
  <2> QED BY <1>2, <2>1, <2>2, <2>3, <2>4, <2>5, <2>6, <2>7 DEF TransferNext
<1> QED BY <1>1, <1>2

LEMMA InitInStep == TransferInit => Lockstep
<1> SUFFICES ASSUME TransferInit, NEW c \in Conns
             PROVE  InStep(cl[c], dm[c], toD[c], toC[c], cut[c])
  BY DEF Lockstep
<1>1. cl[c] = IdleClient /\ dm[c] = IdleThread /\ toD[c] = <<>> /\ toC[c] = <<>> /\ ~cut[c]
  BY DEF TransferInit
<1>2. /\ IdleClient.pc = "done" /\ IdleClient.dir = "upload" /\ IdleClient.done = {}
      /\ IdleThread.pc = "done" /\ IdleThread.landed = {}
  BY DEF IdleClient, IdleThread
<1>3. Names(IdleThread) = {}
  BY <1>2 DEF Names
<1>4. <<>> # <<Ack(TRUE)>>
  BY QueuesDiffer
<1>5. UploadWire(IdleClient, IdleThread, <<>>, <<>>, FALSE)
  BY <1>2 DEF UploadWire
<1>6. UploadAgree(IdleClient, IdleThread, <<>>, <<>>)
  BY <1>2 DEF UploadAgree
<1>7. UploadLevel(IdleClient, IdleThread, <<>>, <<>>)
  BY <1>2, <1>3, <1>4, NotFileFirst DEF UploadLevel
<1>8. Framed(IdleClient, IdleThread, <<>>, FALSE) /\ Busy(IdleClient, IdleThread)
  BY <1>2 DEF Framed, Busy
<1>9. InStep(IdleClient, IdleThread, <<>>, <<>>, FALSE)
  BY <1>2, <1>5, <1>6, <1>7, <1>8 DEF InStep
<1>10. cut[c] = FALSE
  BY DEF TransferInit
<1> QED BY <1>1, <1>9, <1>10

(* The two ends of a transfer are in step: what is under way, how many     *)
(* files are left at either end and whose turn it is agree, while the      *)
(* connection is there (daemon_upload and daemon_download against upload   *)
(* and download of the client).                                            *)
THEOREM TransferInStep == TransferSpec => [](Types /\ Lockstep)
<1>1. TransferInit => Types /\ Lockstep
  BY InitTypes, InitInStep
<1>2. Types /\ Lockstep /\ [TransferNext]_transferVars => (Types /\ Lockstep)'
  <2> SUFFICES ASSUME Types, Lockstep, [TransferNext]_transferVars PROVE (Types /\ Lockstep)'
    OBVIOUS
  <2>1. \A c \in Conns : Busy(cl[c], dm[c])
    BY DEF Lockstep, InStep
  <2> QED BY <2>1, StepKeepsTypes, NextKeepsStep
<1> QED BY <1>1, <1>2, PTL DEF TransferSpec

(* What the client reports as transferred is what has landed, but for the  *)
(* file that was under way when it stopped (the lists transferred and      *)
(* failed of client_upload.py and client_download.py).                     *)
THEOREM ReportsAreRight == TransferSpec => []ReportWithinOne
<1>1. Types /\ Lockstep => ReportWithinOne
  <2> SUFFICES ASSUME Types, Lockstep, NEW c \in Conns,
                      NEW more, more = IF Uploads(c) THEN LandedFiles(c) ELSE cl[c].done,
                      NEW less, less = IF Uploads(c) THEN cl[c].done ELSE LandedFiles(c)
               PROVE  less \subseteq more /\ Cardinality(more \ less) <= 1
    BY DEF ReportWithinOne
  <2>1. LandedFiles(c) = Names(dm[c])
    BY DEF LandedFiles, Names
  <2>2. InStep(cl[c], dm[c], toD[c], toC[c], cut[c]) /\ cl[c].dir \in {"upload", "download"}
    BY TypeParts DEF Lockstep, Types
  <2>3. less \subseteq more /\ \E f : more \subseteq less \cup {f}
    <3>1. CASE cl[c].dir = "upload"
      BY <2>1, <2>2, <3>1 DEF InStep, UploadLevel, Uploads
    <3>2. CASE cl[c].dir = "download"
      BY <2>1, <2>2, <3>2 DEF InStep, DownloadLevel, Uploads
    <3> QED BY <2>2, <3>1, <3>2
  <2>4. PICK f : more \ less \subseteq {f}
    BY <2>3
  <2>5. more \ less = {} \/ more \ less = {f}
    BY <2>4
  <2>6. Cardinality({}) = 0 /\ Cardinality({f}) = 1
    BY FS_EmptySet, FS_Singleton
  <2> QED BY <2>3, <2>5, <2>6
<1> QED BY <1>1, TransferInStep, PTL

-----------------------------------------------------------------------------
(***************************************************************************)
(* What a time tells.  Of a file that no two writers have changed in one   *)
(* another's window there is a function k from times to contents that all  *)
(* copies agree with: those on the disks, in the manifests, at the two     *)
(* ends and under way.                                                     *)
(***************************************************************************)
Knows(k, x) == x.id = k[x.mtime]
FileKnows(k, m) == m.data.id = m.meta.id /\ Knows(k, m.meta)
Carries(q, type) == q # <<>> /\ Head(q).type = type

\* An end and the copy x of the file on its side.
ClientKnows(f, k, client, x) ==
    First(client.todo) = f =>
        /\ client.pc = "read" => client.meta = x
        /\ client.pc \in {"replace", "utime"} => Knows(k, client.meta)
        /\ client.pc = "replace" => client.data.id = client.meta.id
        /\ client.pc = "utime" => x.id = client.meta.id

ThreadKnows(f, k, thread, x) ==
    First(thread.todo) = f =>
        /\ thread.pc = "read" => thread.meta = x
        /\ thread.pc \in {"replace", "utime"} => Knows(k, thread.meta)
        /\ thread.pc = "replace" => thread.data.id = thread.meta.id
        /\ thread.pc = "utime" => x.id = thread.meta.id
        /\ thread.pc \in {"history", "record"} => x.mtime = thread.meta.mtime

WireKnows(f, k, client, thread, up, down) ==
    /\ Carries(up, "manifest") => Knows(k, Head(up).entries[f])
    /\ Carries(down, "manifest") => Knows(k, Head(down).entries[f])
    /\ /\ client.dir = "upload" /\ thread.pc = "receive" /\ First(thread.todo) = f
       /\ Carries(up, "file")
       => FileKnows(k, Head(up))
    /\ /\ client.dir = "download" /\ client.pc = "receive" /\ First(client.todo) = f
       /\ Carries(down, "file")
       => FileKnows(k, Head(down))
    /\ /\ client.dir = "download" /\ client.pc = "plan" /\ down # <<>> /\ Tail(down) # <<>>
       /\ First(Head(down).todo) = f
       => FileKnows(k, Head(Tail(down)))

JudgedSame(f, thread) == \A s \in thread.skipped : s[1] = f => s[2] = s[3]

EndKnows(f, k, client, thread, up, down, x, y) ==
    /\ ClientKnows(f, k, client, x) /\ ThreadKnows(f, k, thread, y)
    /\ WireKnows(f, k, client, thread, up, down)
    /\ Knows(k, thread.seen[f]) /\ JudgedSame(f, thread)

AllKnow(f, k) ==
    /\ k \in [Nat -> Nat] /\ k[0] = 0
    /\ Knows(k, local[f]) /\ Knows(k, remote[f]) /\ record[f].cli = record[f].remote
    /\ \A c \in Conns : EndKnows(f, k, cl[c], dm[c], toD[c], toC[c], local[f], remote[f])

Dated == \A f \in Files : f \in collided \/ \E k : AllKnow(f, k)

LEMMA HeadAppended ==
    ASSUME NEW S, NEW q \in Seq(S), NEW x \in S
    PROVE  /\ Append(q, x) # <<>> /\ Head(Append(q, x)) = IF q = <<>> THEN x ELSE Head(q)
           /\ \A y : Append(q, x) = <<y>> => x = y
<1>1. /\ Append(q, x) \in Seq(S) /\ Len(Append(q, x)) = Len(q) + 1
      /\ \A i \in 1..Len(q) : Append(q, x)[i] = q[i]
      /\ Append(q, x)[Len(q) + 1] = x
  BY AppendProperties
<1>2. Len(q) \in Nat /\ (q = <<>> <=> Len(q) = 0)
  BY EmptySeq
<1>3. Append(q, x) # <<>>
  BY <1>1, <1>2
<1>4. q # <<>> => Append(q, x)[1] = q[1] /\ Head(q) = q[1]
  BY <1>1, <1>2
<1>5. Head(Append(q, x)) = Append(q, x)[1]
  BY <1>1, <1>3
<1>6. ASSUME NEW y, Append(q, x) = <<y>> PROVE x = y
  <2>1. Len(q) + 1 = 1 /\ <<y>>[1] = y
    BY <1>1, <1>6
  <2>2. Append(q, x)[1] = x
    BY <1>1, <1>2, <2>1
  <2> QED BY <1>6, <2>1, <2>2, Zenon
<1>7. Head(Append(q, x)) = IF q = <<>> THEN x ELSE Head(q)
  <2>1. CASE q = <<>>
    BY <2>1, ShortQueues
  <2>2. CASE q # <<>>
    BY <1>4, <1>5, <2>2, Zenon
  <2> QED BY <2>1, <2>2
<1> QED BY <1>3, <1>6, <1>7

LEMMA FrameTypes ==
    /\ \A e : Manifest(e).type = "manifest" /\ Manifest(e).entries = e
    /\ \A t : Plan(t).type = "plan" /\ Plan(t).todo = t
    /\ \A ok : Ack(ok).type = "ack" /\ Ack(ok).ok = ok
    /\ Abort.type = "abort"
    /\ \A x, m : FileFrames(x, m).type = "file" /\ FileFrames(x, m).data = x
                 /\ FileFrames(x, m).meta = m
BY DEF Manifest, Plan, Ack, Abort, FileFrames

LEMMA CarriesNothing ==
    /\ \A type : ~Carries(<<>>, type)
    /\ \A x, type : Carries(<<x>>, type) <=> x.type = type
    /\ \A x : Head(<<x>>) = x /\ Tail(<<x>>) = <<>> /\ <<x>> # <<>>
<1>1. \A x : Head(<<x>>) = x /\ Tail(<<x>>) = <<>> /\ <<x>> # <<>>
  BY ShortQueues
<1> QED BY <1>1 DEF Carries

\* What the steps of the two ends find under way.
LEMMA UnderWayUpload ==
    ASSUME NEW client, NEW thread, NEW up, NEW down, NEW gone \in BOOLEAN,
           InStep(client, thread, up, down, gone), client.dir = "upload"
    PROVE  /\ client.pc = "read" => up = <<>>
           /\ client.pc = "read" /\ ~gone => thread.todo = client.todo
           /\ client.pc \in {"plan", "ack"} /\ down # <<>> => Tail(down) = <<>>
           /\ thread.pc = "manifest" /\ up # <<>> => Tail(up) = <<>>
           /\ thread.pc = "manifest" => down = <<>>
           /\ thread.pc = "receive" /\ Carries(up, "file") =>
                    Tail(up) = <<>> \/ Tail(up) = <<Abort>>
           /\ thread.pc \in {"replace", "utime", "history", "record"} => ~Carries(up, "file")
           /\ ~Carries(down, "manifest")
<1>1. /\ UploadWire(client, thread, up, down, gone) /\ UploadLevel(client, thread, up, down)
      /\ Framed(client, thread, down, gone) /\ Busy(client, thread)
      /\ ~gone => UploadAgree(client, thread, up, down)
  BY DEF InStep
<1>2. client.pc = "read" => up = <<>>
  BY <1>1 DEF UploadLevel
<1>3. client.pc = "read" /\ ~gone => thread.todo = client.todo
  BY <1>1 DEF UploadAgree
<1>4. client.pc \in {"plan", "ack"} /\ down # <<>> => Tail(down) = <<>>
  BY <1>1, CarriesNothing DEF UploadWire
<1>5. thread.pc = "manifest" /\ up # <<>> => Tail(up) = <<>>
  BY <1>1, CarriesNothing DEF UploadWire
<1>6. thread.pc = "manifest" => down = <<>>
  BY <1>1 DEF UploadWire, Framed
<1>7. ~Carries(<<Abort>>, "file")
  BY CarriesNothing, FrameTypes
<1>8. ASSUME thread.pc = "receive", Carries(up, "file")
      PROVE  Tail(up) = <<>> \/ Tail(up) = <<Abort>>
  <2>1. (\E m : m.type = "file" /\ up = <<m>>) \/ FileFirst(up)
    BY <1>1, <1>7, <1>8, CarriesNothing DEF UploadWire
  <2>2. \A m : Tail(<<m>>) = <<>> /\ Tail(<<m, Abort>>) = <<Abort>>
    BY ShortQueues
  <2> QED BY <2>1, <2>2 DEF FileFirst
<1>9. thread.pc \in {"replace", "utime", "history", "record"} => ~Carries(up, "file")
  BY <1>1, <1>7, CarriesNothing DEF UploadWire
<1>10. ~Carries(down, "manifest")
  <2>1. \/ down = <<>> \/ down = <<Abort>> \/ (\E t : down = <<Plan(t)>>)
        \/ (\E ok : down = <<Ack(ok)>>)
    BY <1>1 DEF UploadWire
  <2> QED BY <2>1, CarriesNothing, FrameTypes
<1> QED BY <1>2, <1>3, <1>4, <1>5, <1>6, <1>8, <1>9, <1>10

LEMMA UnderWayDownload ==
    ASSUME NEW client, NEW thread, NEW up, NEW down, NEW gone \in BOOLEAN,
           InStep(client, thread, up, down, gone), client.dir = "download"
    PROVE  /\ client.pc = "manifest" => up = <<>> /\ (down # <<>> => Tail(down) = <<>>)
           /\ client.pc = "plan" /\ Carries(down, "plan") => ~Carries(Tail(down), "manifest")
           /\ client.pc = "receive" /\ down # <<>> => Tail(down) = <<>>
           /\ client.pc \in {"replace", "utime"} => down = <<>> /\ up = <<>>
           /\ thread.pc = "scan" => down = <<>>
           /\ thread.pc = "manifest" /\ up # <<>> => Tail(up) = <<>> /\ down = <<>>
           /\ thread.pc = "read" /\ ~gone =>
                    \/ client.pc = "plan" /\ down = <<Plan(thread.todo)>>
                    \/ client.pc = "receive" /\ down = <<>> /\ thread.todo = client.todo
           /\ thread.pc = "ack" /\ Carries(up, "ack") => Tail(up) = <<>> \/ Tail(up) = <<Abort>>
<1>1. /\ DownloadWire(client, thread, up, down, gone)
      /\ DownloadLevel(client, thread, up, down)
      /\ Framed(client, thread, down, gone) /\ Busy(client, thread)
      /\ ~gone => DownloadAgree(client, thread, up, down)
  BY DownloadParts
<1>2. client.pc = "manifest" => up = <<>> /\ (down # <<>> => Tail(down) = <<>>)
  BY <1>1, CarriesNothing DEF DownloadWire
<1>3. ASSUME client.pc = "plan", Carries(down, "plan") PROVE ~Carries(Tail(down), "manifest")
  <2>1. ~Carries(<<Abort>>, "plan") /\ ~Carries(<<>>, "plan")
    BY CarriesNothing, FrameTypes
  <2>2. \/ \E t : down = <<Plan(t)>>
        \/ \E t, m : m.type = "file" /\ down = <<Plan(t), m>>
    BY <1>1, <1>3, <2>1 DEF DownloadWire
  <2>3. \A t, m : Tail(<<Plan(t)>>) = <<>> /\ Tail(<<Plan(t), m>>) = <<m>>
    BY ShortQueues
  <2> QED BY <2>2, <2>3, CarriesNothing
<1>4. client.pc = "receive" /\ down # <<>> => Tail(down) = <<>>
  BY <1>1, CarriesNothing DEF DownloadWire
<1>5. client.pc \in {"replace", "utime"} => down = <<>> /\ up = <<>>
  BY <1>1 DEF DownloadWire, DownloadLevel
<1>6. thread.pc = "scan" => down = <<>>
  BY <1>1 DEF DownloadWire
<1>7. thread.pc = "manifest" /\ up # <<>> => Tail(up) = <<>> /\ down = <<>>
  BY <1>1, CarriesNothing DEF DownloadWire, Framed
<1>8. ASSUME thread.pc = "read", ~gone
      PROVE  \/ client.pc = "plan" /\ down = <<Plan(thread.todo)>>
             \/ client.pc = "receive" /\ down = <<>> /\ thread.todo = client.todo
  <2>1. client.pc \in {"plan", "receive"}
    BY <1>1, <1>8 DEF DownloadAgree, DownloadWire, Framed
  <2>2. up = <<>>
    BY <1>1, <1>8 DEF DownloadWire
  <2> QED BY <1>1, <1>8, <2>1, <2>2 DEF DownloadAgree
<1>9. ASSUME thread.pc = "ack", Carries(up, "ack") PROVE Tail(up) = <<>> \/ Tail(up) = <<Abort>>
  <2>1. ~Carries(<<Abort>>, "ack") /\ ~Carries(<<>>, "ack")
    BY CarriesNothing, FrameTypes
  <2>2. up = <<Ack(TRUE)>> \/ up = <<Ack(TRUE), Abort>>
    BY <1>1, <1>9, <2>1 DEF DownloadWire
  <2>3. Tail(<<Ack(TRUE)>>) = <<>> /\ Tail(<<Ack(TRUE), Abort>>) = <<Abort>>
    BY ShortQueues
  <2> QED BY <2>2, <2>3
<1> QED BY <1>2, <1>3, <1>4, <1>5, <1>6, <1>7, <1>8, <1>9

-----------------------------------------------------------------------------
(* The steps that change neither tree.                                     *)
LEMMA ClientQuiet ==
    ASSUME NEW f, NEW k, AllKnow(f, k), NEW c \in Conns, Alone(c),
           UNCHANGED <<local, remote, record, dm>>,
           ClientKnows(f, k, cl'[c], local[f]),
           WireKnows(f, k, cl'[c], dm[c], toD'[c], toC'[c])
    PROVE  AllKnow(f, k)'
<1>1. ASSUME NEW e \in Conns
      PROVE  EndKnows(f, k, cl'[e], dm'[e], toD'[e], toC'[e], local'[f], remote'[f])
  <2>1. EndKnows(f, k, cl[e], dm[e], toD[e], toC[e], local[f], remote[f])
    BY DEF AllKnow
  <2>2. CASE e = c
    BY <2>1, <2>2 DEF EndKnows
  <2>3. CASE e # c
    BY <2>1, <2>3 DEF Alone
  <2> QED BY <2>2, <2>3
<1> QED BY <1>1 DEF AllKnow

LEMMA ThreadQuiet ==
    ASSUME NEW f, NEW k, AllKnow(f, k), NEW c \in Conns, Alone(c),
           UNCHANGED <<local, remote, cl>>, record'[f].cli = record'[f].remote,
           ThreadKnows(f, k, dm'[c], remote[f]),
           WireKnows(f, k, cl[c], dm'[c], toD'[c], toC'[c]),
           Knows(k, dm'[c].seen[f]), JudgedSame(f, dm'[c])
    PROVE  AllKnow(f, k)'
<1>1. ASSUME NEW e \in Conns
      PROVE  EndKnows(f, k, cl'[e], dm'[e], toD'[e], toC'[e], local'[f], remote'[f])
  <2>1. EndKnows(f, k, cl[e], dm[e], toD[e], toC[e], local[f], remote[f])
    BY DEF AllKnow
  <2>2. CASE e = c
    BY <2>1, <2>2 DEF EndKnows
  <2>3. CASE e # c
    BY <2>1, <2>3 DEF Alone
  <2> QED BY <2>2, <2>3
<1> QED BY <1>1 DEF AllKnow

LEMMA ClientKeepsDates ==
    ASSUME Types, Lockstep, NEW f \in Files, NEW k, AllKnow(f, k), NEW c \in Conns,
           \/ AnswerManifest(c) \/ TakePlan(c) \/ ClientStat(c) \/ ClientSends(c)
           \/ ClientAcked(c) \/ ClientReceives(c) \/ ClientGivesUp(c)
    PROVE  AllKnow(f, k)'
<1>1. /\ cl \in [Conns -> Clients(clock)] /\ cut \in [Conns -> BOOLEAN]
      /\ dm \in [Conns -> ServerThreads(clock)]
      /\ toD \in [Conns -> Seq(Frames(clock))] /\ toC \in [Conns -> Seq(Frames(clock))]
      /\ cl[c] \in Clients(clock) /\ cut[c] \in BOOLEAN
      /\ toD[c] \in Seq(Frames(clock)) /\ toC[c] \in Seq(Frames(clock))
      /\ cl[c].dir \in {"upload", "download"} /\ local \in Trees(clock)
      /\ cl[c].meta \in Copies(clock)
  BY TypeParts DEF Types
<1>2. InStep(cl[c], dm[c], toD[c], toC[c], cut[c])
  BY DEF Lockstep
<1>3. /\ cl[c].dir = "upload" => cl[c].pc \in {"plan", "stat", "read", "ack", "done"}
      /\ cl[c].dir = "download" =>
            cl[c].pc \in {"manifest", "plan", "receive", "replace", "utime", "done"}
  BY <1>1, <1>2, WhereTheyAre
<1>4. /\ WireKnows(f, k, cl[c], dm[c], toD[c], toC[c])
      /\ ClientKnows(f, k, cl[c], local[f]) /\ Knows(k, local[f])
  BY DEF AllKnow, EndKnows
<1>5. CASE AnswerManifest(c)
  <2>1. cl[c].pc = "manifest" /\ toC[c] # <<>> /\ cl[c].dir = "download"
    BY <1>1, <1>3, <1>5 DEF AnswerManifest, Client, HearsC
  <2>2. cl'[c].pc = "plan" /\ cl'[c].dir = cl[c].dir
    BY <1>1, <1>5 DEF AnswerManifest, Clients
  <2>3. /\ toD'[c] = IF cut[c] THEN toD[c] ELSE Append(toD[c], Manifest(local))
        /\ toC'[c] = Tail(toC[c]) /\ Alone(c)
    BY <1>1, <1>5 DEF AnswerManifest, SendD, TakeC, Alone
  <2>4. toD[c] = <<>> /\ toC'[c] = <<>>
    BY <1>1, <1>2, <2>1, <2>3, UnderWayDownload
  <2>5. toD'[c] = <<>> \/ toD'[c] = <<Manifest(local)>>
    BY <2>3, <2>4, ShortQueues
  <2>6. Carries(toD'[c], "manifest") => Head(toD'[c]).entries[f] = local[f]
    BY <2>5, CarriesNothing, FrameTypes
  <2>7. ~Carries(toC'[c], "manifest") /\ ~Carries(toC'[c], "file") /\ toC'[c] = <<>>
    BY <2>4, CarriesNothing
  <2>8. WireKnows(f, k, cl'[c], dm[c], toD'[c], toC'[c])
    BY <1>4, <2>1, <2>2, <2>6, <2>7 DEF WireKnows
  <2>9. ClientKnows(f, k, cl'[c], local[f])
    BY <2>2 DEF ClientKnows
  <2> QED BY <1>5, <2>3, <2>8, <2>9, ClientQuiet DEF AnswerManifest, disk
<1>6. CASE TakePlan(c)
  <2> DEFINE t == Head(toC[c]).todo
  <2>1. /\ cl[c].pc = "plan" /\ toC[c] # <<>> /\ Carries(toC[c], "plan")
        /\ ClientGoesOn(c, t, {})
    BY <1>6 DEF TakePlan, Client, HearsC, Carries
  <2>2. t = Head(toC[c]).todo
    OBVIOUS
  <2> HIDE DEF t
  <2>3. /\ GoesOn(cl[c], cl'[c], t, {})
        /\ \A e \in Conns \ {c} : cl'[e] = cl[e] /\ cut'[e] = cut[e]
    BY <2>1, ClientGoneOn
  <2>4. toC'[c] = Tail(toC[c]) /\ toD'[c] = toD[c] /\ Alone(c)
    BY <1>1, <1>6, <2>3 DEF TakePlan, TakeC, Alone
  <2>5. cl'[c].pc \in {"done", "stat", "receive"} /\ cl'[c].dir = cl[c].dir /\ cl'[c].todo = t
    BY <2>3 DEF GoesOn
  <2>6. ~Carries(toC'[c], "manifest")
    <3>1. CASE cl[c].dir = "upload"
      <4>1. Tail(toC[c]) = <<>>
        BY <1>1, <1>2, <2>1, <3>1, UnderWayUpload
      <4> QED BY <2>4, <4>1, CarriesNothing
    <3>2. CASE cl[c].dir = "download"
      BY <1>1, <1>2, <2>1, <2>4, <3>2, UnderWayDownload
    <3> QED BY <1>1, <3>1, <3>2
  <2>7. Carries(toC'[c], "file") => Tail(toC[c]) # <<>> /\ Head(toC'[c]) = Head(Tail(toC[c]))
    BY <2>4 DEF Carries
  <2>8. WireKnows(f, k, cl'[c], dm[c], toD'[c], toC'[c])
    BY <1>4, <2>1, <2>2, <2>4, <2>5, <2>6, <2>7 DEF WireKnows
  <2>9. ClientKnows(f, k, cl'[c], local[f])
    BY <2>5 DEF ClientKnows
  <2> QED BY <1>6, <2>4, <2>8, <2>9, ClientQuiet DEF TakePlan, disk
<1>7. CASE ClientStat(c)
  <2>1. cl[c].pc = "stat" /\ cl[c].dir = "upload"
    BY <1>1, <1>3, <1>7 DEF ClientStat, Client
  <2>2. /\ cl'[c].pc = "read" /\ cl'[c].dir = cl[c].dir /\ cl'[c].todo = cl[c].todo
        /\ cl'[c].meta = local[First(cl[c].todo)]
    BY <1>1, <1>7 DEF ClientStat, Clients, CurrentOfClient
  <2>3. toD'[c] = toD[c] /\ toC'[c] = toC[c] /\ Alone(c)
    BY <1>1, <1>7 DEF ClientStat, wire, Alone
  <2>4. WireKnows(f, k, cl'[c], dm[c], toD'[c], toC'[c])
    BY <1>4, <2>1, <2>2, <2>3 DEF WireKnows
  <2>5. ClientKnows(f, k, cl'[c], local[f])
    BY <2>2 DEF ClientKnows
  <2> QED BY <1>7, <2>3, <2>4, <2>5, ClientQuiet DEF ClientStat, disk
<1>8. CASE ClientSends(c)
  <2> DEFINE m == FileFrames(local[CurrentOfClient(c)], cl[c].meta)
  <2>1. cl[c].pc = "read" /\ cl[c].dir = "upload"
    BY <1>1, <1>3, <1>8 DEF ClientSends, Client
  <2>2. cl'[c].pc = "ack" /\ cl'[c].dir = cl[c].dir
    BY <1>1, <1>8 DEF ClientSends, Clients
  <2>3. SendD(c, m) /\ UNCHANGED <<local, remote, record, dm, toC, cut>>
        /\ cl' = [cl EXCEPT ![c].pc = "ack"]
    BY <1>8 DEF ClientSends, disk
  <2>4. m.type = "file" /\ m.data = local[First(cl[c].todo)] /\ m.meta = cl[c].meta
    BY FrameTypes DEF CurrentOfClient
  <2> HIDE DEF m
  <2>5. /\ toD'[c] = IF cut[c] THEN toD[c] ELSE Append(toD[c], m)
        /\ toC'[c] = toC[c] /\ Alone(c)
    BY <1>1, <2>3 DEF SendD, Alone
  <2>6. toD[c] = <<>> /\ (~cut[c] => dm[c].todo = cl[c].todo) /\ ~Carries(toC[c], "manifest")
    BY <1>1, <1>2, <2>1, UnderWayUpload
  <2>7. toD'[c] = IF cut[c] THEN <<>> ELSE <<m>>
    BY <2>5, <2>6, ShortQueues
  <2>8. /\ ~Carries(toD'[c], "manifest")
        /\ Carries(toD'[c], "file") => ~cut[c] /\ Head(toD'[c]) = m
    BY <2>4, <2>7, CarriesNothing
  <2>9. First(cl[c].todo) = f => FileKnows(k, m)
    BY <1>4, <2>1, <2>4 DEF ClientKnows, FileKnows
  <2>10. WireKnows(f, k, cl'[c], dm[c], toD'[c], toC'[c])
    BY <1>4, <2>1, <2>2, <2>5, <2>6, <2>8, <2>9 DEF WireKnows
  <2>11. ClientKnows(f, k, cl'[c], local[f])
    BY <2>2 DEF ClientKnows
  <2> QED BY <2>3, <2>5, <2>10, <2>11, ClientQuiet
<1>9. CASE ClientAcked(c)
  <2> DEFINE todo == Rest(cl[c].todo)
             done == cl[c].done \cup {CurrentOfClient(c)}
  <2>1. cl[c].pc = "ack" /\ toC[c] # <<>> /\ cl[c].dir = "upload" /\ ClientGoesOn(c, todo, done)
    BY <1>1, <1>3, <1>9 DEF ClientAcked, Client, HearsC
  <2> HIDE DEF todo, done
  <2>2. /\ GoesOn(cl[c], cl'[c], todo, done)
        /\ \A e \in Conns \ {c} : cl'[e] = cl[e] /\ cut'[e] = cut[e]
    BY <2>1, ClientGoneOn
  <2>3. toC'[c] = Tail(toC[c]) /\ toD'[c] = toD[c] /\ Alone(c)
    BY <1>1, <1>9, <2>2 DEF ClientAcked, TakeC, Alone
  <2>4. cl'[c].pc \in {"done", "stat"} /\ cl'[c].dir = "upload"
    BY <2>1, <2>2 DEF GoesOn
  <2>5. toC'[c] = <<>>
    BY <1>1, <1>2, <2>1, <2>3, UnderWayUpload
  <2>6. WireKnows(f, k, cl'[c], dm[c], toD'[c], toC'[c])
    BY <1>4, <2>1, <2>3, <2>4, <2>5, CarriesNothing DEF WireKnows
  <2>7. ClientKnows(f, k, cl'[c], local[f])
    BY <2>4 DEF ClientKnows
  <2> QED BY <1>9, <2>3, <2>6, <2>7, ClientQuiet DEF ClientAcked, disk
<1>10. CASE ClientReceives(c)
  <2>1. cl[c].pc = "receive" /\ cl[c].dir = "download" /\ Carries(toC[c], "file") /\ toC[c] # <<>>
    BY <1>1, <1>3, <1>10 DEF ClientReceives, Client, HearsC, Carries
  <2>2. /\ cl'[c].pc = "replace" /\ cl'[c].dir = cl[c].dir /\ cl'[c].todo = cl[c].todo
        /\ cl'[c].data = Head(toC[c]).data /\ cl'[c].meta = Head(toC[c]).meta
    BY <1>1, <1>10 DEF ClientReceives, Clients
  <2>3. toD'[c] = toD[c] /\ toC'[c] = Tail(toC[c]) /\ Alone(c)
    BY <1>1, <1>10 DEF ClientReceives, TakeC, Alone
  <2>4. toC'[c] = <<>>
    BY <1>1, <1>2, <2>1, <2>3, UnderWayDownload
  <2>5. WireKnows(f, k, cl'[c], dm[c], toD'[c], toC'[c])
    BY <1>4, <2>1, <2>2, <2>3, <2>4, CarriesNothing DEF WireKnows
  <2>6. First(cl[c].todo) = f => FileKnows(k, Head(toC[c]))
    BY <1>4, <2>1 DEF WireKnows
  <2>7. ClientKnows(f, k, cl'[c], local[f])
    BY <2>2, <2>6 DEF ClientKnows, FileKnows
  <2> QED BY <1>10, <2>3, <2>5, <2>7, ClientQuiet DEF ClientReceives, disk
<1>11. CASE ClientGivesUp(c)
  <2>1. /\ cl'[c].pc = "done" /\ cl'[c].dir = cl[c].dir /\ toC'[c] = <<>>
        /\ \/ toD'[c] = toD[c]
           \/ toD'[c] = Append(toD[c], Abort)
        /\ Alone(c)
    BY <1>11, ClientGaveUp
  <2>2. \/ toD'[c] = toD[c]
        \/ toD'[c] # <<>> /\ Head(toD'[c]) = IF toD[c] = <<>> THEN Abort ELSE Head(toD[c])
    <3>1. Abort \in Frames(clock) /\ toD[c] \in Seq(Frames(clock))
      BY <1>1, FramesMade DEF Types
    <3>2. Append(toD[c], Abort) # <<>>
          /\ Head(Append(toD[c], Abort)) = IF toD[c] = <<>> THEN Abort ELSE Head(toD[c])
      BY <3>1, HeadAppended
    <3> QED BY <2>1, <3>2
  <2>3. \A type \in {"manifest", "file"} :
            Carries(toD'[c], type) => Carries(toD[c], type) /\ Head(toD'[c]) = Head(toD[c])
    BY <2>2, FrameTypes DEF Carries
  <2>4. WireKnows(f, k, cl'[c], dm[c], toD'[c], toC'[c])
    BY <1>4, <2>1, <2>3, CarriesNothing DEF WireKnows
  <2>5. ClientKnows(f, k, cl'[c], local[f])
    BY <2>1 DEF ClientKnows
  <2> QED BY <1>11, <2>1, <2>4, <2>5, ClientQuiet DEF ClientGivesUp, disk
<1> QED BY <1>5, <1>6, <1>7, <1>8, <1>9, <1>10, <1>11

\* A queue that holds one frame at most, and one with nothing but an ABORT.
LEMMA OneFrame ==
    ASSUME NEW m, NEW q, q = <<>> \/ q = <<m>>
    PROVE  /\ \A type : Carries(q, type) => type = m.type /\ Head(q) = m
           /\ q # <<>> => Tail(q) = <<>>
<1>1. CASE q = <<>>
  BY <1>1, CarriesNothing
<1>2. CASE q = <<m>>
  BY <1>2, CarriesNothing
<1> QED BY <1>1, <1>2

LEMMA OnlyAbort ==
    ASSUME NEW q, q = <<>> \/ q = <<Abort>>
    PROVE  \A type : Carries(q, type) => type = "abort"
BY OneFrame, FrameTypes

LEMMA JudgeKeepsDates ==
    ASSUME Types, Lockstep, NEW f \in Files, NEW k, AllKnow(f, k), NEW c \in Conns, Judge(c)
    PROVE  AllKnow(f, k)'
<1>1. /\ dm \in [Conns -> ServerThreads(clock)] /\ cut \in [Conns -> BOOLEAN]
      /\ toD \in [Conns -> Seq(Frames(clock))] /\ toC \in [Conns -> Seq(Frames(clock))]
      /\ dm[c] \in ServerThreads(clock) /\ cut[c] \in BOOLEAN
      /\ cl[c].dir \in {"upload", "download"}
  BY TypeParts DEF Types
<1> DEFINE here == Head(toD[c]).entries
           there == IF Uploads(c) THEN remote ELSE dm[c].seen
<1>2. PICK todo, same, refused : Judgement(c, here, there, todo, same, refused)
  BY JudgeEffect
<1>3. /\ WireKnows(f, k, cl[c], dm[c], toD[c], toC[c])
      /\ Knows(k, remote[f]) /\ Knows(k, dm[c].seen[f]) /\ record[f].cli = record[f].remote
  BY DEF AllKnow, EndKnows
<1>4. dm[c].pc = "manifest" /\ Carries(toD[c], "manifest") /\ toD[c] # <<>>
  BY DEF Judge, Thread, HearsD, Carries
<1>5. Knows(k, here[f]) /\ Knows(k, there[f])
  BY <1>3, <1>4 DEF WireKnows
<1>6. f \in same => here[f].mtime = there[f].mtime
  BY <1>2, <1>3 DEF Judgement
<1> DEFINE stage == IF refused \/ todo = {} THEN "done"
                 ELSE IF Uploads(c) THEN "receive" ELSE "stat"
           plan == IF refused THEN {} ELSE todo
           old == IF todo = {} THEN 0 ELSE remote[First(todo)].id
           tmp == Uploads(c) /\ ~refused /\ todo # {}
           skipped == {<<g, here[g].id, there[g].id>> : g \in same}
           next == [dm[c] EXCEPT !.pc = stage, !.todo = plan, !.old = old, !.tmp = tmp,
                                 !.skipped = skipped]
           m == IF refused THEN Abort ELSE Plan(todo)
<1>7. /\ dm' = [dm EXCEPT ![c] = next]
      /\ cut' = [cut EXCEPT ![c] = @ \/ refused \/ todo = {}] /\ SendC(c, m)
  BY <1>2 DEF Judgement
<1>8. skipped = {<<g, here[g].id, there[g].id>> : g \in same}
  OBVIOUS
<1>9. stage \in {"done", "receive", "stat"}
  OBVIOUS
<1>10. m = Abort \/ m = Plan(todo)
  OBVIOUS
<1> HIDE DEF here, there, stage, plan, old, tmp, skipped, m
<1>11. next.pc = stage /\ next.seen = dm[c].seen /\ next.skipped = skipped
  BY <1>1 DEF ServerThreads
<1> HIDE DEF next
<1>12. dm'[c] = next
  BY <1>1, <1>7
<1>13. /\ toC'[c] = IF cut[c] THEN toC[c] ELSE Append(toC[c], m)
       /\ toD'[c] = Tail(toD[c]) /\ Alone(c)
  BY <1>1, <1>7 DEF Judge, SendC, TakeD, Alone
<1>14. toC[c] = <<>> /\ Tail(toD[c]) = <<>>
  <2>1. InStep(cl[c], dm[c], toD[c], toC[c], cut[c])
    BY DEF Lockstep
  <2> QED BY <1>1, <1>4, <2>1, UnderWayUpload, UnderWayDownload
<1>15. toD'[c] = <<>> /\ (toC'[c] = <<>> \/ toC'[c] = <<m>>)
  BY <1>13, <1>14, ShortQueues
<1>16. /\ ~Carries(toC'[c], "manifest") /\ ~Carries(toC'[c], "file")
       /\ toC'[c] # <<>> => Tail(toC'[c]) = <<>>
       /\ ~Carries(toD'[c], "manifest") /\ ~Carries(toD'[c], "file")
  <2>1. m.type \notin {"manifest", "file"}
    BY <1>10, FrameTypes
  <2>2. /\ \A type : Carries(toC'[c], type) => type = m.type
        /\ toC'[c] # <<>> => Tail(toC'[c]) = <<>>
    BY <1>15, OneFrame
  <2> QED BY <1>15, <2>1, <2>2, CarriesNothing
<1>17. WireKnows(f, k, cl[c], dm'[c], toD'[c], toC'[c])
  BY <1>16 DEF WireKnows
<1>18. ThreadKnows(f, k, dm'[c], remote[f])
  BY <1>9, <1>11, <1>12 DEF ThreadKnows
<1>19. JudgedSame(f, dm'[c]) /\ Knows(k, dm'[c].seen[f])
  <2>1. \A s \in skipped : s[1] = f => s[2] = s[3]
    <3> SUFFICES ASSUME NEW s \in skipped, s[1] = f PROVE s[2] = s[3]
      OBVIOUS
    <3>1. PICK g \in same : s = <<g, here[g].id, there[g].id>>
      BY <1>8
    <3>2. g = f /\ s[2] = here[g].id /\ s[3] = there[g].id
      BY <3>1
    <3> QED BY <1>5, <1>6, <3>2 DEF Knows
  <2> QED BY <1>3, <1>11, <1>12, <2>1 DEF JudgedSame
<1> QED BY <1>3, <1>13, <1>17, <1>18, <1>19, ThreadQuiet DEF Judge, disk

LEMMA ThreadKeepsDates ==
    ASSUME Types, Lockstep, NEW f \in Files, NEW k, AllKnow(f, k), NEW c \in Conns,
           \/ Scan(c) \/ ThreadReceives(c) \/ History(c) \/ Record(c) \/ ThreadRefuses(c)
           \/ ThreadStat(c) \/ ThreadSends(c) \/ ThreadAcked(c) \/ Restat(c) \/ ThreadQuits(c)
    PROVE  AllKnow(f, k)'
<1>1. /\ dm \in [Conns -> ServerThreads(clock)] /\ cut \in [Conns -> BOOLEAN]
      /\ toD \in [Conns -> Seq(Frames(clock))] /\ toC \in [Conns -> Seq(Frames(clock))]
      /\ dm[c] \in ServerThreads(clock) /\ cut[c] \in BOOLEAN
      /\ toD[c] \in Seq(Frames(clock)) /\ toC[c] \in Seq(Frames(clock))
      /\ cl[c].dir \in {"upload", "download"} /\ remote \in Trees(clock)
      /\ record \in [Files -> Records(clock)]
  BY TypeParts DEF Types
<1>2. InStep(cl[c], dm[c], toD[c], toC[c], cut[c])
  BY DEF Lockstep
<1>3. /\ cl[c].dir = "upload" =>
            dm[c].pc \in {"manifest", "receive", "replace", "utime", "history", "record",
                          "failed", "done"}
      /\ cl[c].dir = "download" =>
            dm[c].pc \in {"scan", "manifest", "stat", "read", "ack", "restat", "done"}
  BY <1>1, <1>2, WhereTheyAre
<1>4. /\ WireKnows(f, k, cl[c], dm[c], toD[c], toC[c])
      /\ ThreadKnows(f, k, dm[c], remote[f]) /\ Knows(k, remote[f])
      /\ Knows(k, dm[c].seen[f]) /\ JudgedSame(f, dm[c])
      /\ record[f].cli = record[f].remote
  BY DEF AllKnow, EndKnows
<1>5. CASE Scan(c)
  <2>1. dm[c].pc = "scan" /\ cl[c].dir = "download"
    BY <1>1, <1>3, <1>5 DEF Scan, Thread
  <2>2. dm'[c].pc = "manifest" /\ dm'[c].seen = remote /\ dm'[c].skipped = dm[c].skipped
    BY <1>1, <1>5 DEF Scan, ServerThreads
  <2>3. /\ toC'[c] = IF cut[c] THEN toC[c] ELSE Append(toC[c], Manifest(remote))
        /\ toD'[c] = toD[c] /\ Alone(c)
    BY <1>1, <1>5 DEF Scan, SendC, Alone
  <2>4. toC[c] = <<>>
    BY <1>1, <1>2, <2>1, UnderWayDownload
  <2>5. toC'[c] = <<>> \/ toC'[c] = <<Manifest(remote)>>
    BY <2>3, <2>4, ShortQueues
  <2>6. /\ Carries(toC'[c], "manifest") => Head(toC'[c]).entries = remote
        /\ ~Carries(toC'[c], "file") /\ (toC'[c] # <<>> => Tail(toC'[c]) = <<>>)
    <3>1. /\ Manifest(remote).type = "manifest" /\ Manifest(remote).entries = remote
      BY FrameTypes
    <3>2. /\ \A type : Carries(toC'[c], type) =>
                        type = Manifest(remote).type /\ Head(toC'[c]) = Manifest(remote)
          /\ toC'[c] # <<>> => Tail(toC'[c]) = <<>>
      BY <2>5, OneFrame
    <3> QED BY <3>1, <3>2
  <2>7. WireKnows(f, k, cl[c], dm'[c], toD'[c], toC'[c])
    BY <1>4, <2>1, <2>2, <2>3, <2>6 DEF WireKnows
  <2>8. ThreadKnows(f, k, dm'[c], remote[f])
    BY <2>2 DEF ThreadKnows
  <2>9. Knows(k, dm'[c].seen[f]) /\ JudgedSame(f, dm'[c])
    BY <1>4, <2>2 DEF JudgedSame
  <2> QED BY <1>4, <1>5, <2>3, <2>7, <2>8, <2>9, ThreadQuiet DEF Scan, disk
<1>6. CASE ThreadReceives(c)
  <2>1. dm[c].pc = "receive" /\ cl[c].dir = "upload" /\ Carries(toD[c], "file") /\ toD[c] # <<>>
    BY <1>1, <1>3, <1>6 DEF ThreadReceives, Thread, HearsD, Carries
  <2>2. /\ dm'[c].pc = "replace" /\ dm'[c].todo = dm[c].todo /\ dm'[c].seen = dm[c].seen
        /\ dm'[c].skipped = dm[c].skipped
        /\ dm'[c].data = Head(toD[c]).data /\ dm'[c].meta = Head(toD[c]).meta
    BY <1>1, <1>6 DEF ThreadReceives, ServerThreads
  <2>3. toC'[c] = toC[c] /\ toD'[c] = Tail(toD[c]) /\ Alone(c)
    BY <1>1, <1>6 DEF ThreadReceives, TakeD, Alone
  <2>4. ~Carries(toD'[c], "manifest")
    <3>1. Tail(toD[c]) = <<>> \/ Tail(toD[c]) = <<Abort>>
      BY <1>1, <1>2, <2>1, UnderWayUpload
    <3> QED BY <2>3, <3>1, OnlyAbort
  <2>5. WireKnows(f, k, cl[c], dm'[c], toD'[c], toC'[c])
    BY <1>4, <2>1, <2>2, <2>3, <2>4 DEF WireKnows
  <2>6. First(dm[c].todo) = f => FileKnows(k, Head(toD[c]))
    BY <1>4, <2>1 DEF WireKnows
  <2>7. ThreadKnows(f, k, dm'[c], remote[f])
    BY <2>2, <2>6 DEF ThreadKnows, FileKnows
  <2>8. Knows(k, dm'[c].seen[f]) /\ JudgedSame(f, dm'[c])
    BY <1>4, <2>2 DEF JudgedSame
  <2> QED BY <1>4, <1>6, <2>3, <2>5, <2>7, <2>8, ThreadQuiet DEF ThreadReceives, disk
<1>7. CASE History(c)
  <2>1. dm[c].pc = "history"
    BY <1>7 DEF History, Thread
  <2>2. /\ dm'[c].pc = "record" /\ dm'[c].todo = dm[c].todo /\ dm'[c].seen = dm[c].seen
        /\ dm'[c].skipped = dm[c].skipped /\ dm'[c].meta = dm[c].meta
    BY <1>1, <1>7 DEF History, ServerThreads
  <2>3. toC'[c] = toC[c] /\ toD'[c] = toD[c] /\ Alone(c)
    BY <1>1, <1>7 DEF History, wire, Alone
  <2>4. WireKnows(f, k, cl[c], dm'[c], toD'[c], toC'[c])
    BY <1>4, <2>2, <2>3 DEF WireKnows
  <2>5. ThreadKnows(f, k, dm'[c], remote[f])
    BY <1>4, <2>1, <2>2 DEF ThreadKnows
  <2>6. Knows(k, dm'[c].seen[f]) /\ JudgedSame(f, dm'[c])
    BY <1>4, <2>2 DEF JudgedSame
  <2> QED BY <1>4, <1>7, <2>3, <2>4, <2>5, <2>6, ThreadQuiet DEF History
<1>8. ASSUME NEW landed, ThreadGoesOn(c, landed), dm[c].pc \in {"record", "restat"}
      PROVE  /\ dm'[c].pc \in {"done", "receive", "stat"} /\ dm'[c].seen = dm[c].seen
             /\ dm'[c].skipped = dm[c].skipped
             /\ \A e \in Conns \ {c} : dm'[e] = dm[e] /\ cut'[e] = cut[e]
             /\ ThreadKnows(f, k, dm'[c], remote[f])
             /\ Knows(k, dm'[c].seen[f]) /\ JudgedSame(f, dm'[c])
  <2> DEFINE todo == Rest(dm[c].todo)
             tmp == Uploads(c) /\ todo # {}
             old == IF todo = {} THEN 0 ELSE remote[First(todo)].id
             stage == IF todo = {} THEN "done" ELSE IF Uploads(c) THEN "receive" ELSE "stat"
             next == [dm[c] EXCEPT !.todo = todo, !.landed = landed, !.meta = Absent,
                                   !.data = Absent, !.old = old, !.tmp = tmp, !.pc = stage]
  <2>1. dm' = [dm EXCEPT ![c] = next] /\ cut' = [cut EXCEPT ![c] = @ \/ todo = {}]
    BY <1>8 DEF ThreadGoesOn
  <2>2. stage \in {"done", "receive", "stat"}
    OBVIOUS
  <2> HIDE DEF todo, tmp, old, stage
  <2>3. next.seen = dm[c].seen /\ next.skipped = dm[c].skipped /\ next.pc = stage
    BY <1>1 DEF ServerThreads
  <2> HIDE DEF next
  <2>4. dm'[c] = next /\ \A e \in Conns \ {c} : dm'[e] = dm[e] /\ cut'[e] = cut[e]
    BY <1>1, <2>1
  <2>5. ThreadKnows(f, k, dm'[c], remote[f])
    BY <2>2, <2>3, <2>4 DEF ThreadKnows
  <2> QED BY <1>4, <2>2, <2>3, <2>4, <2>5 DEF JudgedSame
<1>9. CASE Record(c)
  <2>1. /\ dm[c].pc = "record" /\ cl[c].dir = "upload" /\ ThreadGoesOn(c, dm[c].landed)
        /\ SendC(c, Ack(TRUE)) /\ UNCHANGED <<cl, toD>>
    BY <1>1, <1>3, <1>9 DEF Record, Thread
  <2>2. /\ dm'[c].pc \in {"done", "receive", "stat"}
        /\ ThreadKnows(f, k, dm'[c], remote[f])
        /\ Knows(k, dm'[c].seen[f]) /\ JudgedSame(f, dm'[c])
        /\ \A e \in Conns \ {c} : dm'[e] = dm[e] /\ cut'[e] = cut[e]
    BY <1>8, <2>1
  <2>3. /\ toC'[c] = IF cut[c] THEN toC[c] ELSE Append(toC[c], Ack(TRUE))
        /\ toD'[c] = toD[c] /\ Alone(c)
    BY <1>1, <2>1, <2>2 DEF SendC, Alone
  <2>4. ~Carries(toD[c], "file") /\ ~Carries(toC[c], "manifest")
    BY <1>1, <1>2, <2>1, UnderWayUpload
  <2>5. \/ toC'[c] = toC[c] \/ Head(toC'[c]) = Ack(TRUE)
        \/ toC[c] # <<>> /\ Head(toC'[c]) = Head(toC[c])
    <3>1. Ack(TRUE) \in Frames(clock)
      BY FramesMade DEF Types
    <3>2. Head(Append(toC[c], Ack(TRUE))) = IF toC[c] = <<>> THEN Ack(TRUE) ELSE Head(toC[c])
      BY <1>1, <3>1, HeadAppended
    <3> QED BY <2>3, <3>2
  <2>6. ~Carries(toC'[c], "manifest")
    BY <2>4, <2>5, FrameTypes DEF Carries
  <2>7. WireKnows(f, k, cl[c], dm'[c], toD'[c], toC'[c])
    BY <1>4, <2>1, <2>3, <2>4, <2>6 DEF WireKnows
  <2>8. record'[f].cli = record'[f].remote
    <3> DEFINE g == First(dm[c].todo)
               new == RecordOf(dm[c].meta.size, dm[c].meta.mtime, remote[g].mtime)
    <3>1. record' = [record EXCEPT ![g] = new]
      BY <1>9 DEF Record, CurrentOfThread
    <3>2. new.cli = dm[c].meta.mtime /\ new.remote = remote[g].mtime
      BY DEF RecordOf
    <3>3. g = f => remote[g].mtime = dm[c].meta.mtime
      BY <1>4, <2>1 DEF ThreadKnows
    <3> HIDE DEF g, new
    <3>4. record'[f] = IF g = f THEN new ELSE record[f]
      BY <1>1, <3>1
    <3> QED BY <1>4, <3>2, <3>3, <3>4
  <2>9. UNCHANGED <<local, remote, cl>>
    BY <1>9 DEF Record
  <2> QED BY <2>2, <2>3, <2>7, <2>8, <2>9, ThreadQuiet
<1>10. CASE ThreadRefuses(c)
  <2>1. dm[c].pc \in {"receive", "replace", "utime", "record"} /\ cl[c].dir = "upload"
    BY <1>1, <1>3, <1>10 DEF ThreadRefuses, Thread
  <2>2. dm'[c].pc = "failed" /\ dm'[c].seen = dm[c].seen /\ dm'[c].skipped = dm[c].skipped
    BY <1>1, <1>10 DEF ThreadRefuses, ServerThreads
  <2>3. /\ toC'[c] = IF cut[c] THEN toC[c] ELSE Append(toC[c], Ack(FALSE))
        /\ toD'[c] = toD[c] /\ Alone(c)
    BY <1>1, <1>10 DEF ThreadRefuses, SendC, Alone
  <2>4. ~Carries(toC[c], "manifest")
    BY <1>1, <1>2, <2>1, UnderWayUpload
  <2>5. \/ toC'[c] = toC[c] \/ Head(toC'[c]) = Ack(FALSE)
        \/ toC[c] # <<>> /\ Head(toC'[c]) = Head(toC[c])
    <3>1. Ack(FALSE) \in Frames(clock)
      BY FramesMade DEF Types
    <3>2. Head(Append(toC[c], Ack(FALSE))) = IF toC[c] = <<>> THEN Ack(FALSE) ELSE Head(toC[c])
      BY <1>1, <3>1, HeadAppended
    <3> QED BY <2>3, <3>2
  <2>6. ~Carries(toC'[c], "manifest")
    BY <2>4, <2>5, FrameTypes DEF Carries
  <2>7. WireKnows(f, k, cl[c], dm'[c], toD'[c], toC'[c])
    BY <1>4, <2>1, <2>2, <2>3, <2>6 DEF WireKnows
  <2>8. ThreadKnows(f, k, dm'[c], remote[f])
    BY <2>2 DEF ThreadKnows
  <2>9. Knows(k, dm'[c].seen[f]) /\ JudgedSame(f, dm'[c])
    BY <1>4, <2>2 DEF JudgedSame
  <2> QED BY <1>4, <1>10, <2>3, <2>7, <2>8, <2>9, ThreadQuiet DEF ThreadRefuses, disk
<1>11. CASE ThreadStat(c)
  <2>1. dm[c].pc = "stat" /\ cl[c].dir = "download"
    BY <1>1, <1>3, <1>11 DEF ThreadStat, Thread
  <2>2. /\ dm'[c].pc = "read" /\ dm'[c].todo = dm[c].todo /\ dm'[c].seen = dm[c].seen
        /\ dm'[c].skipped = dm[c].skipped /\ dm'[c].meta = remote[First(dm[c].todo)]
    BY <1>1, <1>11 DEF ThreadStat, ServerThreads, CurrentOfThread
  <2>3. toC'[c] = toC[c] /\ toD'[c] = toD[c] /\ Alone(c)
    BY <1>1, <1>11 DEF ThreadStat, wire, Alone
  <2>4. WireKnows(f, k, cl[c], dm'[c], toD'[c], toC'[c])
    BY <1>4, <2>1, <2>2, <2>3 DEF WireKnows
  <2>5. ThreadKnows(f, k, dm'[c], remote[f])
    BY <2>2 DEF ThreadKnows
  <2>6. Knows(k, dm'[c].seen[f]) /\ JudgedSame(f, dm'[c])
    BY <1>4, <2>2 DEF JudgedSame
  <2> QED BY <1>4, <1>11, <2>3, <2>4, <2>5, <2>6, ThreadQuiet DEF ThreadStat, disk
<1>12. CASE ThreadSends(c)
  <2> DEFINE m == FileFrames(remote[CurrentOfThread(c)], dm[c].meta)
  <2>1. dm[c].pc = "read" /\ cl[c].dir = "download"
    BY <1>1, <1>3, <1>12 DEF ThreadSends, Thread
  <2>2. /\ dm'[c].pc = "ack" /\ dm'[c].seen = dm[c].seen /\ dm'[c].skipped = dm[c].skipped
    BY <1>1, <1>12 DEF ThreadSends, ServerThreads
  <2>3. SendC(c, m) /\ UNCHANGED <<local, remote, record, cl, toD, cut>>
        /\ dm' = [dm EXCEPT ![c].pc = "ack"]
    BY <1>12 DEF ThreadSends, disk
  <2>4. m.type = "file" /\ m.data = remote[First(dm[c].todo)] /\ m.meta = dm[c].meta
    BY FrameTypes DEF CurrentOfThread
  <2> HIDE DEF m
  <2>5. /\ toC'[c] = IF cut[c] THEN toC[c] ELSE Append(toC[c], m)
        /\ toD'[c] = toD[c] /\ Alone(c)
    BY <1>1, <2>3 DEF SendC, Alone
  <2>6. First(dm[c].todo) = f => FileKnows(k, m)
    BY <1>4, <2>1, <2>4 DEF ThreadKnows, FileKnows
  <2>7. WireKnows(f, k, cl[c], dm'[c], toD'[c], toC'[c])
    <3>1. CASE cut[c]
      BY <1>4, <2>1, <2>2, <2>5, <3>1 DEF WireKnows
    <3>2. CASE ~cut[c]
      <4>1. \/ cl[c].pc = "plan" /\ toC[c] = <<Plan(dm[c].todo)>>
            \/ cl[c].pc = "receive" /\ toC[c] = <<>> /\ dm[c].todo = cl[c].todo
        BY <1>1, <1>2, <2>1, <3>2, UnderWayDownload
      <4>2. CASE cl[c].pc = "plan" /\ toC[c] = <<Plan(dm[c].todo)>>
        <5>1. toC'[c] = <<Plan(dm[c].todo), m>>
          BY <2>5, <3>2, <4>2, ShortQueues
        <5>2. Head(toC'[c]) = Plan(dm[c].todo) /\ Tail(toC'[c]) = <<m>> /\ Head(<<m>>) = m
          BY <5>1, ShortQueues
        <5>3. /\ Head(toC'[c]).type = "plan" /\ Head(toC'[c]).todo = dm[c].todo
              /\ Head(Tail(toC'[c])) = m
          BY <5>2, FrameTypes
        <5> QED BY <1>4, <2>1, <2>5, <2>6, <4>2, <5>3 DEF WireKnows, Carries
      <4>3. CASE cl[c].pc = "receive" /\ toC[c] = <<>> /\ dm[c].todo = cl[c].todo
        <5>1. toC'[c] = <<m>>
          BY <2>5, <3>2, <4>3, ShortQueues
        <5>2. ~Carries(toC'[c], "manifest") /\ Head(toC'[c]) = m
          BY <2>4, <5>1, CarriesNothing
        <5> QED BY <1>4, <2>1, <2>5, <2>6, <4>3, <5>2 DEF WireKnows
      <4> QED BY <4>1, <4>2, <4>3
    <3> QED BY <3>1, <3>2
  <2>8. ThreadKnows(f, k, dm'[c], remote[f])
    BY <2>2 DEF ThreadKnows
  <2>9. Knows(k, dm'[c].seen[f]) /\ JudgedSame(f, dm'[c])
    BY <1>4, <2>2 DEF JudgedSame
  <2> QED BY <1>4, <2>3, <2>5, <2>7, <2>8, <2>9, ThreadQuiet
<1>13. CASE ThreadAcked(c)
  <2>1. /\ dm[c].pc = "ack" /\ cl[c].dir = "download" /\ Carries(toD[c], "ack")
    BY <1>1, <1>3, <1>13 DEF ThreadAcked, Thread, HearsD, Carries
  <2>2. dm'[c].pc = "restat" /\ dm'[c].seen = dm[c].seen /\ dm'[c].skipped = dm[c].skipped
    BY <1>1, <1>13 DEF ThreadAcked, ServerThreads
  <2>3. toC'[c] = toC[c] /\ toD'[c] = Tail(toD[c]) /\ Alone(c)
    BY <1>1, <1>13 DEF ThreadAcked, TakeD, Alone
  <2>4. ~Carries(toD'[c], "manifest")
    <3>1. Tail(toD[c]) = <<>> \/ Tail(toD[c]) = <<Abort>>
      BY <1>1, <1>2, <2>1, UnderWayDownload
    <3> QED BY <2>3, <3>1, OnlyAbort
  <2>5. WireKnows(f, k, cl[c], dm'[c], toD'[c], toC'[c])
    BY <1>4, <2>1, <2>3, <2>4 DEF WireKnows
  <2>6. ThreadKnows(f, k, dm'[c], remote[f])
    BY <2>2 DEF ThreadKnows
  <2>7. Knows(k, dm'[c].seen[f]) /\ JudgedSame(f, dm'[c])
    BY <1>4, <2>2 DEF JudgedSame
  <2> QED BY <1>4, <1>13, <2>3, <2>5, <2>6, <2>7, ThreadQuiet DEF ThreadAcked, disk
<1>14. CASE Restat(c)
  <2> DEFINE landed == dm[c].landed \cup
                        {[file |-> CurrentOfThread(c), over |-> 0, old |-> 0, new |-> 0]}
  <2>1. /\ dm[c].pc = "restat" /\ cl[c].dir = "download" /\ ThreadGoesOn(c, landed)
        /\ UNCHANGED <<local, remote, cl, toD, toC>>
    BY <1>1, <1>3, <1>14 DEF Restat, Thread
  <2> HIDE DEF landed
  <2>2. /\ dm'[c].pc \in {"done", "receive", "stat"}
        /\ ThreadKnows(f, k, dm'[c], remote[f])
        /\ Knows(k, dm'[c].seen[f]) /\ JudgedSame(f, dm'[c])
        /\ \A e \in Conns \ {c} : dm'[e] = dm[e] /\ cut'[e] = cut[e]
    BY <1>8, <2>1
  <2>3. Alone(c) /\ toC'[c] = toC[c] /\ toD'[c] = toD[c]
    BY <2>1, <2>2 DEF Alone
  <2>4. WireKnows(f, k, cl[c], dm'[c], toD'[c], toC'[c])
    BY <1>4, <2>1, <2>3 DEF WireKnows
  <2>5. record'[f].cli = record'[f].remote
    <3> DEFINE g == CurrentOfThread(c)
               new == RecordOf(remote[g].size, remote[g].mtime, remote[g].mtime)
    <3>1. record' = [record EXCEPT ![g] = new]
      BY <1>14 DEF Restat
    <3>2. new.cli = new.remote
      BY DEF RecordOf
    <3> HIDE DEF g, new
    <3>3. record'[f] = IF g = f THEN new ELSE record[f]
      BY <1>1, <3>1
    <3> QED BY <1>4, <3>2, <3>3
  <2> QED BY <2>1, <2>2, <2>3, <2>4, <2>5, ThreadQuiet
<1>15. CASE ThreadQuits(c)
  <2>1. dm'[c] = Ended(dm[c]) /\ toC'[c] = toC[c] /\ toD'[c] = <<>> /\ Alone(c)
    BY <1>1, <1>15 DEF ThreadQuits, HangUp, Alone
  <2>2. /\ Ended(dm[c]).pc = "done" /\ Ended(dm[c]).skipped = dm[c].skipped
        /\ Ended(dm[c]).seen = NoEntries
    BY DEF Ended, IdleThread
  <2>3. Knows(k, NoEntries[f])
    BY DEF AllKnow, Knows, NoEntries, Absent
  <2>4. WireKnows(f, k, cl[c], dm'[c], toD'[c], toC'[c])
    BY <1>4, <2>1, <2>2, CarriesNothing DEF WireKnows
  <2>5. ThreadKnows(f, k, dm'[c], remote[f])
    BY <2>1, <2>2 DEF ThreadKnows
  <2>6. Knows(k, dm'[c].seen[f]) /\ JudgedSame(f, dm'[c])
    BY <1>4, <2>1, <2>2, <2>3 DEF JudgedSame
  <2> QED BY <1>4, <1>15, <2>1, <2>4, <2>5, <2>6, ThreadQuiet DEF ThreadQuits, disk
<1> QED BY <1>5, <1>6, <1>7, <1>9, <1>10, <1>11, <1>12, <1>13, <1>14, <1>15

-----------------------------------------------------------------------------
(* The steps that change a tree.  A new time gets the contents written     *)
(* with it, and the copies that are there already have earlier times.      *)

\* What is under way carries copies of no later time.
LEMMA WireDated ==
    ASSUME NEW n \in Nat, NEW f \in Files, NEW client, NEW thread, NEW gone \in BOOLEAN,
           NEW up \in Seq(Frames(n)), NEW down \in Seq(Frames(n)),
           InStep(client, thread, up, down, gone)
    PROVE  /\ \A q \in {up, down} :
                /\ Carries(q, "manifest") => Head(q).entries[f].mtime \in 0..n
                /\ Carries(q, "file") => Head(q).meta.mtime \in 0..n
           /\ client.dir = "download" /\ client.pc = "plan" /\ down # <<>> /\ Tail(down) # <<>>
                => Head(Tail(down)).meta.mtime \in 0..n
<1>1. ASSUME NEW m \in Frames(n)
      PROVE  /\ m.type = "manifest" => m.entries[f].mtime \in 0..n
             /\ m.type = "file" => m.meta.mtime \in 0..n
  BY <1>1, FramesRead DEF Trees, Copies
<1>2. ASSUME NEW q \in Seq(Frames(n)), q # <<>> PROVE Head(q) \in Frames(n)
  BY <1>2
<1>3. ASSUME client.dir = "download", client.pc = "plan", down # <<>>, Tail(down) # <<>>
      PROVE  Head(Tail(down)).meta.mtime \in 0..n
  <2>1. DownloadWire(client, thread, up, down, gone)
    BY <1>3, DownloadParts
  <2>2. ~ \E m : down = <<m>>
    BY <1>3, CarriesNothing
  <2>7. PICK t \in SUBSET Files : \E m : m.type = "file" /\ down = <<Plan(t), m>>
    BY <1>3, <2>1, <2>2 DEF DownloadWire
  <2>3. PICK m : m.type = "file" /\ down = <<Plan(t), m>>
    BY <2>7
  <2>4. Tail(down) = <<m>> /\ Head(<<m>>) = m
    BY <2>3, ShortQueues
  <2>5. Tail(down) \in Seq(Frames(n))
    BY <1>3
  <2>6. Head(Tail(down)) \in Frames(n)
    BY <1>2, <1>3, <2>5
  <2> QED BY <1>1, <2>3, <2>4, <2>6
<1> QED BY <1>1, <1>2, <1>3 DEF Carries

LEMMA EndKept ==
    ASSUME NEW n \in Nat, NEW f \in Files, NEW k, NEW later, NEW gone \in BOOLEAN,
           \A i \in 0..n : later[i] = k[i],
           NEW client \in Clients(n), NEW thread \in ServerThreads(n),
           NEW up \in Seq(Frames(n)), NEW down \in Seq(Frames(n)),
           InStep(client, thread, up, down, gone), NEW x, NEW y,
           EndKnows(f, k, client, thread, up, down, x, y)
    PROVE  EndKnows(f, later, client, thread, up, down, x, y)
<1>1. client.meta.mtime \in 0..n /\ thread.meta.mtime \in 0..n /\ thread.seen[f].mtime \in 0..n
  BY DEF Clients, ServerThreads, Trees, Copies
<1>2. /\ ClientKnows(f, k, client, x) /\ ThreadKnows(f, k, thread, y)
      /\ WireKnows(f, k, client, thread, up, down)
      /\ Knows(k, thread.seen[f]) /\ JudgedSame(f, thread)
  BY DEF EndKnows
<1>3. ClientKnows(f, later, client, x)
  BY <1>1, <1>2 DEF ClientKnows, Knows
<1>4. ThreadKnows(f, later, thread, y)
  BY <1>1, <1>2 DEF ThreadKnows, Knows
<1>5. WireKnows(f, later, client, thread, up, down)
  <2>1. /\ \A q \in {up, down} :
                /\ Carries(q, "manifest") => Head(q).entries[f].mtime \in 0..n
                /\ Carries(q, "file") => Head(q).meta.mtime \in 0..n
        /\ client.dir = "download" /\ client.pc = "plan" /\ down # <<>> /\ Tail(down) # <<>>
                => Head(Tail(down)).meta.mtime \in 0..n
    BY WireDated
  <2> QED BY <1>2, <2>1 DEF WireKnows, FileKnows, Knows
<1>6. Knows(later, thread.seen[f])
  BY <1>1, <1>2 DEF Knows
<1> QED BY <1>2, <1>3, <1>4, <1>5, <1>6 DEF EndKnows

\* The ends that take no part keep to what they know of a file outside their window.
LEMMA OthersKept ==
    ASSUME Types, Lockstep, NEW f \in Files, NEW k, AllKnow(f, k),
           NEW later, \A i \in 0..clock : later[i] = k[i],
           NEW others, others \subseteq Conns,
           \A e \in others : /\ cl'[e] = cl[e] /\ dm'[e] = dm[e]
                             /\ toD'[e] = toD[e] /\ toC'[e] = toC[e],
           local'[f] = local[f] \/ f \notin WindowHere(others),
           remote'[f] = remote[f] \/ f \notin WindowThere(others)
    PROVE  \A e \in others :
                EndKnows(f, later, cl'[e], dm'[e], toD'[e], toC'[e], local'[f], remote'[f])
<1> SUFFICES ASSUME NEW e \in others
             PROVE  EndKnows(f, later, cl[e], dm[e], toD[e], toC[e], local'[f], remote'[f])
  OBVIOUS
<1>1. /\ clock \in Nat /\ cl[e] \in Clients(clock) /\ dm[e] \in ServerThreads(clock)
      /\ toD[e] \in Seq(Frames(clock)) /\ toC[e] \in Seq(Frames(clock)) /\ cut[e] \in BOOLEAN
  BY TypeParts DEF Types
<1>2. /\ InStep(cl[e], dm[e], toD[e], toC[e], cut[e])
      /\ EndKnows(f, k, cl[e], dm[e], toD[e], toC[e], local[f], remote[f])
  BY DEF Lockstep, AllKnow
<1>3. local'[f] = local[f] \/ ~(cl[e].pc \in {"read", "utime"} /\ First(cl[e].todo) = f)
  BY DEF WindowHere, CurrentOfClient
<1>4. \/ remote'[f] = remote[f]
      \/ ~ /\ dm[e].pc \in {"read", "utime", "history", "record"}
           /\ First(dm[e].todo) = f
  BY DEF WindowThere, CurrentOfThread
<1>5. EndKnows(f, later, cl[e], dm[e], toD[e], toC[e], local[f], remote[f])
  <2>1. \A i \in 0..clock : later[i] = k[i]
    OBVIOUS
  <2> QED BY <1>1, <1>2, <2>1, EndKept
<1>6. ClientKnows(f, later, cl[e], local'[f])
  BY <1>3, <1>5 DEF EndKnows, ClientKnows
<1>7. ThreadKnows(f, later, dm[e], remote'[f])
  BY <1>4, <1>5 DEF EndKnows, ThreadKnows
<1> QED BY <1>5, <1>6, <1>7 DEF EndKnows

\* The contents written at the next time.
LEMMA NextTime ==
    ASSUME NEW n \in Nat, NEW k \in [Nat -> Nat], NEW id \in Nat,
           NEW later, later = [k EXCEPT ![n + 1] = id]
    PROVE  later \in [Nat -> Nat] /\ later[n + 1] = id /\ \A i \in 0..n : later[i] = k[i]
OBVIOUS

LEMMA ClientReplacesKeepsDates ==
    ASSUME Types, Lockstep, NEW f \in Files, NEW k, AllKnow(f, k), NEW c \in Conns,
           ClientReplaces(c), f \notin collided'
    PROVE  \E later : AllKnow(f, later)'
<1> DEFINE g == First(cl[c].todo)
<1>1. /\ clock \in Nat /\ cl \in [Conns -> Clients(clock)] /\ cl[c] \in Clients(clock)
      /\ dm[c] \in ServerThreads(clock) /\ local \in Trees(clock) /\ remote \in Trees(clock)
      /\ toD[c] \in Seq(Frames(clock)) /\ toC[c] \in Seq(Frames(clock)) /\ cut[c] \in BOOLEAN
      /\ cl[c].dir \in {"upload", "download"} /\ cl[c].data.id \in Nat
      /\ local[f].mtime \in 0..clock /\ remote[f].mtime \in 0..clock
      /\ cl[c].meta.mtime \in 0..clock
  BY TypeParts DEF Types, Copies, Trees
<1>2. /\ k \in [Nat -> Nat] /\ k[0] = 0 /\ Knows(k, local[f]) /\ Knows(k, remote[f])
      /\ record[f].cli = record[f].remote
      /\ EndKnows(f, k, cl[c], dm[c], toD[c], toC[c], local[f], remote[f])
      /\ InStep(cl[c], dm[c], toD[c], toC[c], cut[c])
  BY DEF AllKnow, Lockstep
<1>13. PICK n, id, later : /\ n = clock /\ id = cl[c].data.id
                          /\ later = [k EXCEPT ![n + 1] = id]
  OBVIOUS
<1>3. /\ later \in [Nat -> Nat] /\ later[clock + 1] = cl[c].data.id
      /\ \A i \in 0..clock : later[i] = k[i]
  <2>1. n \in Nat /\ k \in [Nat -> Nat] /\ id \in Nat
    BY <1>1, <1>2, <1>13
  <2>2. later \in [Nat -> Nat] /\ later[n + 1] = id /\ \A i \in 0..n : later[i] = k[i]
    BY <1>13, <2>1, NextTime
  <2> QED BY <1>13, <2>2
<1>4. /\ cl[c].pc = "replace" /\ UNCHANGED <<remote, record, dm, toD, toC>>
      /\ local' = [local EXCEPT ![g] = [cl[c].data EXCEPT !.mtime = clock + 1]]
      /\ collided' = collided \cup ({g} \cap WindowHere(Conns \ {c}))
  BY DEF ClientReplaces, Client, wire, CurrentOfClient
<1>5. /\ cl'[c].pc = "utime" /\ cl'[c].todo = cl[c].todo /\ cl'[c].meta = cl[c].meta
      /\ cl'[c].dir = cl[c].dir
      /\ \A e \in Conns \ {c} : cl'[e] = cl[e]
  BY <1>1 DEF ClientReplaces, Clients
<1> DEFINE new == [cl[c].data EXCEPT !.mtime = clock + 1]
<1>6. new.id = cl[c].data.id /\ new.mtime = clock + 1
  BY <1>1 DEF Clients, Copies
<1>7. local'[f] = IF f = g THEN new ELSE local[f]
  BY <1>1, <1>4 DEF Trees
<1> HIDE DEF new, g
<1>8. EndKnows(f, later, cl[c], dm[c], toD[c], toC[c], local[f], remote[f])
  <2>1. /\ clock \in Nat /\ cl[c] \in Clients(clock) /\ dm[c] \in ServerThreads(clock)
        /\ toD[c] \in Seq(Frames(clock)) /\ toC[c] \in Seq(Frames(clock))
        /\ cut[c] \in BOOLEAN /\ \A i \in 0..clock : later[i] = k[i]
    BY <1>1, <1>3
  <2> QED BY <1>2, <2>1, EndKept
<1>9. Knows(later, local'[f]) /\ Knows(later, remote'[f])
  BY <1>1, <1>2, <1>3, <1>4, <1>6, <1>7 DEF Knows
<1>10. EndKnows(f, later, cl'[c], dm'[c], toD'[c], toC'[c], local'[f], remote'[f])
  <2>1. ClientKnows(f, later, cl'[c], local'[f])
    BY <1>4, <1>5, <1>6, <1>7, <1>8 DEF EndKnows, ClientKnows, g
  <2>2. WireKnows(f, later, cl'[c], dm[c], toD[c], toC[c])
    BY <1>5, <1>8 DEF EndKnows, WireKnows
  <2> QED BY <1>4, <1>8, <2>1, <2>2 DEF EndKnows
<1>11. \A e \in Conns \ {c} :
            EndKnows(f, later, cl'[e], dm'[e], toD'[e], toC'[e], local'[f], remote'[f])
  <2>1. local'[f] = local[f] \/ f \notin WindowHere(Conns \ {c})
    BY <1>4, <1>7
  <2> QED BY <1>3, <1>4, <1>5, <2>1, OthersKept
<1>12. AllKnow(f, later)'
  <2>1. later[0] = 0
    BY <1>1, <1>2, <1>3
  <2>2. \A e \in Conns :
            EndKnows(f, later, cl'[e], dm'[e], toD'[e], toC'[e], local'[f], remote'[f])
    BY <1>10, <1>11
  <2>3. record'[f].cli = record'[f].remote
    BY <1>2, <1>4
  <2> QED BY <1>3, <1>9, <2>1, <2>2, <2>3 DEF AllKnow
<1> QED BY <1>12

LEMMA ThreadReplacesKeepsDates ==
    ASSUME Types, Lockstep, NEW f \in Files, NEW k, AllKnow(f, k), NEW c \in Conns,
           ThreadReplaces(c), f \notin collided'
    PROVE  \E later : AllKnow(f, later)'
<1> DEFINE g == First(dm[c].todo)
<1>1. /\ clock \in Nat /\ dm \in [Conns -> ServerThreads(clock)] /\ cl[c] \in Clients(clock)
      /\ dm[c] \in ServerThreads(clock) /\ local \in Trees(clock) /\ remote \in Trees(clock)
      /\ toD[c] \in Seq(Frames(clock)) /\ toC[c] \in Seq(Frames(clock)) /\ cut[c] \in BOOLEAN
      /\ cl[c].dir \in {"upload", "download"} /\ dm[c].data.id \in Nat
      /\ local[f].mtime \in 0..clock /\ remote[f].mtime \in 0..clock
  BY TypeParts DEF Types, Copies, Trees
<1>2. /\ k \in [Nat -> Nat] /\ k[0] = 0 /\ Knows(k, local[f]) /\ Knows(k, remote[f])
      /\ record[f].cli = record[f].remote
      /\ EndKnows(f, k, cl[c], dm[c], toD[c], toC[c], local[f], remote[f])
      /\ InStep(cl[c], dm[c], toD[c], toC[c], cut[c])
  BY DEF AllKnow, Lockstep
<1>13. PICK n, id, later : /\ n = clock /\ id = dm[c].data.id
                          /\ later = [k EXCEPT ![n + 1] = id]
  OBVIOUS
<1>3. /\ later \in [Nat -> Nat] /\ later[clock + 1] = dm[c].data.id
      /\ \A i \in 0..clock : later[i] = k[i]
  <2>1. n \in Nat /\ k \in [Nat -> Nat] /\ id \in Nat
    BY <1>1, <1>2, <1>13
  <2>2. later \in [Nat -> Nat] /\ later[n + 1] = id /\ \A i \in 0..n : later[i] = k[i]
    BY <1>13, <2>1, NextTime
  <2> QED BY <1>13, <2>2
<1>4. /\ dm[c].pc = "replace" /\ UNCHANGED <<local, record, cl, toD, toC>>
      /\ remote' = [remote EXCEPT ![g] = [dm[c].data EXCEPT !.mtime = clock + 1]]
      /\ collided' = collided \cup ({g} \cap WindowThere(Conns \ {c}))
  BY DEF ThreadReplaces, Thread, wire, CurrentOfThread
<1>5. /\ dm'[c].pc = "utime" /\ dm'[c].todo = dm[c].todo /\ dm'[c].meta = dm[c].meta
      /\ dm'[c].seen = dm[c].seen /\ dm'[c].skipped = dm[c].skipped
      /\ \A e \in Conns \ {c} : dm'[e] = dm[e]
  BY <1>1 DEF ThreadReplaces, ServerThreads
<1> DEFINE new == [dm[c].data EXCEPT !.mtime = clock + 1]
<1>6. new.id = dm[c].data.id /\ new.mtime = clock + 1
  BY <1>1 DEF ServerThreads, Copies
<1>7. remote'[f] = IF f = g THEN new ELSE remote[f]
  BY <1>1, <1>4 DEF Trees
<1> HIDE DEF new, g
<1>8. EndKnows(f, later, cl[c], dm[c], toD[c], toC[c], local[f], remote[f])
  <2>1. /\ clock \in Nat /\ cl[c] \in Clients(clock) /\ dm[c] \in ServerThreads(clock)
        /\ toD[c] \in Seq(Frames(clock)) /\ toC[c] \in Seq(Frames(clock))
        /\ cut[c] \in BOOLEAN /\ \A i \in 0..clock : later[i] = k[i]
    BY <1>1, <1>3
  <2> QED BY <1>2, <2>1, EndKept
<1>9. Knows(later, local'[f]) /\ Knows(later, remote'[f])
  BY <1>1, <1>2, <1>3, <1>4, <1>6, <1>7 DEF Knows
<1>10. EndKnows(f, later, cl'[c], dm'[c], toD'[c], toC'[c], local'[f], remote'[f])
  <2>1. ThreadKnows(f, later, dm'[c], remote'[f])
    BY <1>4, <1>5, <1>6, <1>7, <1>8 DEF EndKnows, ThreadKnows, g
  <2>2. WireKnows(f, later, cl[c], dm'[c], toD[c], toC[c])
    BY <1>5, <1>8 DEF EndKnows, WireKnows
  <2>3. JudgedSame(f, dm'[c]) /\ Knows(later, dm'[c].seen[f])
    BY <1>5, <1>8 DEF EndKnows, JudgedSame
  <2> QED BY <1>4, <1>8, <2>1, <2>2, <2>3 DEF EndKnows
<1>11. \A e \in Conns \ {c} :
            EndKnows(f, later, cl'[e], dm'[e], toD'[e], toC'[e], local'[f], remote'[f])
  <2>1. remote'[f] = remote[f] \/ f \notin WindowThere(Conns \ {c})
    BY <1>4, <1>7
  <2> QED BY <1>3, <1>4, <1>5, <2>1, OthersKept
<1>12. AllKnow(f, later)'
  <2>1. later[0] = 0
    BY <1>1, <1>2, <1>3
  <2>2. \A e \in Conns :
            EndKnows(f, later, cl'[e], dm'[e], toD'[e], toC'[e], local'[f], remote'[f])
    BY <1>10, <1>11
  <2>3. record'[f].cli = record'[f].remote
    BY <1>2, <1>4
  <2> QED BY <1>3, <1>9, <2>1, <2>2, <2>3 DEF AllKnow
<1> QED BY <1>12

LEMMA ClientUtimeKeepsDates ==
    ASSUME Types, Lockstep, NEW f \in Files, NEW k, AllKnow(f, k), NEW c \in Conns,
           ClientUtime(c), f \notin collided'
    PROVE  AllKnow(f, k)'
<1> DEFINE g == First(cl[c].todo)
           todo == Rest(cl[c].todo)
           done == cl[c].done \cup {g}
<1>1. /\ cl \in [Conns -> Clients(clock)] /\ cl[c] \in Clients(clock)
      /\ local \in Trees(clock) /\ toD \in [Conns -> Seq(Frames(clock))]
      /\ cut \in [Conns -> BOOLEAN] /\ cut[c] \in BOOLEAN
      /\ cl[c].dir \in {"upload", "download"}
  BY TypeParts DEF Types
<1>2. /\ Knows(k, local[f]) /\ Knows(k, remote[f])
      /\ EndKnows(f, k, cl[c], dm[c], toD[c], toC[c], local[f], remote[f])
      /\ InStep(cl[c], dm[c], toD[c], toC[c], cut[c])
  BY DEF AllKnow, Lockstep
<1>3. /\ cl[c].pc = "utime" /\ UNCHANGED <<remote, record, dm, toC>>
      /\ local' = [local EXCEPT ![g].mtime = cl[c].meta.mtime]
      /\ collided' = collided \cup ({g} \cap WindowHere(Conns \ {c}))
      /\ SendD(c, Ack(TRUE)) /\ ClientGoesOn(c, todo, done)
  BY DEF ClientUtime, Client, CurrentOfClient
<1>4. /\ local'[f].id = local[f].id
      /\ f = g => local'[f].mtime = cl[c].meta.mtime
      /\ f # g => local'[f] = local[f]
  <2>1. PICK x : x = [local[f] EXCEPT !.mtime = cl[c].meta.mtime]
    OBVIOUS
  <2>2. x.id = local[f].id /\ x.mtime = cl[c].meta.mtime
    <3>1. local[f] \in Copies(clock)
      BY <1>1 DEF Trees
    <3> QED BY <2>1, <3>1 DEF Copies
  <2>3. (f = g => local'[f] = x) /\ (f # g => local'[f] = local[f])
    BY <1>1, <1>3, <2>1 DEF Trees
  <2> HIDE DEF g
  <2>4. CASE f = g
    BY <2>2, <2>3, <2>4
  <2>5. CASE f # g
    <3>1. local'[f] = local[f]
      BY <2>3, <2>5
    <3> QED BY <2>5, <3>1, Zenon
  <2> QED BY <2>4, <2>5
<1> HIDE DEF todo, done
<1>5. cl[c].dir = "download" /\ toC[c] = <<>> /\ toD[c] = <<>>
  <2>1. /\ cl[c].pc = "utime" /\ cl[c].dir \in {"upload", "download"} /\ cut[c] \in BOOLEAN
        /\ InStep(cl[c], dm[c], toD[c], toC[c], cut[c])
    BY <1>1, <1>2, <1>3
  <2>2. cl[c].dir = "download"
    BY <2>1, WhereTheyAre
  <2> QED BY <2>1, <2>2, UnderWayDownload
<1>6. /\ GoesOn(cl[c], cl'[c], todo, done)
      /\ \A e \in Conns \ {c} : cl'[e] = cl[e]
  BY <1>3, ClientGoneOn
<1>7. cl'[c].pc \in {"done", "receive"} /\ cl'[c].dir = "download"
  BY <1>5, <1>6 DEF GoesOn
<1>8. /\ toD'[c] = IF cut[c] THEN toD[c] ELSE Append(toD[c], Ack(TRUE))
      /\ \A e \in Conns \ {c} : toD'[e] = toD[e]
  BY <1>1, <1>3 DEF SendD
<1>9. toD'[c] = <<>> \/ toD'[c] = <<Ack(TRUE)>>
  BY <1>5, <1>8, ShortQueues
<1>10. ~Carries(toD'[c], "manifest") /\ ~Carries(toD'[c], "file")
  <2>1. \A type : Carries(toD'[c], type) => type = "ack"
    <3>1. \A type : Carries(toD'[c], type) => type = Ack(TRUE).type
      BY <1>9, OneFrame
    <3> QED BY <3>1, FrameTypes
  <2> QED BY <2>1
<1>11. Knows(k, local'[f])
  BY <1>2, <1>3, <1>4 DEF EndKnows, ClientKnows, Knows
<1>12. EndKnows(f, k, cl'[c], dm'[c], toD'[c], toC'[c], local'[f], remote'[f])
  <2>1. ClientKnows(f, k, cl'[c], local'[f])
    BY <1>7 DEF ClientKnows
  <2>2. WireKnows(f, k, cl'[c], dm[c], toD'[c], toC[c])
    BY <1>5, <1>7, <1>10, CarriesNothing DEF WireKnows
  <2> QED BY <1>2, <1>3, <2>1, <2>2 DEF EndKnows
<1>13. \A e \in Conns \ {c} :
            EndKnows(f, k, cl'[e], dm'[e], toD'[e], toC'[e], local'[f], remote'[f])
  <2>1. local'[f] = local[f] \/ f \notin WindowHere(Conns \ {c})
    BY <1>3, <1>4
  <2> QED BY <1>3, <1>6, <1>8, <2>1, OthersKept
<1> QED BY <1>2, <1>3, <1>11, <1>12, <1>13 DEF AllKnow

LEMMA ThreadUtimeKeepsDates ==
    ASSUME Types, Lockstep, NEW f \in Files, NEW k, AllKnow(f, k), NEW c \in Conns,
           ThreadUtime(c), f \notin collided'
    PROVE  AllKnow(f, k)'
<1> DEFINE g == First(dm[c].todo)
<1>1. /\ dm \in [Conns -> ServerThreads(clock)] /\ dm[c] \in ServerThreads(clock)
      /\ remote \in Trees(clock)
  BY TypeParts DEF Types
<1>2. /\ Knows(k, local[f]) /\ Knows(k, remote[f])
      /\ EndKnows(f, k, cl[c], dm[c], toD[c], toC[c], local[f], remote[f])
  BY DEF AllKnow
<1>3. /\ dm[c].pc = "utime" /\ UNCHANGED <<local, record, cl, toD, toC>>
      /\ remote' = [remote EXCEPT ![g].mtime = dm[c].meta.mtime]
      /\ collided' = collided \cup ({g} \cap WindowThere(Conns \ {c}))
  BY DEF ThreadUtime, Thread, wire, CurrentOfThread
<1>4. /\ dm'[c].pc = "history" /\ dm'[c].todo = dm[c].todo /\ dm'[c].meta = dm[c].meta
      /\ dm'[c].seen = dm[c].seen /\ dm'[c].skipped = dm[c].skipped
      /\ \A e \in Conns \ {c} : dm'[e] = dm[e]
  BY <1>1 DEF ThreadUtime, ServerThreads
<1>5. /\ remote'[f].id = remote[f].id
      /\ remote'[f].mtime = IF f = g THEN dm[c].meta.mtime ELSE remote[f].mtime
      /\ (f # g => remote'[f] = remote[f])
  BY <1>1, <1>3 DEF Trees, Copies
<1>6. Knows(k, remote'[f])
  BY <1>2, <1>3, <1>5 DEF EndKnows, ThreadKnows, Knows
<1>7. EndKnows(f, k, cl'[c], dm'[c], toD'[c], toC'[c], local'[f], remote'[f])
  <2>1. ThreadKnows(f, k, dm'[c], remote'[f])
    BY <1>4, <1>5 DEF ThreadKnows
  <2>2. WireKnows(f, k, cl[c], dm'[c], toD[c], toC[c])
    BY <1>2, <1>4 DEF EndKnows, WireKnows
  <2>3. JudgedSame(f, dm'[c]) /\ Knows(k, dm'[c].seen[f])
    BY <1>2, <1>4 DEF EndKnows, JudgedSame
  <2> QED BY <1>2, <1>3, <2>1, <2>2, <2>3 DEF EndKnows
<1>8. \A e \in Conns \ {c} :
            EndKnows(f, k, cl'[e], dm'[e], toD'[e], toC'[e], local'[f], remote'[f])
  <2>1. remote'[f] = remote[f] \/ f \notin WindowThere(Conns \ {c})
    BY <1>3, <1>5
  <2> QED BY <1>3, <1>4, <2>1, OthersKept
<1> QED BY <1>2, <1>3, <1>6, <1>7, <1>8 DEF AllKnow

LEMMA EditKeepsDates ==
    ASSUME Types, Lockstep, NEW f \in Files, NEW k, AllKnow(f, k), NEW g \in Files,
           NEW size, EditLocal(g, size) \/ EditRemote(g, size), f \notin collided'
    PROVE  \E later : AllKnow(f, later)'
<1>1. /\ clock \in Nat /\ local \in Trees(clock) /\ remote \in Trees(clock)
      /\ local[f].mtime \in 0..clock /\ remote[f].mtime \in 0..clock
  BY DEF Types, TypesUpTo, DiskTypes, Trees, Copies
<1>2. /\ k \in [Nat -> Nat] /\ k[0] = 0 /\ Knows(k, local[f]) /\ Knows(k, remote[f])
      /\ record[f].cli = record[f].remote
  BY DEF AllKnow
<1>3. PICK n, later : n = clock /\ later = [k EXCEPT ![n + 1] = n + 1]
  OBVIOUS
<1>4. /\ later \in [Nat -> Nat] /\ later[clock + 1] = clock + 1
      /\ \A i \in 0..clock : later[i] = k[i]
  <2>1. n \in Nat /\ k \in [Nat -> Nat] /\ n + 1 \in Nat
    BY <1>1, <1>2, <1>3
  <2>2. later \in [Nat -> Nat] /\ later[n + 1] = n + 1 /\ \A i \in 0..n : later[i] = k[i]
    BY <1>3, <2>1, NextTime
  <2> QED BY <1>3, <2>2
<1>5. later[0] = 0
  BY <1>1, <1>2, <1>4
<1>6. /\ UNCHANGED <<record, cl, dm, toD, toC>>
      /\ \/ /\ local' = [local EXCEPT ![g] = EditedFile(size)] /\ remote' = remote
            /\ collided' = collided \cup ({g} \cap WindowHere(Conns))
         \/ /\ remote' = [remote EXCEPT ![g] = EditedFile(size)] /\ local' = local
            /\ collided' = collided \cup ({g} \cap WindowThere(Conns))
  BY DEF EditLocal, EditRemote, wire
<1>7. /\ local'[f] = local[f] \/ (local'[f] = EditedFile(size) /\ f \notin WindowHere(Conns))
      /\ remote'[f] = remote[f] \/ (remote'[f] = EditedFile(size) /\ f \notin WindowThere(Conns))
  BY <1>1, <1>6 DEF Trees
<1>8. Knows(later, EditedFile(size)) /\ Knows(later, local[f]) /\ Knows(later, remote[f])
  <2>1. \/ EditedFile(size).id = 0 /\ EditedFile(size).mtime = 0
        \/ EditedFile(size).id = clock + 1 /\ EditedFile(size).mtime = clock + 1
    BY DEF EditedFile, Absent
  <2> QED BY <1>1, <1>2, <1>4, <1>5, <2>1 DEF Knows
<1>9. Knows(later, local'[f]) /\ Knows(later, remote'[f])
  BY <1>7, <1>8
<1>10. \A e \in Conns :
            EndKnows(f, later, cl'[e], dm'[e], toD'[e], toC'[e], local'[f], remote'[f])
  <2>1. \A e \in Conns : /\ cl'[e] = cl[e] /\ dm'[e] = dm[e]
                         /\ toD'[e] = toD[e] /\ toC'[e] = toC[e]
    BY <1>6
  <2> QED BY <1>4, <1>7, <2>1, OthersKept
<1>11. AllKnow(f, later)'
  BY <1>2, <1>4, <1>5, <1>6, <1>9, <1>10 DEF AllKnow
<1> QED BY <1>11

LEMMA StartKeepsDates ==
    ASSUME Types, NEW f \in Files, NEW k, AllKnow(f, k), NEW c \in Conns,
           NEW dir \in {"upload", "download"}, NEW force \in BOOLEAN, Start(c, dir, force)
    PROVE  AllKnow(f, k)'
<1> DEFINE client == [IdleClient EXCEPT !.pc = IF dir = "upload" THEN "plan" ELSE "manifest",
                                        !.dir = dir, !.force = force]
           thread == [IdleThread EXCEPT !.pc = IF dir = "upload" THEN "manifest" ELSE "scan"]
           up == IF dir = "upload" THEN <<Manifest(local)>> ELSE <<>>
<1>1. /\ cl \in [Conns -> Clients(clock)] /\ dm \in [Conns -> ServerThreads(clock)]
      /\ toD \in [Conns -> Seq(Frames(clock))] /\ toC \in [Conns -> Seq(Frames(clock))]
      /\ cut \in [Conns -> BOOLEAN]
  BY TypeParts DEF Types
<1>2. /\ client.pc \in {"plan", "manifest"}
      /\ thread.pc \in {"manifest", "scan"} /\ thread.skipped = {} /\ thread.seen = NoEntries
  BY DEF IdleClient, IdleThread
<1>3. up = <<>> \/ up = <<Manifest(local)>>
  OBVIOUS
<1>4. /\ cl' = [cl EXCEPT ![c] = client] /\ dm' = [dm EXCEPT ![c] = thread]
      /\ toD' = [toD EXCEPT ![c] = up] /\ toC' = [toC EXCEPT ![c] = <<>>]
      /\ cut' = [cut EXCEPT ![c] = FALSE] /\ UNCHANGED <<local, remote, record>>
  BY DEF Start, disk
<1> HIDE DEF client, thread, up
<1>5. cl'[c] = client /\ dm'[c] = thread /\ toD'[c] = up /\ toC'[c] = <<>>
  BY <1>1, <1>4
<1>6. \A e \in Conns \ {c} : /\ cl'[e] = cl[e] /\ dm'[e] = dm[e]
                             /\ toD'[e] = toD[e] /\ toC'[e] = toC[e]
  BY <1>1, <1>4
<1>7. k[0] = 0 /\ Knows(k, local[f])
  BY DEF AllKnow
<1>8. EndKnows(f, k, client, thread, up, <<>>, local[f], remote[f])
  <2>1. ClientKnows(f, k, client, local[f]) /\ ThreadKnows(f, k, thread, remote[f])
    BY <1>2 DEF ClientKnows, ThreadKnows
  <2>2. Carries(up, "manifest") => Head(up).entries[f] = local[f]
    <3>1. Carries(up, "manifest") => Head(up) = Manifest(local)
      BY <1>3, OneFrame
    <3> QED BY <3>1, FrameTypes
  <2>3. WireKnows(f, k, client, thread, up, <<>>)
    BY <1>2, <1>7, <2>2, CarriesNothing DEF WireKnows
  <2>4. Knows(k, thread.seen[f]) /\ JudgedSame(f, thread)
    BY <1>2, <1>7 DEF JudgedSame, Knows, NoEntries, Absent
  <2> QED BY <2>1, <2>3, <2>4 DEF EndKnows
<1>9. ASSUME NEW e \in Conns
      PROVE  EndKnows(f, k, cl'[e], dm'[e], toD'[e], toC'[e], local'[f], remote'[f])
  <2>1. CASE e = c
    BY <1>4, <1>5, <1>8, <2>1
  <2>2. CASE e # c
    BY <1>4, <1>6, <2>2 DEF AllKnow
  <2> QED BY <2>1, <2>2
<1> QED BY <1>4, <1>9 DEF AllKnow

LEMMA BreakKeepsDates ==
    ASSUME Types, NEW f \in Files, NEW k, AllKnow(f, k), NEW c \in Conns, Break(c)
    PROVE  AllKnow(f, k)'
<1>1. /\ toD \in [Conns -> Seq(Frames(clock))] /\ toC \in [Conns -> Seq(Frames(clock))]
  BY TypeParts DEF Types
<1>2. /\ toD'[c] = <<>> /\ toC'[c] = <<>> /\ UNCHANGED <<local, remote, record, cl, dm>>
      /\ \A e \in Conns \ {c} : toD'[e] = toD[e] /\ toC'[e] = toC[e]
  BY <1>1 DEF Break, disk
<1>3. ASSUME NEW e \in Conns
      PROVE  EndKnows(f, k, cl'[e], dm'[e], toD'[e], toC'[e], local'[f], remote'[f])
  <2>1. EndKnows(f, k, cl[e], dm[e], toD[e], toC[e], local[f], remote[f])
    BY DEF AllKnow
  <2>2. CASE e = c
    <3>1. WireKnows(f, k, cl[e], dm[e], <<>>, <<>>)
      BY CarriesNothing DEF WireKnows
    <3> QED BY <1>2, <2>1, <2>2, <3>1 DEF EndKnows
  <2>3. CASE e # c
    BY <1>2, <2>1, <2>3
  <2> QED BY <2>2, <2>3
<1> QED BY <1>2, <1>3 DEF AllKnow

LEMMA CrashKeepsDates ==
    ASSUME Types, NEW f \in Files, NEW k, AllKnow(f, k), Crash
    PROVE  AllKnow(f, k)'
<1>1. ASSUME NEW e \in Conns
      PROVE  EndKnows(f, k, cl'[e], dm'[e], toD'[e], toC'[e], local'[f], remote'[f])
  <2>1. /\ k[0] = 0 /\ EndKnows(f, k, cl[e], dm[e], toD[e], toC[e], local[f], remote[f])
    BY DEF AllKnow
  <2>2. /\ dm'[e] = Ended(dm[e]) /\ toD'[e] = <<>>
        /\ UNCHANGED <<local, remote, cl, toC>>
    BY DEF Crash, disk
  <2>3. /\ Ended(dm[e]).pc = "done" /\ Ended(dm[e]).skipped = dm[e].skipped
        /\ Ended(dm[e]).seen = NoEntries
    BY DEF Ended, IdleThread
  <2>4. ThreadKnows(f, k, Ended(dm[e]), remote[f])
    BY <2>3 DEF ThreadKnows
  <2>5. WireKnows(f, k, cl[e], Ended(dm[e]), <<>>, toC[e])
    BY <2>1, <2>3, CarriesNothing DEF EndKnows, WireKnows
  <2>6. Knows(k, NoEntries[f])
    BY <2>1 DEF Knows, NoEntries, Absent
  <2>7. Knows(k, Ended(dm[e]).seen[f]) /\ JudgedSame(f, Ended(dm[e]))
    BY <2>1, <2>3, <2>6 DEF EndKnows, JudgedSame
  <2> QED BY <2>1, <2>2, <2>4, <2>5, <2>7 DEF EndKnows
<1> QED BY <1>1 DEF AllKnow, Crash, disk

LEMMA FileKeepsDates ==
    ASSUME Types, Lockstep, NEW f \in Files, NEW k, AllKnow(f, k), TransferNext,
           f \notin collided'
    PROVE  \E later : AllKnow(f, later)'
<1>1. ASSUME NEW c \in Conns, ClientStep(c) PROVE \E later : AllKnow(f, later)'
  <2>1. CASE ClientReplaces(c)
    BY <2>1, ClientReplacesKeepsDates
  <2>2. CASE ClientUtime(c)
    BY <2>2, ClientUtimeKeepsDates
  <2>3. CASE \/ AnswerManifest(c) \/ TakePlan(c) \/ ClientStat(c) \/ ClientSends(c)
             \/ ClientAcked(c) \/ ClientReceives(c) \/ ClientFails(c)
    <3>1. AllKnow(f, k)'
      BY <2>3, ClientKeepsDates DEF ClientFails
    <3> QED BY <3>1
  <2> QED BY <1>1, <2>1, <2>2, <2>3 DEF ClientStep
<1>2. ASSUME NEW c \in Conns, ThreadStep(c) PROVE \E later : AllKnow(f, later)'
  <2>1. CASE ThreadReplaces(c)
    BY <2>1, ThreadReplacesKeepsDates
  <2>2. CASE ThreadUtime(c)
    BY <2>2, ThreadUtimeKeepsDates
  <2>3. CASE Judge(c)
    BY <2>3, JudgeKeepsDates
  <2>4. CASE \/ Scan(c) \/ ThreadReceives(c) \/ History(c) \/ Record(c) \/ ThreadRefuses(c)
             \/ ThreadStat(c) \/ ThreadSends(c) \/ ThreadAcked(c) \/ Restat(c) \/ ThreadQuits(c)
    <3>1. AllKnow(f, k)'
      BY <2>4, ThreadKeepsDates
    <3> QED BY <3>1
  <2> QED BY <1>2, <2>1, <2>2, <2>3, <2>4 DEF ThreadStep
<1>3. ASSUME NEW c \in Conns, ClientTimesOut(c) PROVE AllKnow(f, k)'
  BY <1>3, ClientKeepsDates DEF ClientTimesOut
<1>4. ASSUME NEW c \in Conns, Break(c) PROVE AllKnow(f, k)'
  BY <1>4, BreakKeepsDates
<1>5. ASSUME NEW c \in Conns, NEW dir \in {"upload", "download"}, NEW force \in BOOLEAN,
             Start(c, dir, force)
      PROVE  AllKnow(f, k)'
  BY <1>5, StartKeepsDates
<1>6. ASSUME NEW g \in Files, NEW size \in Sizes \cup {0},
             EditLocal(g, size) \/ EditRemote(g, size)
      PROVE  \E later : AllKnow(f, later)'
  BY <1>6, EditKeepsDates
<1>7. CASE Crash
  <2>1. AllKnow(f, k)'
    BY <1>7, CrashKeepsDates
  <2> QED BY <2>1
<1> QED BY <1>1, <1>2, <1>3, <1>4, <1>5, <1>6, <1>7 DEF TransferNext

\* A file once in two writers' windows stays marked.
LEMMA CollidedGrows ==
    ASSUME [TransferNext]_transferVars
    PROVE  collided \subseteq collided'
<1>1. ASSUME NEW c \in Conns, ClientStep(c) PROVE collided \subseteq collided'
  BY <1>1 DEF ClientStep, AnswerManifest, TakePlan, ClientStat, ClientSends, ClientAcked,
              ClientReceives, ClientReplaces, ClientUtime, ClientFails, ClientGivesUp
<1>2. ASSUME NEW c \in Conns, ThreadStep(c) PROVE collided \subseteq collided'
  BY <1>2 DEF ThreadStep, Scan, Judge, ThreadReceives, ThreadReplaces, ThreadUtime, History,
              Record, ThreadRefuses, ThreadStat, ThreadSends, ThreadAcked, Restat, ThreadQuits
<1>3. ASSUME NEW c \in Conns, ClientTimesOut(c) \/ Break(c) PROVE collided \subseteq collided'
  BY <1>3 DEF ClientTimesOut, ClientGivesUp, Break
<1>4. ASSUME NEW c, NEW dir, NEW force, Start(c, dir, force) PROVE collided \subseteq collided'
  BY <1>4 DEF Start
<1>5. ASSUME NEW g, NEW size, EditLocal(g, size) \/ EditRemote(g, size)
      PROVE  collided \subseteq collided'
  BY <1>5 DEF EditLocal, EditRemote
<1>6. CASE Crash
  BY <1>6 DEF Crash
<1>7. CASE UNCHANGED transferVars
  BY <1>7 DEF transferVars
<1> QED BY <1>1, <1>2, <1>3, <1>4, <1>5, <1>6, <1>7 DEF TransferNext

LEMMA StepKeepsDates ==
    ASSUME Types, Lockstep, Dated, [TransferNext]_transferVars
    PROVE  Dated'
<1> SUFFICES ASSUME NEW f \in Files, f \notin collided'
             PROVE  \E later : AllKnow(f, later)'
  BY DEF Dated
<1>1. PICK k : AllKnow(f, k)
  BY CollidedGrows DEF Dated
<1>2. CASE TransferNext
  BY <1>1, <1>2, FileKeepsDates
<1>3. CASE UNCHANGED transferVars
  <2>1. AllKnow(f, k)'
    BY <1>1, <1>3 DEF transferVars, disk, wire, AllKnow
  <2> QED BY <2>1
<1> QED BY <1>2, <1>3

LEMMA InitDated == TransferInit => Dated
<1> SUFFICES ASSUME TransferInit, NEW f \in Files PROVE \E k : AllKnow(f, k)
  BY DEF Dated
<1>1. PICK k : k = [i \in Nat |-> IF i = 1 THEN 1 ELSE 0]
  OBVIOUS
<1>2. k \in [Nat -> Nat] /\ k[0] = 0 /\ k[1] = 1
  BY <1>1
<1>3. /\ local[f].id = 1 /\ local[f].mtime = 1 /\ remote[f] = Absent /\ record[f] = NoRecord
  BY DEF TransferInit, NoEntries
<1>4. Absent.id = 0 /\ Absent.mtime = 0 /\ NoRecord.cli = 0 /\ NoRecord.remote = 0
      /\ NoEntries[f] = Absent
  BY DEF Absent, NoRecord, RecordOf, NoEntries
<1>5. Knows(k, local[f]) /\ Knows(k, Absent)
  BY <1>2, <1>3, <1>4 DEF Knows
<1>6. ASSUME NEW c \in Conns
      PROVE  EndKnows(f, k, cl[c], dm[c], toD[c], toC[c], local[f], remote[f])
  <2>1. cl[c] = IdleClient /\ dm[c] = IdleThread /\ toD[c] = <<>> /\ toC[c] = <<>>
    BY DEF TransferInit
  <2>2. /\ IdleClient.pc = "done" /\ IdleThread.pc = "done" /\ IdleThread.skipped = {}
        /\ IdleThread.seen = NoEntries
    BY DEF IdleClient, IdleThread
  <2>3. ClientKnows(f, k, IdleClient, local[f]) /\ ThreadKnows(f, k, IdleThread, remote[f])
    BY <2>2 DEF ClientKnows, ThreadKnows
  <2>4. WireKnows(f, k, IdleClient, IdleThread, <<>>, <<>>)
    BY CarriesNothing DEF WireKnows
  <2>5. Knows(k, IdleThread.seen[f]) /\ JudgedSame(f, IdleThread)
    BY <1>4, <1>5, <2>2 DEF JudgedSame
  <2> QED BY <2>1, <2>3, <2>4, <2>5 DEF EndKnows
<1>7. AllKnow(f, k)
  BY <1>2, <1>3, <1>4, <1>5, <1>6 DEF AllKnow
<1> QED BY <1>7

(* Every file that no two writers have changed in one another's window has *)
(* contents that its modification times tell, on both sides, in the table  *)
(* and under way (map.py TransferRecord rests on it).                      *)
THEOREM TimesTell == TransferSpec => []Dated
<1>1. TransferInit => Dated
  BY InitDated
<1>2. Types /\ Lockstep /\ Dated /\ [TransferNext]_transferVars => Dated'
  BY StepKeepsDates
<1> QED BY <1>1, <1>2, TransferInStep, PTL DEF TransferSpec

(* What the judgement by sizes and recorded times skips (judge.py          *)
(* classify) is the same on both sides, unless two writers changed it in   *)
(* one another's window.                                                   *)
THEOREM SkipsAreSame == TransferSpec => []SkippedIsSame
<1>1. Types /\ Dated => SkippedIsSame
  <2> SUFFICES ASSUME Types, Dated, NEW c \in Conns, NEW s \in dm[c].skipped,
                      s[1] \notin collided
               PROVE  s[2] = s[3]
    BY DEF SkippedIsSame
  <2>1. s \in Skips(clock)
    BY TypeParts DEF Types
  <2>2. s[1] \in Files
    BY <2>1 DEF Skips
  <2>3. PICK k : AllKnow(s[1], k)
    BY <2>2 DEF Dated
  <2>4. JudgedSame(s[1], dm[c])
    BY <2>3 DEF AllKnow, EndKnows
  <2> QED BY <2>4 DEF JudgedSame
<1> QED BY <1>1, TransferInStep, TimesTell, PTL

-----------------------------------------------------------------------------
(***************************************************************************)
(* What an upload has secured.  A landing is kept once the version chain   *)
(* has both its texts; the client has counted a file, or is about to, only *)
(* when its landing is kept, and a file lands once.                        *)
(***************************************************************************)
Kept(l, vers, lost) ==
    l.file \notin lost => {l.old, l.new} \ {0} \subseteq vers[l.file]
LandingsKept(thread, files, vers, lost) ==
    \A l \in thread.landed : l.file \in files => Kept(l, vers, lost)

\* The landing of the file that the thread is about to make a version of.
LandingKnown(l, thread, tree, lost) ==
    l.file = First(thread.todo) =>
        /\ l.old = thread.old /\ l.new # 0
        /\ l.file \in lost \/ tree[l.file].id = l.new

Secured(client, thread, up, down, tree, vers, lost) ==
    /\ LandingsKept(thread, client.done, vers, lost)
    /\ down = <<Ack(TRUE)>> => LandingsKept(thread, {First(client.todo)}, vers, lost)
    /\ thread.pc = "record" => LandingsKept(thread, {First(thread.todo)}, vers, lost)
    /\ thread.pc \in {"receive", "replace"} => Names(thread) \cap thread.todo = {}
    /\ thread.pc \in {"utime", "history", "record"} =>
            Names(thread) \cap thread.todo \subseteq {First(thread.todo)}
    /\ Carries(up, "file") => Head(up).data.id # 0
    /\ thread.pc = "replace" => thread.data.id # 0
    /\ thread.pc \in {"utime", "history"} =>
            \A l \in thread.landed : LandingKnown(l, thread, tree, lost)

Secure ==
    \A c \in Conns : Uploads(c) =>
        Secured(cl[c], dm[c], toD[c], toC[c], remote, versions, collided)

\* Versions are only added, and a file once in two writers' windows stays marked.
LEMMA KeptGrows ==
    ASSUME NEW thread, Names(thread) \subseteq Files, NEW files,
           NEW vers, NEW lost, NEW newVers, NEW newLost,
           lost \subseteq newLost, \A g \in Files : vers[g] \subseteq newVers[g],
           LandingsKept(thread, files, vers, lost)
    PROVE  LandingsKept(thread, files, newVers, newLost)
<1> SUFFICES ASSUME NEW l \in thread.landed, l.file \in files,
                    l.file \notin newLost
             PROVE  {l.old, l.new} \ {0} \subseteq newVers[l.file]
  BY DEF LandingsKept, Kept
<1>1. l.file \in Files
  BY DEF Names
<1>2. {l.old, l.new} \ {0} \subseteq vers[l.file]
  BY DEF LandingsKept, Kept
<1> QED BY <1>1, <1>2

LEMMA SecuredGrows ==
    ASSUME NEW client, NEW thread, Names(thread) \subseteq Files, NEW up, NEW down,
           NEW tree, NEW vers, NEW lost, NEW newTree, NEW newVers, NEW newLost,
           Secured(client, thread, up, down, tree, vers, lost),
           lost \subseteq newLost, \A g \in Files : vers[g] \subseteq newVers[g],
           \A g \in Files : \/ newTree[g].id = tree[g].id \/ g \in newLost
                            \/ ~(thread.pc \in {"utime", "history"} /\ First(thread.todo) = g)
    PROVE  Secured(client, thread, up, down, newTree, newVers, newLost)
<1>1. \A files : LandingsKept(thread, files, vers, lost)
                    => LandingsKept(thread, files, newVers, newLost)
  BY KeptGrows
<1>2. ASSUME NEW l \in thread.landed, thread.pc \in {"utime", "history"}
      PROVE  LandingKnown(l, thread, newTree, newLost)
  <2>1. l.file \in Files
    BY DEF Names
  <2>2. LandingKnown(l, thread, tree, lost)
    BY <1>2 DEF Secured
  <2> QED BY <1>2, <2>1, <2>2 DEF LandingKnown
<1> QED BY <1>1, <1>2 DEF Secured

LEMMA NamesTyped ==
    ASSUME Types, NEW c \in Conns
    PROVE  Names(dm[c]) \subseteq Files
<1>1. dm[c].landed \subseteq Landings(clock)
  BY TypeParts DEF Types
<1> QED BY <1>1 DEF Names, Landings

\* A step of one connection secures no less than there was.
LEMMA StaysSecure ==
    ASSUME Types, Secure, NEW c \in Conns, Alone(c),
           collided \subseteq collided', \A g \in Files : versions[g] \subseteq versions'[g],
           \A g \in Files : \/ remote'[g].id = remote[g].id \/ g \in collided'
                            \/ g \notin WindowThere(Conns \ {c}),
           cl'[c].dir = "upload" =>
                Secured(cl'[c], dm'[c], toD'[c], toC'[c], remote', versions', collided')
    PROVE  Secure'
<1> SUFFICES ASSUME NEW e \in Conns, cl'[e].dir = "upload"
             PROVE  Secured(cl'[e], dm'[e], toD'[e], toC'[e], remote', versions', collided')
  BY DEF Secure, Uploads
<1>1. CASE e = c
  BY <1>1
<1>2. CASE e # c
  <2>1. /\ cl'[e] = cl[e] /\ dm'[e] = dm[e] /\ toD'[e] = toD[e] /\ toC'[e] = toC[e]
        /\ Secured(cl[e], dm[e], toD[e], toC[e], remote, versions, collided)
    BY <1>2 DEF Alone, Secure, Uploads
  <2>2. Names(dm[e]) \subseteq Files
    BY NamesTyped
  <2>3. \A g \in Files : \/ remote'[g].id = remote[g].id \/ g \in collided'
                         \/ ~(dm[e].pc \in {"utime", "history"} /\ First(dm[e].todo) = g)
    BY <1>2 DEF WindowThere, CurrentOfThread
  <2>4. Secured(cl[e], dm[e], toD[e], toC[e], remote', versions', collided')
    BY <2>1, <2>2, <2>3, SecuredGrows
  <2> QED BY <2>1, <2>4
<1> QED BY <1>1, <1>2

\* Nothing has landed: the start of a transfer, and its plan.
LEMMA NothingLanded ==
    ASSUME NEW client, NEW thread, NEW up, NEW down, NEW tree, NEW vers, NEW lost,
           thread.landed = {}, thread.pc # "replace", ~Carries(up, "file")
    PROVE  Secured(client, thread, up, down, tree, vers, lost)
BY DEF Secured, LandingsKept, Names

LEMMA ClientSecured ==
    ASSUME NEW client, NEW thread, NEW up, NEW down, NEW tree, NEW vers, NEW lost,
           Secured(client, thread, up, down, tree, vers, lost),
           NEW next, \/ next.done \subseteq client.done
                     \/ /\ down = <<Ack(TRUE)>>
                        /\ next.done = client.done \cup {First(client.todo)},
           NEW newUp, Carries(newUp, "file") => Head(newUp).data.id # 0,
           NEW newDown, newDown = <<Ack(TRUE)>> => down = newDown /\ next.todo = client.todo
    PROVE  Secured(next, thread, newUp, newDown, tree, vers, lost)
<1>1. LandingsKept(thread, next.done, vers, lost)
  BY DEF Secured, LandingsKept
<1> QED BY <1>1 DEF Secured

LEMMA LandedSecured ==
    ASSUME NEW client, NEW thread, NEW up, NEW down, NEW tree, NEW vers, NEW lost,
           Secured(client, thread, up, down, tree, vers, lost),
           client.done \subseteq Names(thread), down # <<Ack(TRUE)>>,
           thread.pc = "replace", First(thread.todo) \in thread.todo,
           NEW l, l.file = First(thread.todo), l.old = thread.old, l.new = thread.data.id,
           NEW next, next.pc = "utime", next.todo = thread.todo, next.old = thread.old,
           next.landed = thread.landed \cup {l},
           NEW newTree, newTree[l.file].id = l.new
    PROVE  Secured(client, next, up, down, newTree, vers, lost)
<1>1. /\ LandingsKept(thread, client.done, vers, lost) /\ thread.data.id # 0
      /\ Names(thread) \cap thread.todo = {} /\ (Carries(up, "file") => Head(up).data.id # 0)
  BY DEF Secured
<1>2. l.file \notin Names(thread) /\ l.file \notin client.done
  BY <1>1
<1>3. LandingsKept(next, client.done, vers, lost)
  BY <1>1, <1>2 DEF LandingsKept
<1>4. Names(next) \cap next.todo \subseteq {First(next.todo)}
  BY <1>1, OneMoreLanded
<1>5. ASSUME NEW m \in next.landed PROVE LandingKnown(m, next, newTree, lost)
  <2>1. CASE m \in thread.landed
    <3>1. m.file \in Names(thread)
      BY <2>1 DEF Names
    <3> QED BY <1>2, <3>1 DEF LandingKnown
  <2>2. CASE m = l
    BY <1>1, <2>2 DEF LandingKnown
  <2> QED BY <2>1, <2>2
<1> QED BY <1>1, <1>3, <1>4, <1>5 DEF Secured

LEMMA VersionSecured ==
    ASSUME NEW client, NEW thread, Names(thread) \subseteq Files, NEW up, NEW down,
           NEW tree, NEW vers \in [Files -> SUBSET Nat], NEW lost,
           Secured(client, thread, up, down, tree, vers, lost),
           thread.pc = "history", First(thread.todo) \in Files,
           NEW next, next.pc = "record", next.todo = thread.todo, next.landed = thread.landed,
           NEW newVers,
           newVers = [vers EXCEPT ![First(thread.todo)] =
                        IF Exists(tree[First(thread.todo)])
                        THEN @ \cup ({thread.old, tree[First(thread.todo)].id} \ {0}) ELSE @]
    PROVE  /\ Secured(client, next, up, down, tree, newVers, lost)
           /\ \A g \in Files : vers[g] \subseteq newVers[g]
<1> DEFINE f == First(thread.todo)
<1>1. \A g \in Files : vers[g] \subseteq newVers[g]
  OBVIOUS
<1>2. Exists(tree[f]) => {thread.old, tree[f].id} \ {0} \subseteq newVers[f]
  OBVIOUS
<1> HIDE DEF f
<1>3. LandingsKept(thread, {f}, newVers, lost)
  <2> SUFFICES ASSUME NEW l \in thread.landed, l.file = f, l.file \notin lost
               PROVE  {l.old, l.new} \ {0} \subseteq newVers[l.file]
    BY DEF LandingsKept, Kept
  <2>1. l.old = thread.old /\ l.new # 0 /\ tree[f].id = l.new
    BY DEF Secured, LandingKnown, f
  <2> QED BY <1>2, <2>1 DEF Exists
<1>4. \A files : LandingsKept(thread, files, vers, lost)
                    => LandingsKept(thread, files, newVers, lost)
  BY <1>1, KeptGrows
<1>5. /\ LandingsKept(thread, client.done, newVers, lost)
      /\ down = <<Ack(TRUE)>> => LandingsKept(thread, {First(client.todo)}, newVers, lost)
  BY <1>4 DEF Secured
<1>6. Secured(client, next, up, down, tree, newVers, lost)
  BY <1>3, <1>5 DEF Secured, LandingsKept, Names, f
<1> QED BY <1>1, <1>6

LEMMA RecordSecured ==
    ASSUME NEW client, NEW thread, NEW up, NEW down, NEW tree, NEW vers, NEW lost,
           Secured(client, thread, up, down, tree, vers, lost), thread.pc = "record",
           thread.todo # {}, thread.todo \subseteq Files,
           NEW next, next.pc \in {"receive", "done"}, next.todo = Rest(thread.todo),
           next.landed = thread.landed,
           NEW newDown, \/ newDown = down
                        \/ First(client.todo) = First(thread.todo)
    PROVE  Secured(client, next, up, newDown, tree, vers, lost)
<1>1. /\ LandingsKept(thread, {First(thread.todo)}, vers, lost)
      /\ Names(thread) \cap thread.todo \subseteq {First(thread.todo)}
  BY DEF Secured
<1>2. Names(next) = Names(thread) /\ next.todo = thread.todo \ {First(thread.todo)}
  BY FirstIsOne DEF Names
<1>3. Names(next) \cap next.todo = {}
  BY <1>1, <1>2
<1>4. newDown = <<Ack(TRUE)>> => LandingsKept(next, {First(client.todo)}, vers, lost)
  BY <1>1 DEF Secured, LandingsKept
<1> QED BY <1>3, <1>4 DEF Secured, LandingsKept

LEMMA ClientKeepsSecure ==
    ASSUME Types, Lockstep, Secure, NEW c \in Conns,
           ClientStep(c) \/ ClientTimesOut(c)
    PROVE  Secure'
<1>1. /\ cl \in [Conns -> Clients(clock)] /\ cut \in [Conns -> BOOLEAN]
      /\ toD \in [Conns -> Seq(Frames(clock))] /\ toC \in [Conns -> Seq(Frames(clock))]
      /\ cl[c] \in Clients(clock) /\ cut[c] \in BOOLEAN
      /\ toD[c] \in Seq(Frames(clock)) /\ toC[c] \in Seq(Frames(clock))
      /\ cl[c].dir \in {"upload", "download"}
  BY TypeParts DEF Types
<1>2. InStep(cl[c], dm[c], toD[c], toC[c], cut[c])
  BY DEF Lockstep
<1>3. /\ cl[c].dir = "upload" => cl[c].pc \in {"plan", "stat", "read", "ack", "done"}
      /\ cl[c].dir = "download" =>
            cl[c].pc \in {"manifest", "plan", "receive", "replace", "utime", "done"}
  BY <1>1, <1>2, WhereTheyAre
<1>4. cl[c].dir = "upload" =>
            Secured(cl[c], dm[c], toD[c], toC[c], remote, versions, collided)
  BY DEF Secure, Uploads
<1>5. /\ UNCHANGED <<remote, versions, dm>> /\ collided \subseteq collided'
  BY DEF ClientStep, AnswerManifest, TakePlan, ClientStat, ClientSends, ClientAcked,
         ClientReceives, ClientReplaces, ClientUtime, ClientFails, ClientTimesOut,
         ClientGivesUp, disk
<1>6. ASSUME Alone(c),
             cl'[c].dir = "upload" =>
                /\ cl[c].dir = "upload"
                /\ \/ cl'[c].done \subseteq cl[c].done
                   \/ /\ toC[c] = <<Ack(TRUE)>>
                      /\ cl'[c].done = cl[c].done \cup {First(cl[c].todo)}
                /\ Carries(toD'[c], "file") => Head(toD'[c]).data.id # 0
                /\ toC'[c] = <<Ack(TRUE)>> => toC[c] = toC'[c] /\ cl'[c].todo = cl[c].todo
      PROVE  Secure'
  <2>1. ASSUME cl'[c].dir = "upload"
        PROVE  Secured(cl'[c], dm'[c], toD'[c], toC'[c], remote', versions', collided')
    <3>1. Secured(cl'[c], dm[c], toD'[c], toC'[c], remote, versions, collided)
      BY <1>4, <1>6, <2>1, ClientSecured
    <3>2. Names(dm[c]) \subseteq Files
      BY NamesTyped
    <3>3. Secured(cl'[c], dm[c], toD'[c], toC'[c], remote, versions, collided')
      BY <1>5, <3>1, <3>2, SecuredGrows
    <3> QED BY <1>5, <3>3
  <2> QED BY <1>5, <1>6, <2>1, StaysSecure
<1>7. CASE AnswerManifest(c) \/ ClientReceives(c) \/ ClientReplaces(c)
  <2>1. cl[c].dir = "download"
    BY <1>1, <1>3, <1>7 DEF AnswerManifest, ClientReceives, ClientReplaces, Client
  <2>2. Alone(c) /\ cl'[c].dir = cl[c].dir
    BY <1>1, <1>7 DEF AnswerManifest, ClientReceives, ClientReplaces, SendD, TakeC, wire,
                      Alone, Clients
  <2> QED BY <1>6, <2>1, <2>2
<1>8. CASE ClientUtime(c)
  <2> DEFINE todo == Rest(cl[c].todo)
             done == cl[c].done \cup {CurrentOfClient(c)}
  <2>1. cl[c].dir = "download" /\ ClientGoesOn(c, todo, done)
    BY <1>1, <1>3, <1>8 DEF ClientUtime, Client
  <2> HIDE DEF todo, done
  <2>2. /\ GoesOn(cl[c], cl'[c], todo, done)
        /\ \A e \in Conns \ {c} : cl'[e] = cl[e] /\ cut'[e] = cut[e]
    BY <2>1, ClientGoneOn
  <2>3. Alone(c) /\ cl'[c].dir = cl[c].dir
    BY <1>1, <1>8, <2>2 DEF ClientUtime, SendD, Alone, GoesOn
  <2> QED BY <1>6, <2>1, <2>3
<1>9. CASE TakePlan(c)
  <2> DEFINE t == Head(toC[c]).todo
  <2>1. /\ cl[c].pc = "plan" /\ toC[c] # <<>> /\ ClientGoesOn(c, t, {})
    BY <1>9 DEF TakePlan, Client, HearsC
  <2> HIDE DEF t
  <2>2. /\ GoesOn(cl[c], cl'[c], t, {})
        /\ \A e \in Conns \ {c} : cl'[e] = cl[e] /\ cut'[e] = cut[e]
    BY <2>1, ClientGoneOn
  <2>3. toC'[c] = Tail(toC[c]) /\ toD'[c] = toD[c] /\ Alone(c)
    BY <1>1, <1>9, <2>2 DEF TakePlan, TakeC, Alone
  <2>4. cl'[c].dir = cl[c].dir /\ cl'[c].done = {}
    BY <2>2 DEF GoesOn
  <2>5. cl[c].dir = "upload" => toC'[c] = <<>>
    BY <1>1, <1>2, <2>1, <2>3, UnderWayUpload
  <2>6. cl[c].dir = "upload" /\ Carries(toD[c], "file") => Head(toD[c]).data.id # 0
    BY <1>4 DEF Secured
  <2> QED BY <1>6, <2>3, <2>4, <2>5, <2>6, QueuesDiffer
<1>10. CASE ClientStat(c)
  <2>1. /\ cl'[c].dir = cl[c].dir /\ cl'[c].todo = cl[c].todo /\ cl'[c].done = cl[c].done
        /\ toD'[c] = toD[c] /\ toC'[c] = toC[c] /\ Alone(c)
    BY <1>1, <1>10 DEF ClientStat, wire, Alone, Clients
  <2>2. cl[c].dir = "upload" /\ Carries(toD[c], "file") => Head(toD[c]).data.id # 0
    BY <1>4 DEF Secured
  <2> QED BY <1>6, <2>1, <2>2
<1>11. CASE ClientSends(c)
  <2> DEFINE m == FileFrames(local[CurrentOfClient(c)], cl[c].meta)
  <2>1. cl[c].pc = "read" /\ cl[c].dir = "upload" /\ Exists(local[CurrentOfClient(c)])
    BY <1>1, <1>3, <1>11 DEF ClientSends, Client
  <2>2. cl'[c].dir = cl[c].dir /\ cl'[c].todo = cl[c].todo /\ cl'[c].done = cl[c].done
    BY <1>1, <1>11 DEF ClientSends, Clients
  <2>3. SendD(c, m) /\ UNCHANGED <<dm, toC, cut>> /\ cl' = [cl EXCEPT ![c].pc = "ack"]
    BY <1>11 DEF ClientSends
  <2>4. m.data.id # 0
    BY <2>1, FrameTypes DEF Exists
  <2> HIDE DEF m
  <2>5. /\ toD'[c] = IF cut[c] THEN toD[c] ELSE Append(toD[c], m)
        /\ toC'[c] = toC[c] /\ Alone(c)
    BY <1>1, <2>3 DEF SendD, Alone
  <2>6. toD[c] = <<>>
    BY <1>1, <1>2, <2>1, UnderWayUpload
  <2>7. toD'[c] = <<>> \/ toD'[c] = <<m>>
    BY <2>5, <2>6, ShortQueues
  <2>8. Carries(toD'[c], "file") => Head(toD'[c]) = m
    BY <2>7, OneFrame
  <2> QED BY <1>6, <2>1, <2>2, <2>4, <2>5, <2>8
<1>12. CASE ClientAcked(c)
  <2> DEFINE todo == Rest(cl[c].todo)
             done == cl[c].done \cup {First(cl[c].todo)}
  <2>1. /\ cl[c].pc = "ack" /\ toC[c] # <<>> /\ cl[c].dir = "upload"
        /\ Head(toC[c]).type = "ack" /\ Head(toC[c]).ok /\ ClientGoesOn(c, todo, done)
    BY <1>1, <1>3, <1>12 DEF ClientAcked, Client, HearsC, CurrentOfClient
  <2>2. done = cl[c].done \cup {First(cl[c].todo)}
    OBVIOUS
  <2> HIDE DEF todo, done
  <2>3. /\ GoesOn(cl[c], cl'[c], todo, done)
        /\ \A e \in Conns \ {c} : cl'[e] = cl[e] /\ cut'[e] = cut[e]
    BY <2>1, ClientGoneOn
  <2>4. toC'[c] = Tail(toC[c]) /\ toD'[c] = toD[c] /\ Alone(c)
    BY <1>1, <1>12, <2>3 DEF ClientAcked, TakeC, Alone
  <2>5. toC[c] = <<Ack(TRUE)>>
    <3>1. PICK ok \in BOOLEAN : toC[c] = <<Ack(ok)>>
      BY <1>2, <2>1 DEF InStep, UploadWire
    <3>2. Head(toC[c]) = Ack(ok)
      BY <3>1, CarriesNothing
    <3> QED BY <2>1, <3>1, <3>2, FrameTypes
  <2>6. toC'[c] = <<>>
    BY <2>4, <2>5, ShortQueues
  <2>7. cl'[c].done = done /\ cl'[c].dir = cl[c].dir
    BY <2>3 DEF GoesOn
  <2>8. Carries(toD[c], "file") => Head(toD[c]).data.id # 0
    BY <1>4, <2>1 DEF Secured
  <2> QED BY <1>6, <2>1, <2>2, <2>4, <2>5, <2>6, <2>7, <2>8, QueuesDiffer
<1>13. CASE ClientGivesUp(c)
  <2>1. /\ cl'[c].dir = cl[c].dir /\ cl'[c].done = cl[c].done /\ toC'[c] = <<>>
        /\ toD'[c] = toD[c] \/ toD'[c] = Append(toD[c], Abort)
        /\ Alone(c)
    BY <1>13, ClientGaveUp
  <2>2. \/ toD'[c] = toD[c]
        \/ Head(toD'[c]) = IF toD[c] = <<>> THEN Abort ELSE Head(toD[c])
    <3>1. Abort \in Frames(clock) /\ toD[c] \in Seq(Frames(clock))
      BY <1>1, FramesMade DEF Types
    <3>2. Head(Append(toD[c], Abort)) = IF toD[c] = <<>> THEN Abort ELSE Head(toD[c])
      BY <3>1, HeadAppended
    <3> QED BY <2>1, <3>2
  <2>3. Carries(toD'[c], "file") => Carries(toD[c], "file") /\ Head(toD'[c]) = Head(toD[c])
    BY <2>2, FrameTypes DEF Carries
  <2>4. cl[c].dir = "upload" /\ Carries(toD[c], "file") => Head(toD[c]).data.id # 0
    BY <1>4 DEF Secured
  <2> QED BY <1>6, <2>1, <2>3, <2>4, QueuesDiffer
<1> QED BY <1>7, <1>8, <1>9, <1>10, <1>11, <1>12, <1>13
        DEF ClientStep, ClientFails, ClientTimesOut

LEMMA ThreadKeepsSecure ==
    ASSUME Types, Lockstep, Secure, NEW c \in Conns, ThreadStep(c)
    PROVE  Secure'
<1>1. /\ dm \in [Conns -> ServerThreads(clock)] /\ cut \in [Conns -> BOOLEAN]
      /\ toD \in [Conns -> Seq(Frames(clock))] /\ toC \in [Conns -> Seq(Frames(clock))]
      /\ dm[c] \in ServerThreads(clock) /\ cut[c] \in BOOLEAN /\ clock \in Nat
      /\ toD[c] \in Seq(Frames(clock)) /\ toC[c] \in Seq(Frames(clock))
      /\ cl[c].dir \in {"upload", "download"} /\ remote \in Trees(clock)
      /\ versions \in [Files -> SUBSET (1..clock)] /\ dm[c].todo \subseteq Files
  BY TypeParts DEF Types
<1>2. /\ InStep(cl[c], dm[c], toD[c], toC[c], cut[c])
      /\ Busy(cl[c], dm[c]) /\ Framed(cl[c], dm[c], toC[c], cut[c])
  BY DEF Lockstep, InStep
<1>3. /\ cl[c].dir = "upload" =>
            dm[c].pc \in {"manifest", "receive", "replace", "utime", "history", "record",
                          "failed", "done"}
      /\ cl[c].dir = "download" =>
            dm[c].pc \in {"scan", "manifest", "stat", "read", "ack", "restat", "done"}
  BY <1>1, <1>2, WhereTheyAre
<1>4. cl[c].dir = "upload" =>
            /\ Secured(cl[c], dm[c], toD[c], toC[c], remote, versions, collided)
            /\ UploadLevel(cl[c], dm[c], toD[c], toC[c])
            /\ UploadWire(cl[c], dm[c], toD[c], toC[c], cut[c])
            /\ ~cut[c] => UploadAgree(cl[c], dm[c], toD[c], toC[c])
  BY <1>2 DEF Secure, Uploads, InStep
<1>5. dm[c].todo # {} => First(dm[c].todo) \in dm[c].todo /\ First(dm[c].todo) \in Files
  BY <1>1, FirstIsOne
<1>6. ASSUME Alone(c), UNCHANGED <<remote, versions, cl, collided>>,
             cl[c].dir = "upload" =>
                Secured(cl[c], dm'[c], toD'[c], toC'[c], remote, versions, collided)
      PROVE  Secure'
  BY <1>6, StaysSecure
<1>7. CASE Scan(c) \/ ThreadStat(c) \/ ThreadSends(c) \/ ThreadAcked(c)
  <2>1. cl[c].dir = "download"
    BY <1>1, <1>3, <1>7 DEF Scan, ThreadStat, ThreadSends, ThreadAcked, Thread
  <2>2. Alone(c) /\ UNCHANGED <<remote, versions, cl, collided>>
    BY <1>1, <1>7 DEF Scan, ThreadStat, ThreadSends, ThreadAcked, SendC, TakeD, wire, disk, Alone
  <2> QED BY <1>6, <2>1, <2>2
<1>8. CASE Restat(c)
  <2> DEFINE landed == dm[c].landed \cup
                        {[file |-> CurrentOfThread(c), over |-> 0, old |-> 0, new |-> 0]}
  <2>1. /\ cl[c].dir = "download" /\ ThreadGoesOn(c, landed)
        /\ UNCHANGED <<remote, versions, cl, collided, toD, toC>>
    BY <1>1, <1>3, <1>8 DEF Restat, Thread
  <2> HIDE DEF landed
  <2>2. Alone(c)
    BY <2>1, ThreadGoneOn DEF Alone
  <2> QED BY <1>6, <2>1, <2>2
<1>9. CASE Judge(c)
  <2> DEFINE here == Head(toD[c]).entries
             there == IF Uploads(c) THEN remote ELSE dm[c].seen
  <2>1. PICK todo, same, refused : Judgement(c, here, there, todo, same, refused)
    BY <1>9, JudgeEffect
  <2> DEFINE stage == IF refused \/ todo = {} THEN "done"
                   ELSE IF Uploads(c) THEN "receive" ELSE "stat"
             plan == IF refused THEN {} ELSE todo
             old == IF todo = {} THEN 0 ELSE remote[First(todo)].id
             tmp == Uploads(c) /\ ~refused /\ todo # {}
             skipped == {<<g, here[g].id, there[g].id>> : g \in same}
             next == [dm[c] EXCEPT !.pc = stage, !.todo = plan, !.old = old, !.tmp = tmp,
                                   !.skipped = skipped]
             m == IF refused THEN Abort ELSE Plan(todo)
  <2>2. /\ dm' = [dm EXCEPT ![c] = next]
        /\ cut' = [cut EXCEPT ![c] = @ \/ refused \/ todo = {}] /\ SendC(c, m)
    BY <2>1 DEF Judgement
  <2>3. stage \in {"done", "receive", "stat"}
    OBVIOUS
  <2> HIDE DEF here, there, stage, plan, old, tmp, skipped, m
  <2>4. next.pc = stage /\ next.landed = dm[c].landed
    BY <1>1 DEF ServerThreads
  <2> HIDE DEF next
  <2>5. /\ dm'[c] = next /\ toD'[c] = Tail(toD[c]) /\ Alone(c)
        /\ UNCHANGED <<remote, versions, cl, collided>>
    BY <1>1, <1>9, <2>2 DEF Judge, SendC, TakeD, Alone, disk
  <2>6. dm[c].pc = "manifest" /\ toD[c] # <<>>
    BY <1>9 DEF Judge, Thread, HearsD
  <2>7. dm[c].landed = {}
    BY <1>2, <2>6 DEF Framed
  <2>8. ASSUME cl[c].dir = "upload"
        PROVE  Secured(cl[c], dm'[c], toD'[c], toC'[c], remote, versions, collided)
    <3>1. Tail(toD[c]) = <<>>
      BY <1>1, <1>2, <2>6, <2>8, UnderWayUpload
    <3>2. ~Carries(toD'[c], "file")
      BY <2>5, <3>1, CarriesNothing
    <3> QED BY <2>3, <2>4, <2>5, <2>7, <3>2, NothingLanded
  <2> QED BY <1>6, <2>5, <2>8
<1>10. CASE ThreadReceives(c)
  <2>1. dm[c].pc = "receive" /\ cl[c].dir = "upload" /\ Carries(toD[c], "file")
    BY <1>1, <1>3, <1>10 DEF ThreadReceives, Thread, HearsD, Carries
  <2>2. /\ dm'[c].pc = "replace" /\ dm'[c].todo = dm[c].todo
        /\ dm'[c].landed = dm[c].landed /\ dm'[c].data = Head(toD[c]).data
    BY <1>1, <1>10 DEF ThreadReceives, ServerThreads
  <2>3. /\ toC'[c] = toC[c] /\ toD'[c] = Tail(toD[c]) /\ Alone(c)
        /\ UNCHANGED <<remote, versions, cl, collided>>
    BY <1>1, <1>10 DEF ThreadReceives, TakeD, Alone, disk
  <2>4. ~Carries(toD'[c], "file")
    <3>1. Tail(toD[c]) = <<>> \/ Tail(toD[c]) = <<Abort>>
      BY <1>1, <1>2, <2>1, UnderWayUpload
    <3> QED BY <2>3, <3>1, OnlyAbort
  <2>5. Secured(cl[c], dm'[c], toD'[c], toC'[c], remote, versions, collided)
    BY <1>4, <2>1, <2>2, <2>3, <2>4 DEF Secured, LandingsKept, Names
  <2> QED BY <1>6, <2>3, <2>5
<1>11. CASE ThreadReplaces(c)
  <2> DEFINE f == First(dm[c].todo)
             l == [file |-> f, over |-> remote[f].id, old |-> dm[c].old, new |-> dm[c].data.id]
             x == [dm[c].data EXCEPT !.mtime = clock + 1]
  <2>1. dm[c].pc = "replace" /\ cl[c].dir = "upload"
    BY <1>1, <1>3, <1>11 DEF ThreadReplaces, Thread
  <2>2. /\ dm' = [dm EXCEPT ![c].pc = "utime", ![c].tmp = FALSE, ![c].landed = @ \cup {l}]
        /\ remote' = [remote EXCEPT ![f] = x]
        /\ collided' = collided \cup ({f} \cap WindowThere(Conns \ {c}))
        /\ UNCHANGED <<versions, cl, toD, toC, cut>>
    BY <1>11 DEF ThreadReplaces, CurrentOfThread, wire
  <2>3. l.file = f /\ l.old = dm[c].old /\ l.new = dm[c].data.id
    OBVIOUS
  <2>4. x.id = dm[c].data.id
    BY <1>1 DEF ServerThreads, Copies
  <2> HIDE DEF l, x
  <2>5. /\ dm'[c].pc = "utime" /\ dm'[c].todo = dm[c].todo /\ dm'[c].old = dm[c].old
        /\ dm'[c].landed = dm[c].landed \cup {l}
    BY <1>1, <2>2 DEF ServerThreads
  <2>6. f \in dm[c].todo /\ f \in Files
    BY <1>2, <1>5, <2>1 DEF Busy
  <2>7. remote'[f].id = dm[c].data.id /\ \A g \in Files : g # f => remote'[g] = remote[g]
    BY <1>1, <2>2, <2>4, <2>6 DEF Trees
  <2>8. cl[c].done \subseteq Names(dm[c]) /\ toC[c] # <<Ack(TRUE)>>
    BY <1>4, <2>1 DEF UploadLevel
  <2> HIDE DEF f
  <2>9. Secured(cl[c], dm'[c], toD[c], toC[c], remote', versions, collided)
    <3>1. First(dm[c].todo) \in dm[c].todo /\ l.file = First(dm[c].todo)
      BY <2>3, <2>6 DEF f
    <3>2. remote'[l.file].id = l.new
      BY <2>3, <2>7
    <3>3. Secured(cl[c], dm[c], toD[c], toC[c], remote, versions, collided)
      BY <1>4, <2>1
    <3> QED BY <2>1, <2>3, <2>5, <2>8, <3>1, <3>2, <3>3, LandedSecured
  <2>10. Secured(cl[c], dm'[c], toD[c], toC[c], remote', versions, collided')
    <3>1. Names(dm'[c]) = Names(dm[c]) \cup {l.file}
      BY <2>5, OneMoreLanded
    <3>2. Names(dm'[c]) \subseteq Files
      BY <2>3, <2>6, <3>1, NamesTyped
    <3>3. collided \subseteq collided'
      BY <2>2
    <3> QED BY <2>9, <3>2, <3>3, SecuredGrows
  <2>11. Alone(c)
    BY <1>1, <2>2 DEF Alone
  <2>12. /\ collided \subseteq collided' /\ \A g \in Files : versions[g] \subseteq versions'[g]
         /\ \A g \in Files : \/ remote'[g].id = remote[g].id \/ g \in collided'
                             \/ g \notin WindowThere(Conns \ {c})
    BY <2>2, <2>7
  <2>13. /\ cl'[c] = cl[c] /\ toD'[c] = toD[c] /\ toC'[c] = toC[c]
         /\ versions' = versions
    BY <2>2
  <2> QED BY <2>10, <2>11, <2>12, <2>13, StaysSecure
<1>12. CASE ThreadUtime(c)
  <2> DEFINE f == First(dm[c].todo)
  <2>1. dm[c].pc = "utime" /\ cl[c].dir = "upload"
    BY <1>1, <1>3, <1>12 DEF ThreadUtime, Thread
  <2>2. /\ remote' = [remote EXCEPT ![f].mtime = dm[c].meta.mtime]
        /\ collided' = collided \cup ({f} \cap WindowThere(Conns \ {c}))
        /\ UNCHANGED <<versions, cl, toD, toC, cut>>
    BY <1>12 DEF ThreadUtime, CurrentOfThread, wire
  <2>3. /\ dm'[c].pc = "history" /\ dm'[c].todo = dm[c].todo /\ dm'[c].old = dm[c].old
        /\ dm'[c].landed = dm[c].landed /\ Alone(c)
    BY <1>1, <1>12, <2>2 DEF ThreadUtime, ServerThreads, Alone
  <2>4. \A g \in Files : remote'[g].id = remote[g].id
    BY <1>1, <2>2 DEF Trees, Copies
  <2>5. Secured(cl[c], dm'[c], toD[c], toC[c], remote, versions, collided)
    BY <1>4, <2>1, <2>3 DEF Secured, LandingsKept, LandingKnown, Names
  <2>6. Names(dm'[c]) \subseteq Files /\ collided \subseteq collided'
    BY <2>2, <2>3, NamesTyped DEF Names
  <2>7. Secured(cl[c], dm'[c], toD[c], toC[c], remote', versions, collided')
    BY <2>4, <2>5, <2>6, SecuredGrows
  <2>8. /\ cl'[c] = cl[c] /\ toD'[c] = toD[c] /\ toC'[c] = toC[c]
        /\ versions' = versions
    BY <2>2
  <2> QED BY <2>3, <2>4, <2>6, <2>7, <2>8, StaysSecure
<1>13. CASE History(c)
  <2> DEFINE f == First(dm[c].todo)
  <2>1. dm[c].pc = "history" /\ cl[c].dir = "upload"
    BY <1>1, <1>3, <1>13 DEF History, Thread
  <2>2. /\ versions' = [versions EXCEPT ![f] =
                            IF Exists(remote[f]) THEN @ \cup ({dm[c].old, remote[f].id} \ {0})
                            ELSE @]
        /\ UNCHANGED <<remote, cl, toD, toC, cut, collided>>
    BY <1>13 DEF History, CurrentOfThread, wire
  <2>3. /\ dm'[c].pc = "record" /\ dm'[c].todo = dm[c].todo
        /\ dm'[c].landed = dm[c].landed /\ Alone(c)
    BY <1>1, <1>13, <2>2 DEF History, ServerThreads, Alone
  <2>4. f \in Files /\ versions \in [Files -> SUBSET Nat]
    BY <1>1, <1>2, <1>5, <2>1 DEF Busy
  <2> HIDE DEF f
  <2>5. /\ Secured(cl[c], dm'[c], toD[c], toC[c], remote, versions', collided)
        /\ \A g \in Files : versions[g] \subseteq versions'[g]
    BY <1>4, <2>1, <2>2, <2>3, <2>4, NamesTyped, VersionSecured DEF f
  <2>6. /\ cl'[c] = cl[c] /\ toD'[c] = toD[c] /\ toC'[c] = toC[c]
        /\ remote' = remote /\ collided' = collided
    BY <2>2
  <2> QED BY <2>3, <2>5, <2>6, StaysSecure
<1>14. CASE Record(c)
  <2>1. /\ dm[c].pc = "record" /\ cl[c].dir = "upload" /\ ThreadGoesOn(c, dm[c].landed)
        /\ SendC(c, Ack(TRUE)) /\ UNCHANGED <<remote, versions, cl, collided, toD>>
    BY <1>1, <1>3, <1>14 DEF Record, Thread
  <2>2. /\ MovesOn(cl[c], dm[c], dm'[c]) /\ dm'[c].landed = dm[c].landed
        /\ \A e \in Conns \ {c} : dm'[e] = dm[e] /\ cut'[e] = cut[e]
    BY <2>1, ThreadGoneOn
  <2>3. /\ toC'[c] = IF cut[c] THEN toC[c] ELSE Append(toC[c], Ack(TRUE))
        /\ toD'[c] = toD[c] /\ Alone(c)
    BY <1>1, <2>1, <2>2 DEF SendC, Alone
  <2>4. dm'[c].pc \in {"receive", "done"} /\ dm'[c].todo = Rest(dm[c].todo)
    BY <2>1, <2>2 DEF MovesOn
  <2>5. ~cut[c] => dm[c].todo = cl[c].todo
    BY <1>2, <1>4, <2>1 DEF UploadAgree, UploadWire, Framed
  <2>6. dm[c].todo # {}
    BY <1>2, <2>1 DEF Busy
  <2>7. toC'[c] = toC[c] \/ First(cl[c].todo) = First(dm[c].todo)
    BY <2>3, <2>5
  <2>8. Secured(cl[c], dm'[c], toD[c], toC'[c], remote, versions, collided)
    <3>1. Secured(cl[c], dm[c], toD[c], toC[c], remote, versions, collided)
      BY <1>4, <2>1
    <3>2. dm[c].pc = "record" /\ dm[c].todo \subseteq Files
      BY <1>1, <2>1
    <3> QED BY <2>2, <2>4, <2>6, <2>7, <3>1, <3>2, RecordSecured
  <2> QED BY <1>6, <2>1, <2>3, <2>8
<1>15. CASE ThreadRefuses(c)
  <2>1. dm'[c].pc = "failed" /\ dm'[c].landed = dm[c].landed
    BY <1>1, <1>15 DEF ThreadRefuses, ServerThreads
  <2>2. /\ toC'[c] = IF cut[c] THEN toC[c] ELSE Append(toC[c], Ack(FALSE))
        /\ toD'[c] = toD[c] /\ Alone(c) /\ UNCHANGED <<remote, versions, cl, collided>>
    BY <1>1, <1>15 DEF ThreadRefuses, SendC, Alone, disk
  <2>3. toC'[c] = <<Ack(TRUE)>> => toC[c] = <<Ack(TRUE)>>
    <3>1. Ack(FALSE) \in Frames(clock)
      BY <1>1, FramesMade
    <3>2. toC[c] \in Seq(Frames(clock))
      BY <1>1
    <3>3. PICK q, x, y : q = toC[c] /\ x = Ack(FALSE) /\ y = Ack(TRUE)
      OBVIOUS
    <3>4. q \in Seq(Frames(clock)) /\ x \in Frames(clock)
      BY <3>1, <3>2, <3>3
    <3>5. Append(q, x) = <<y>> => x = y
      BY <3>4, HeadAppended
    <3> QED BY <2>2, <3>3, <3>5, FramesDiffer
  <2>4. ASSUME cl[c].dir = "upload"
        PROVE  Secured(cl[c], dm'[c], toD'[c], toC'[c], remote, versions, collided)
    <3>1. Carries(toD'[c], "file") => Carries(toD[c], "file") /\ Head(toD'[c]) = Head(toD[c])
      BY <2>2
    <3>2. Secured(cl[c], dm[c], toD[c], toC[c], remote, versions, collided)
      BY <1>4, <2>4
    <3> QED BY <2>1, <2>3, <3>1, <3>2
           DEF Secured, LandingsKept
  <2> QED BY <1>6, <2>2, <2>4
<1>16. CASE ThreadQuits(c)
  <2>1. /\ dm'[c] = Ended(dm[c]) /\ toC'[c] = toC[c] /\ toD'[c] = <<>> /\ Alone(c)
        /\ UNCHANGED <<remote, versions, cl, collided>>
    BY <1>1, <1>16 DEF ThreadQuits, HangUp, Alone, disk
  <2>2. Ended(dm[c]).pc = "done" /\ Ended(dm[c]).landed = dm[c].landed
    BY DEF Ended, IdleThread
  <2>3. ASSUME cl[c].dir = "upload"
        PROVE  Secured(cl[c], Ended(dm[c]), <<>>, toC[c], remote, versions, collided)
    <3>1. ~Carries(<<>>, "file")
      BY CarriesNothing
    <3>2. Secured(cl[c], dm[c], toD[c], toC[c], remote, versions, collided)
      BY <1>4, <2>3
    <3> QED BY <2>2, <3>1, <3>2
           DEF Secured, LandingsKept
  <2> QED BY <1>6, <2>1, <2>3
<1> QED BY <1>7, <1>8, <1>9, <1>10, <1>11, <1>12, <1>13, <1>14, <1>15, <1>16
        DEF ThreadStep

LEMMA StartKeepsSecure ==
    ASSUME Types, Secure, NEW c \in Conns, NEW dir \in {"upload", "download"},
           NEW force \in BOOLEAN, Start(c, dir, force)
    PROVE  Secure'
<1> DEFINE client == [IdleClient EXCEPT !.pc = IF dir = "upload" THEN "plan" ELSE "manifest",
                                        !.dir = dir, !.force = force]
           thread == [IdleThread EXCEPT !.pc = IF dir = "upload" THEN "manifest" ELSE "scan"]
           up == IF dir = "upload" THEN <<Manifest(local)>> ELSE <<>>
<1>1. /\ cl \in [Conns -> Clients(clock)] /\ dm \in [Conns -> ServerThreads(clock)]
      /\ toD \in [Conns -> Seq(Frames(clock))] /\ toC \in [Conns -> Seq(Frames(clock))]
      /\ cut \in [Conns -> BOOLEAN]
  BY TypeParts DEF Types
<1>2. thread.pc \in {"manifest", "scan"} /\ thread.landed = {}
  BY DEF IdleThread
<1>3. up = <<>> \/ up = <<Manifest(local)>>
  OBVIOUS
<1>4. /\ cl' = [cl EXCEPT ![c] = client] /\ dm' = [dm EXCEPT ![c] = thread]
      /\ toD' = [toD EXCEPT ![c] = up] /\ toC' = [toC EXCEPT ![c] = <<>>]
      /\ cut' = [cut EXCEPT ![c] = FALSE] /\ UNCHANGED <<remote, versions, collided>>
  BY DEF Start, disk
<1> HIDE DEF client, thread, up
<1>5. dm'[c] = thread /\ toD'[c] = up /\ Alone(c)
  BY <1>1, <1>4 DEF Alone
<1>6. ~Carries(up, "file")
  <2>1. Carries(up, "file") => Manifest(local).type = "file"
    BY <1>3, OneFrame
  <2> QED BY <2>1, FrameTypes
<1>7. Secured(cl'[c], dm'[c], toD'[c], toC'[c], remote', versions', collided')
  BY <1>2, <1>5, <1>6, NothingLanded
<1> QED BY <1>4, <1>5, <1>7, StaysSecure

LEMMA BreakKeepsSecure ==
    ASSUME Types, Secure, NEW c \in Conns, Break(c)
    PROVE  Secure'
<1>1. /\ toD \in [Conns -> Seq(Frames(clock))] /\ toC \in [Conns -> Seq(Frames(clock))]
      /\ cut \in [Conns -> BOOLEAN]
  BY TypeParts DEF Types
<1>2. /\ toD'[c] = <<>> /\ toC'[c] = <<>> /\ Alone(c)
      /\ UNCHANGED <<remote, versions, cl, dm, collided>>
  BY <1>1 DEF Break, HangUp, disk, Alone
<1>3. ASSUME cl[c].dir = "upload"
      PROVE  Secured(cl[c], dm[c], <<>>, <<>>, remote, versions, collided)
  <2>1. ~Carries(<<>>, "file") /\ <<>> # <<Ack(TRUE)>>
    BY CarriesNothing, QueuesDiffer
  <2> QED BY <1>3, <2>1 DEF Secure, Uploads, Secured
<1> QED BY <1>2, <1>3, StaysSecure

LEMMA CrashKeepsSecure ==
    ASSUME Secure, Crash
    PROVE  Secure'
<1> SUFFICES ASSUME NEW c \in Conns, cl'[c].dir = "upload"
             PROVE  Secured(cl'[c], dm'[c], toD'[c], toC'[c], remote', versions', collided')
  BY DEF Secure, Uploads
<1>1. /\ cl' = cl /\ dm'[c] = Ended(dm[c]) /\ toD'[c] = <<>>
      /\ UNCHANGED <<remote, versions, toC, collided>>
  BY DEF Crash, disk
<1>2. Ended(dm[c]).pc = "done" /\ Ended(dm[c]).landed = dm[c].landed
  BY DEF Ended, IdleThread
<1>3. ~Carries(<<>>, "file")
  BY CarriesNothing
<1>4. Secured(cl[c], dm[c], toD[c], toC[c], remote, versions, collided)
  BY <1>1 DEF Secure, Uploads
<1>5. Secured(cl[c], Ended(dm[c]), <<>>, toC[c], remote, versions, collided)
  BY <1>2, <1>3, <1>4 DEF Secured, LandingsKept
<1> QED BY <1>1, <1>5

LEMMA EditKeepsSecure ==
    ASSUME Types, Secure, NEW f \in Files, NEW size, EditLocal(f, size) \/ EditRemote(f, size)
    PROVE  Secure'
<1> SUFFICES ASSUME NEW c \in Conns, cl[c].dir = "upload"
             PROVE  Secured(cl[c], dm[c], toD[c], toC[c], remote', versions, collided')
  BY DEF Secure, Uploads, EditLocal, EditRemote, wire
<1>1. Secured(cl[c], dm[c], toD[c], toC[c], remote, versions, collided)
  BY DEF Secure, Uploads
<1>2. remote \in Trees(clock)
  BY DEF Types, TypesUpTo, DiskTypes
<1>3. collided \subseteq collided'
  BY DEF EditLocal, EditRemote
<1>4. \A g \in Files : \/ remote'[g].id = remote[g].id \/ g \in collided'
                       \/ ~(dm[c].pc \in {"utime", "history"} /\ First(dm[c].todo) = g)
  <2>1. CASE EditLocal(f, size)
    BY <2>1 DEF EditLocal
  <2>2. CASE EditRemote(f, size)
    <3>1. \A g \in Files : g # f => remote'[g] = remote[g]
      BY <1>2, <2>2 DEF EditRemote, Trees
    <3>2. dm[c].pc \in {"utime", "history"} /\ First(dm[c].todo) = f => f \in collided'
      BY <2>2 DEF EditRemote, WindowThere, CurrentOfThread
    <3> QED BY <3>1, <3>2
  <2> QED BY <2>1, <2>2
<1>5. Names(dm[c]) \subseteq Files
  BY NamesTyped
<1> QED BY <1>1, <1>3, <1>4, <1>5, SecuredGrows

LEMMA StepKeepsSecure ==
    ASSUME Types, Lockstep, Secure, [TransferNext]_transferVars
    PROVE  Secure'
<1>1. ASSUME NEW c \in Conns, ClientStep(c) \/ ClientTimesOut(c) PROVE Secure'
  BY <1>1, ClientKeepsSecure
<1>2. ASSUME NEW c \in Conns, ThreadStep(c) PROVE Secure'
  BY <1>2, ThreadKeepsSecure
<1>3. ASSUME NEW c \in Conns, Break(c) PROVE Secure'
  BY <1>3, BreakKeepsSecure
<1>4. ASSUME NEW c \in Conns, NEW dir \in {"upload", "download"}, NEW force \in BOOLEAN,
             Start(c, dir, force)
      PROVE  Secure'
  BY <1>4, StartKeepsSecure
<1>5. ASSUME NEW f \in Files, NEW size \in Sizes \cup {0},
             EditLocal(f, size) \/ EditRemote(f, size)
      PROVE  Secure'
  BY <1>5, EditKeepsSecure
<1>6. CASE Crash
  BY <1>6, CrashKeepsSecure
<1>7. CASE UNCHANGED transferVars
  BY <1>7 DEF transferVars, disk, wire, Secure, Uploads
<1> QED BY <1>1, <1>2, <1>3, <1>4, <1>5, <1>6, <1>7 DEF TransferNext

LEMMA InitSecure == TransferInit => Secure
<1> SUFFICES ASSUME TransferInit, NEW c \in Conns
             PROVE  Secured(cl[c], dm[c], toD[c], toC[c], remote, versions, collided)
  BY DEF Secure
<1>1. dm[c].landed = {} /\ dm[c].pc = "done" /\ toD[c] = <<>>
  BY DEF TransferInit, IdleThread
<1>2. ~Carries(toD[c], "file")
  BY <1>1, CarriesNothing
<1> QED BY <1>1, <1>2, NothingLanded

(* Of an upload that the client has been told of the version chain holds   *)
(* what the file held when the daemon came to it, and what was written     *)
(* (transfer.py _record_history_if_text comes before the ACK).  An edit    *)
(* between the two is overwritten and not held; nothing is claimed of a    *)
(* file that somebody else changed in the window of the upload.            *)
THEOREM AckedStaysRecoverable == TransferSpec => []AckedIsRecoverable
<1>1. TransferInit => Secure
  BY InitSecure
<1>2. Types /\ Lockstep /\ Secure /\ [TransferNext]_transferVars => Secure'
  BY StepKeepsSecure
<1>3. Secure => AckedIsRecoverable
  BY DEF Secure, Secured, LandingsKept, Kept, AckedIsRecoverable
<1> QED BY <1>1, <1>2, <1>3, TransferInStep, PTL DEF TransferSpec
-----------------------------------------------------------------------------
(***************************************************************************)
(* Temporary files: an end has one open exactly while it receives.         *)
(***************************************************************************)
OpenHere(client) == client.tmp <=> client.pc \in {"receive", "replace"}
OpenThere(thread) == thread.pc \in {"receive", "replace"} => thread.tmp
Temps == \A c \in Conns : OpenHere(cl[c]) /\ OpenThere(dm[c])

\* The ends of the other connections stay as they are.
LEMMA TempsMove ==
    ASSUME Temps, NEW c \in Conns, OpenHere(cl'[c]), OpenThere(dm'[c]),
           \A e \in Conns \ {c} : cl'[e] = cl[e] /\ dm'[e] = dm[e]
    PROVE  Temps'
<1>1. ASSUME NEW e \in Conns PROVE OpenHere(cl'[e]) /\ OpenThere(dm'[e])
  BY <1>1 DEF Temps
<1> QED BY <1>1 DEF Temps, OpenHere, OpenThere

LEMMA ClientKeepsTemps ==
    ASSUME Types, Temps, NEW c \in Conns, ClientStep(c) \/ ClientTimesOut(c)
    PROVE  Temps'
<1>1. cl \in [Conns -> Clients(clock)] /\ cl[c] \in Clients(clock)
  BY TypeParts DEF Types
<1>2. OpenHere(cl[c]) /\ OpenThere(dm[c])
  BY DEF Temps
<1>3. dm' = dm /\ \A e \in Conns \ {c} : cl'[e] = cl[e]
  BY <1>1 DEF ClientStep, ClientTimesOut, AnswerManifest, TakePlan, ClientStat, ClientSends,
     ClientAcked, ClientReceives, ClientReplaces, ClientUtime, ClientFails, ClientGivesUp,
     ClientGoesOn
<1>4. ASSUME NEW todo, NEW done, ClientGoesOn(c, todo, done) PROVE OpenHere(cl'[c])
  <2> DEFINE tmp == todo # {} /\ ~Uploads(c)
             stage == IF todo = {} THEN "done" ELSE IF Uploads(c) THEN "stat" ELSE "receive"
             next == [cl[c] EXCEPT !.todo = todo, !.done = done, !.meta = Absent,
                                   !.data = Absent, !.tmp = tmp, !.pc = stage]
  <2>1. cl'[c] = next
    BY <1>1, <1>4 DEF ClientGoesOn
  <2>2. tmp <=> stage \in {"receive", "replace"}
    OBVIOUS
  <2> HIDE DEF tmp, stage
  <2>3. next.tmp = tmp /\ next.pc = stage
    BY <1>1 DEF Clients
  <2> QED BY <2>1, <2>2, <2>3 DEF OpenHere
<1>5. ASSUME ClientGivesUp(c) PROVE OpenHere(cl'[c])
  BY <1>1, <1>5 DEF ClientGivesUp, IdleClient, OpenHere
<1>6. ASSUME ClientReplaces(c) PROVE OpenHere(cl'[c])
  <2>1. cl'[c].pc = "utime" /\ cl'[c].tmp = FALSE
    BY <1>1, <1>6 DEF ClientReplaces, Clients
  <2> QED BY <2>1 DEF OpenHere
<1>7. ASSUME ClientReceives(c) PROVE OpenHere(cl'[c])
  <2>1. cl[c].pc = "receive" /\ cl'[c].pc = "replace" /\ cl'[c].tmp = cl[c].tmp
    BY <1>1, <1>7 DEF ClientReceives, Client, Clients
  <2> QED BY <1>2, <2>1 DEF OpenHere
<1>8. ASSUME AnswerManifest(c) \/ ClientStat(c) \/ ClientSends(c) PROVE OpenHere(cl'[c])
  <2>1. /\ cl[c].pc \in {"manifest", "stat", "read"} /\ cl'[c].pc \in {"plan", "read", "ack"}
        /\ cl'[c].tmp = cl[c].tmp
    BY <1>1, <1>8 DEF AnswerManifest, ClientStat, ClientSends, Client, Clients
  <2> QED BY <1>2, <2>1 DEF OpenHere
<1>9. OpenHere(cl'[c])
  BY <1>4, <1>5, <1>6, <1>7, <1>8 DEF ClientStep, ClientTimesOut, TakePlan, ClientAcked,
     ClientUtime, ClientFails
<1> QED BY <1>2, <1>3, <1>9, TempsMove

LEMMA ThreadKeepsTemps ==
    ASSUME Types, Temps, NEW c \in Conns, ThreadStep(c)
    PROVE  Temps'
<1>1. dm \in [Conns -> ServerThreads(clock)] /\ dm[c] \in ServerThreads(clock)
  BY TypeParts DEF Types
<1>2. OpenHere(cl[c]) /\ OpenThere(dm[c])
  BY DEF Temps
<1>3. cl' = cl /\ \A e \in Conns \ {c} : dm'[e] = dm[e]
  BY <1>1 DEF ThreadStep, Scan, Judge, ThreadReceives, ThreadReplaces, ThreadUtime, History,
     Record, ThreadRefuses, ThreadStat, ThreadSends, ThreadAcked, Restat, ThreadQuits,
     ThreadGoesOn
<1>4. ASSUME NEW landed, ThreadGoesOn(c, landed) PROVE OpenThere(dm'[c])
  <2> DEFINE todo == Rest(dm[c].todo)
             tmp == Uploads(c) /\ todo # {}
             old == IF todo = {} THEN 0 ELSE remote[First(todo)].id
             stage == IF todo = {} THEN "done" ELSE IF Uploads(c) THEN "receive" ELSE "stat"
             next == [dm[c] EXCEPT !.todo = todo, !.landed = landed, !.meta = Absent,
                                   !.data = Absent, !.old = old, !.tmp = tmp, !.pc = stage]
  <2>1. dm'[c] = next
    BY <1>1, <1>4 DEF ThreadGoesOn
  <2>2. stage \in {"receive", "replace"} => tmp
    OBVIOUS
  <2> HIDE DEF todo, tmp, old, stage
  <2>3. next.tmp = tmp /\ next.pc = stage
    BY <1>1 DEF ServerThreads
  <2> QED BY <2>1, <2>2, <2>3 DEF OpenThere
<1>5. ASSUME Judge(c) PROVE OpenThere(dm'[c])
  <2>1. /\ dm'[c].pc \in {"receive", "replace"} => dm'[c].tmp
    BY <1>1, <1>5 DEF Judge, ServerThreads
  <2> QED BY <2>1 DEF OpenThere
<1>6. ASSUME ThreadReceives(c) PROVE OpenThere(dm'[c])
  <2>1. dm[c].pc = "receive" /\ dm'[c].tmp = dm[c].tmp
    BY <1>1, <1>6 DEF ThreadReceives, Thread, ServerThreads
  <2> QED BY <1>2, <2>1 DEF OpenThere
<1>7. ASSUME \/ Scan(c) \/ ThreadReplaces(c) \/ ThreadUtime(c) \/ History(c) \/ ThreadRefuses(c)
             \/ ThreadStat(c) \/ ThreadSends(c) \/ ThreadAcked(c) \/ ThreadQuits(c)
      PROVE  OpenThere(dm'[c])
  <2>1. ThreadQuits(c) => dm'[c].pc = "done"
    BY <1>1 DEF ThreadQuits, Ended, IdleThread
  <2>2. Scan(c) => dm'[c].pc = "manifest"
    BY <1>1 DEF Scan, ServerThreads
  <2>3. ThreadReplaces(c) => dm'[c].pc = "utime"
    BY <1>1 DEF ThreadReplaces, ServerThreads
  <2>4. ThreadUtime(c) \/ History(c) => dm'[c].pc \in {"history", "record"}
    BY <1>1 DEF ThreadUtime, History, ServerThreads
  <2>5. ThreadRefuses(c) => dm'[c].pc = "failed"
    BY <1>1 DEF ThreadRefuses, ServerThreads
  <2>6. ThreadStat(c) \/ ThreadSends(c) \/ ThreadAcked(c) => dm'[c].pc \in {"read", "ack", "restat"}
    BY <1>1 DEF ThreadStat, ThreadSends, ThreadAcked, ServerThreads
  <2> QED BY <1>7, <2>1, <2>2, <2>3, <2>4, <2>5, <2>6 DEF OpenThere
<1>8. OpenThere(dm'[c])
  BY <1>4, <1>5, <1>6, <1>7 DEF ThreadStep, Record, Restat
<1> QED BY <1>2, <1>3, <1>8, TempsMove

LEMMA NextKeepsTemps ==
    ASSUME Types, Temps, [TransferNext]_transferVars
    PROVE  Temps'
<1>0. cl \in [Conns -> Clients(clock)] /\ dm \in [Conns -> ServerThreads(clock)]
  BY DEF Types, TypesUpTo, EndTypes
<1>1. CASE UNCHANGED <<cl, dm>>
  BY <1>1 DEF Temps
<1>2. ASSUME NEW c \in Conns, NEW dir, NEW force, Start(c, dir, force) PROVE Temps'
  <2>1. OpenHere(cl'[c]) /\ OpenThere(dm'[c])
    BY <1>0, <1>2 DEF Start, IdleClient, IdleThread, OpenHere, OpenThere
  <2>2. \A e \in Conns \ {c} : cl'[e] = cl[e] /\ dm'[e] = dm[e]
    BY <1>0, <1>2 DEF Start
  <2> QED BY <2>1, <2>2, TempsMove
<1>3. CASE Crash
  <2>1. ASSUME NEW c \in Conns PROVE OpenHere(cl'[c]) /\ OpenThere(dm'[c])
    BY <1>3 DEF Crash, Ended, IdleThread, Temps, OpenThere
  <2> QED BY <2>1 DEF Temps, OpenHere, OpenThere
<1>4. ASSUME NEW c \in Conns, ClientStep(c) \/ ThreadStep(c) \/ ClientTimesOut(c) \/ Break(c)
      PROVE  Temps'
  BY <1>1, <1>4, ClientKeepsTemps, ThreadKeepsTemps DEF Break
<1>5. ASSUME NEW f, NEW size, EditLocal(f, size) \/ EditRemote(f, size) PROVE Temps'
  BY <1>1, <1>5 DEF EditLocal, EditRemote
<1>6. CASE UNCHANGED transferVars
  BY <1>1, <1>6 DEF transferVars
<1> QED BY <1>2, <1>3, <1>4, <1>5, <1>6 DEF TransferNext

(* At most two frames are under way in either direction.                   *)
LEMMA TwoFrames ==
    ASSUME Types, Lockstep, NEW c \in Conns
    PROVE  Len(toD[c]) <= 2 /\ Len(toC[c]) <= 2
<1>1. InStep(cl[c], dm[c], toD[c], toC[c], cut[c]) /\ cl[c].dir \in {"upload", "download"}
  BY TypeParts DEF Lockstep, Types
<1>2. /\ Len(<<>>) <= 2 /\ \A x, y : Len(<<x>>) <= 2 /\ Len(<<x, y>>) <= 2
  OBVIOUS
<1>3. CASE cl[c].dir = "upload"
  BY <1>1, <1>2, <1>3 DEF InStep, UploadWire, FileFirst
<1>4. CASE cl[c].dir = "download"
  BY <1>1, <1>2, <1>4 DEF InStep, DownloadWire
<1> QED BY <1>1, <1>3, <1>4

(* The disks, the table, the versions and both ends are well formed, an    *)
(* end has its temporary file open while it receives (the client exactly   *)
(* then), has a file in hand while it works on one, and never more than    *)
(* two frames are under way (transfer.py and client/transfer).             *)
THEOREM TransferTypeCorrect == TransferSpec => []TransferTypeOK
<1>1. TransferInit => Temps
  BY DEF TransferInit, IdleClient, IdleThread, Temps, OpenHere, OpenThere
<1>2. Types /\ Temps /\ [TransferNext]_transferVars => Temps'
  BY NextKeepsTemps
<1>3. Types /\ Lockstep /\ Temps => TransferTypeOK
  <2> SUFFICES ASSUME Types, Lockstep, Temps PROVE TransferTypeOK
    OBVIOUS
  <2>1. /\ local \in [Files -> FileSet] /\ remote \in [Files -> FileSet]
        /\ record \in [Files -> [size : Sizes \cup {0}, cli : 0..clock, remote : 0..clock]]
        /\ versions \in [Files -> SUBSET (1..clock)]
        /\ cl \in [Conns -> ClientSet]
    BY DEF Types, TypesUpTo, DiskTypes, EndTypes, Trees, Copies, Records, Clients, ClientPcs,
       FileSet, ClientSet
  <2>2. ASSUME NEW c \in Conns
        PROVE  /\ cl[c].tmp <=> cl[c].pc \in {"receive", "replace"}
               /\ dm[c].pc \in {"receive", "replace"} => dm[c].tmp
    BY DEF Temps, OpenHere, OpenThere
  <2>3. ASSUME NEW c \in Conns, dm[c].pc \notin {"scan", "manifest", "failed", "done"}
        PROVE  dm[c].todo # {}
    <3>1. Busy(cl[c], dm[c]) /\ dm[c].pc \in ThreadPcs
      BY TypeParts DEF Lockstep, InStep, Types
    <3> QED BY <2>3, <3>1 DEF Busy, ThreadPcs
  <2> QED BY <2>1, <2>2, <2>3, TwoFrames DEF TransferTypeOK
<1> QED BY <1>1, <1>2, <1>3, TransferInStep, PTL DEF TransferSpec
=============================================================================
