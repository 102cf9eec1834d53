----------------------- MODULE SessionLifecycleProofs -----------------------
(***************************************************************************)
(* Proofs about SessionLifecycle for any sessions and ids, any number of   *)
(* killers and handlers, and both ways of the platforms.                   *)
(***************************************************************************)
EXTENDS SessionLifecycle, FiniteSetTheorems, TLAPS

\* Where an actor of each kind can be.
Places(a) ==
  CASE a \in Creators -> CreatorPcs \cup HolderPcs \cup StopBody \cup {"stop", "done"}
    [] a \in Readers  -> {"idle", "loop", "exiting", "claim", "stop", "archive", "release",
                          "freeing", "done"} \cup StopBody
    [] a \in Stoppers -> {"idle", "stop", "done"} \cup StopBody
    [] a \in Killers  -> {"idle", "stop", "archive", "release", "freeing"} \cup StopBody
    [] OTHER          -> {"idle", "found", "holding", "freeing"}

\* Threads of a session work on it, and clients on one while they are not idle.
Located ==
  /\ \A a \in Actors : pc[a] \in Places(a)
  /\ \A a \in Actors : on[a] \notin Uids => pc[a] = "idle"
  /\ \A u \in Uids : on[Creator(u)] = u /\ on[Reader(u)] = u /\ on[Stopper(u)] = u

Types == TypeOK /\ Located

\* Who holds a session, and the count of them that the session keeps.
Holders(u) == {a \in Actors : on[a] = u /\ pc[a] = "holding"}

Counted ==
  \A u \in Uids :
    /\ IsFiniteSet(Holders(u))
    /\ holdCount[u] = Cardinality(Holders(u)) + (IF creationHold[u] THEN 1 ELSE 0)
    /\ pc[Creator(u)] \in {"new", "registered", "hooked"} => ~creationHold[u]
-----------------------------------------------------------------------------
(* The actors.                                                             *)

\* Actors of different kinds or sessions are different.
LEMMA ActorsDiffer ==
  /\ \A u \in Uids : Creator(u) \in Creators /\ Reader(u) \in Readers /\ Stopper(u) \in Stoppers
  /\ \A a \in Creators : \E u \in Uids : a = Creator(u)
  /\ \A a \in Readers : \E u \in Uids : a = Reader(u)
  /\ \A a \in Stoppers : \E u \in Uids : a = Stopper(u)
  /\ \A u, v \in Uids : /\ Creator(u) = Creator(v) => u = v
                        /\ Reader(u) = Reader(v) => u = v
                        /\ Stopper(u) = Stopper(v) => u = v
  /\ Creators \cap Readers = {} /\ Creators \cap Stoppers = {} /\ Readers \cap Stoppers = {}
  /\ Clients \cap (Creators \cup Readers \cup Stoppers) = {}
  /\ Killers \cap Handlers = {}
  /\ Actors = Creators \cup Readers \cup Stoppers \cup Killers \cup Handlers
<1>1. \A u, v \in Uids : /\ Creator(u) = Creator(v) => u = v
                         /\ Reader(u) = Reader(v) => u = v
                         /\ Stopper(u) = Stopper(v) => u = v
                         /\ Creator(u) # Reader(v) /\ Creator(u) # Stopper(v) /\ Reader(u) # Stopper(v)
  BY DEF Creator, Reader, Stopper
<1>2. \A u \in Uids : /\ Creator(u) \in {"creator", "reader", "stopper"} \X Uids
                      /\ Reader(u) \in {"creator", "reader", "stopper"} \X Uids
                      /\ Stopper(u) \in {"creator", "reader", "stopper"} \X Uids
  BY DEF Creator, Reader, Stopper
<1> HIDE DEF Creator, Reader, Stopper
<1> QED BY <1>1, <1>2, LifecycleAssumption DEF Creators, Readers, Stoppers, Actors, Clients

\* The places of each kind.
LEMMA PlacesOf ==
  /\ \A a \in Creators : Places(a) = CreatorPcs \cup HolderPcs \cup StopBody \cup {"stop", "done"}
  /\ \A a \in Readers : Places(a) = {"idle", "loop", "exiting", "claim", "stop", "archive", "release",
                                     "freeing", "done"} \cup StopBody
  /\ \A a \in Stoppers : Places(a) = {"idle", "stop", "done"} \cup StopBody
  /\ \A a \in Killers : Places(a) = {"idle", "stop", "archive", "release", "freeing"} \cup StopBody
  /\ \A a \in Handlers : Places(a) = {"idle", "found", "holding", "freeing"}
  /\ \A a \in Actors : Places(a) \subseteq Pcs
<1>1. /\ \A a \in Creators : Places(a) = CreatorPcs \cup HolderPcs \cup StopBody \cup {"stop", "done"}
      /\ \A a \in Readers : Places(a) = {"idle", "loop", "exiting", "claim", "stop", "archive", "release",
                                         "freeing", "done"} \cup StopBody
      /\ \A a \in Stoppers : Places(a) = {"idle", "stop", "done"} \cup StopBody
      /\ \A a \in Killers : Places(a) = {"idle", "stop", "archive", "release", "freeing"} \cup StopBody
      /\ \A a \in Handlers : Places(a) = {"idle", "found", "holding", "freeing"}
  BY ActorsDiffer DEF Places, Clients
<1>2. \A a \in Actors : Places(a) \subseteq Pcs
  BY <1>1, ActorsDiffer DEF Pcs, EndPcs, HolderPcs
<1> QED BY <1>1, <1>2

\* What runs stop() is not a handler, and only who unregisters sessions archives.
LEMMA StopPlaces ==
  ASSUME NEW a \in Actors, Places(a) \cap ({"stop"} \cup StopBody) # {}
  PROVE  /\ a \notin Handlers /\ StopBody \subseteq Places(a) /\ AfterStop(a) \in Places(a)
         /\ AfterStop(a) \in {"unhold", "done", "archive"}
         /\ AfterStop(a) = "archive" <=> a \in Readers \cup Killers
<1>1. a \notin Handlers
  BY PlacesOf DEF StopBody
<1>2. CASE a \in Creators
  <2>1. AfterStop(a) = "unhold" /\ a \notin Readers \cup Killers
    BY <1>2, ActorsDiffer DEF AfterStop, Clients
  <2>2. StopBody \subseteq Places(a) /\ "unhold" \in Places(a)
    BY <1>2, PlacesOf DEF CreatorPcs
  <2> QED BY <1>1, <2>1, <2>2
<1>3. CASE a \in Stoppers
  <2>1. AfterStop(a) = "done" /\ a \notin Readers \cup Killers
    BY <1>3, ActorsDiffer DEF AfterStop, Clients
  <2>2. StopBody \subseteq Places(a) /\ "done" \in Places(a)
    BY <1>3, PlacesOf
  <2> QED BY <1>1, <2>1, <2>2
<1>4. CASE a \in Readers \cup Killers
  BY <1>1, <1>4, PlacesOf, ActorsDiffer DEF AfterStop, Clients
<1> QED BY <1>1, <1>2, <1>3, <1>4, ActorsDiffer

\* A thread that moves on stays where its kind can be.
LEMMA Moves ==
  ASSUME Types, NEW a \in Actors, on[a] \in Uids, NEW l \in Places(a), Goto(a, l), on' = on
  PROVE  /\ pc' \in [Actors -> Pcs] /\ Located'
         /\ pc'[a] = l /\ \A b \in Actors : b # a => pc'[b] = pc[b]
<1>1. /\ pc'[a] = l /\ \A b \in Actors : b # a => pc'[b] = pc[b]
      /\ pc' \in [Actors -> Pcs]
  BY PlacesOf DEF Types, TypeOK, Goto
<1> QED BY <1>1 DEF Types, Located

\* So does a client that turns to a session.
LEMMA Turns ==
  ASSUME Types, NEW a \in Clients, NEW u \in Uids, NEW l \in Places(a),
         on' = [on EXCEPT ![a] = u], Goto(a, l)
  PROVE  /\ pc' \in [Actors -> Pcs] /\ on' \in [Actors -> Uids \cup {None}] /\ Located'
         /\ pc'[a] = l /\ on'[a] = u
         /\ \A b \in Actors : b # a => pc'[b] = pc[b] /\ on'[b] = on[b]
<1>1. a \in Actors /\ \A v \in Uids : a # Creator(v) /\ a # Reader(v) /\ a # Stopper(v)
  BY ActorsDiffer DEF Actors
<1>2. /\ pc'[a] = l /\ on'[a] = u
      /\ \A b \in Actors : b # a => pc'[b] = pc[b] /\ on'[b] = on[b]
      /\ pc' \in [Actors -> Pcs] /\ on' \in [Actors -> Uids \cup {None}]
  BY <1>1, PlacesOf DEF Types, TypeOK, Goto
<1>3. \A v \in Uids : Creator(v) \in Actors /\ Reader(v) \in Actors /\ Stopper(v) \in Actors
  BY ActorsDiffer
<1> QED BY <1>1, <1>2, <1>3 DEF Types, Located

\* A hold in somebody's hands, or one from the creation, is in the count.
LEMMA CountPositive ==
  ASSUME Types, Counted, NEW u \in Uids
  PROVE  /\ holdCount[u] \in Nat /\ Cardinality(Holders(u)) \in Nat
         /\ creationHold[u] => holdCount[u] > 0
         /\ Holders(u) # {} => Cardinality(Holders(u)) > 0 /\ holdCount[u] > 0
<1>1. IsFiniteSet(Holders(u)) /\ Cardinality(Holders(u)) \in Nat
  BY FS_CardinalityType DEF Counted
<1>2. Holders(u) # {} => Cardinality(Holders(u)) # 0
  BY <1>1, FS_EmptySet
<1>3. holdCount[u] \in Nat /\ creationHold[u] \in BOOLEAN
  BY DEF Types, TypeOK
<1>4. holdCount[u] = Cardinality(Holders(u)) + (IF creationHold[u] THEN 1 ELSE 0)
  BY DEF Counted
<1> QED BY <1>1, <1>2, <1>3, <1>4
-----------------------------------------------------------------------------
(* Types.                                                                  *)

\* TypeOK in two halves.
FlagTypes ==
  /\ ptyOpen \in [Uids -> BOOLEAN] /\ running \in [Uids -> BOOLEAN]
  /\ stopEvent \in [Uids -> BOOLEAN] /\ stopStarted \in [Uids -> BOOLEAN]
  /\ stopFinished \in [Uids -> BOOLEAN] /\ exitKnown \in [Uids -> BOOLEAN]
  /\ creationHold \in [Uids -> BOOLEAN] /\ pending \in [Uids -> BOOLEAN]
  /\ released \in [Uids -> BOOLEAN]

RestTypes ==
  /\ sessions \subseteq Uids /\ sidIndex \in [Sids -> Uids \cup {None}]
  /\ pc \in [Actors -> Pcs] /\ on \in [Actors -> Uids \cup {None}]
  /\ child \in [Uids -> {"none", "alive", "dead"}]
  /\ holdCount \in [Uids -> Nat] /\ archives \in [Uids -> Nat]
  /\ inTime \subseteq Actors /\ faults \subseteq Actors \X Uids

\* The halves are the whole, before a step and after it.
LEMMA TypeSplit ==
  /\ Types <=> FlagTypes /\ RestTypes /\ Located
  /\ Types' <=> FlagTypes' /\ RestTypes' /\ Located'
BY DEF Types, TypeOK, FlagTypes, RestTypes

\* Creation keeps the types.
LEMMA TypesCreation ==
  ASSUME Types, Counted, NEW u \in Uids, Creation(u)
  PROVE  Types'
<1> DEFINE c == Creator(u)
<1>0. /\ c \in Actors /\ on[c] = u /\ c \in Creators
      /\ Places(c) = CreatorPcs \cup HolderPcs \cup StopBody \cup {"stop", "done"}
  BY ActorsDiffer, PlacesOf DEF Types, Located
<1>a. ASSUME NEW l \in CreatorPcs \cup HolderPcs \cup {"stop", "done"}, Goto(c, l), on' = on
      PROVE  pc' \in [Actors -> Pcs] /\ Located'
  BY <1>0, <1>a, Moves
<1> HIDE DEF c
<1>b. {"new", "registered", "hooked", "preheld", "opened", "returned", "failed", "unhold",
       "freeing", "stop", "done"} \subseteq CreatorPcs \cup HolderPcs \cup {"stop", "done"}
  BY DEF CreatorPcs, HolderPcs
<1> USE TypeSplit DEF registryVars, procVars, flagVars, holdVars
<1>1. CASE Register(u)
  <2>1. Goto(c, "registered") /\ on' = on
    BY <1>1 DEF Register, c
  <2>2. SidOf[u] \in Sids
    BY LifecycleAssumption
  <2> QED BY <1>1, <2>1, <2>2, <1>a, <1>b DEF Register, FlagTypes, RestTypes
<1>2. CASE AddEndCallback(u)
  <2>1. (Goto(c, "done") \/ Goto(c, "hooked")) /\ on' = on
    BY <1>2 DEF AddEndCallback, c
  <2>2. faults' \subseteq Actors \X Uids
    BY <1>0, <1>2 DEF AddEndCallback, Touch, Types, TypeOK, c
  <2> QED BY <1>2, <2>1, <2>2, <1>a, <1>b DEF AddEndCallback, FlagTypes, RestTypes
<1>3. CASE PreHold(u)
  <2>1. Goto(c, "preheld") /\ on' = on
    BY <1>3 DEF PreHold, c
  <2> QED BY <1>3, <2>1, <1>a, <1>b DEF PreHold, FlagTypes, RestTypes
<1>4. CASE OpenPty(u)
  <2>1. (Goto(c, "opened") \/ Goto(c, "failed")) /\ on' = on
    BY <1>4 DEF OpenPty, c
  <2>2. pc' \in [Actors -> Pcs] /\ Located'
    BY <2>1, <1>a, <1>b
  <2> QED BY <1>4, <2>1, <2>2 DEF OpenPty, FlagTypes, RestTypes
<1>5. CASE Launch(u)
  <2>1. faults' \subseteq Actors \X Uids
    BY <1>0, <1>5 DEF Launch, Touch, Types, TypeOK, c
  <2>2. CASE released[u]
    <3>1. Goto(c, "failed") /\ on' = on
      BY <1>5, <2>2 DEF Launch, c
    <3> QED BY <1>5, <2>1, <2>2, <3>1, <1>a, <1>b DEF Launch, FlagTypes, RestTypes
  <2>3. CASE ~released[u]
    <3>1. pc' = [pc EXCEPT ![c] = "returned", ![Reader(u)] = "loop"] /\ on' = on
      BY <1>5, <2>3 DEF Launch, c
    <3>2. /\ Reader(u) \in Actors /\ Reader(u) # c /\ on[Reader(u)] = u /\ Reader(u) \in Readers
          /\ "loop" \in Places(Reader(u)) /\ "returned" \in Places(c)
      BY <1>0, <1>b, ActorsDiffer, PlacesOf DEF Types, Located, CreatorPcs
    <3>3. pc' \in [Actors -> Pcs] /\ Located'
      <4>1. pc' \in [Actors -> Pcs]
        BY <1>0, <3>1, <3>2, PlacesOf DEF RestTypes
      <4>2. /\ pc'[c] = "returned" /\ pc'[Reader(u)] = "loop"
            /\ \A b \in Actors : b # c /\ b # Reader(u) => pc'[b] = pc[b]
        BY <1>0, <3>1, <3>2 DEF RestTypes
      <4> QED BY <4>1, <4>2, <1>0, <3>1, <3>2 DEF Located
    <3> QED BY <1>5, <2>1, <2>3, <3>1, <3>3 DEF Launch, FlagTypes, RestTypes
  <2> QED BY <2>2, <2>3
<1>6. CASE CreateFailed(u)
  <2>1. Goto(c, "stop") /\ on' = on
    BY <1>6 DEF CreateFailed, c
  <2> QED BY <1>6, <2>1, <1>a, <1>b DEF CreateFailed, Unregister, FlagTypes, RestTypes
<1>7. CASE ReleaseCreationHold(u)
  <2>1. (Goto(c, "done") \/ Goto(c, "freeing")) /\ on' = on
    BY <1>7 DEF ReleaseCreationHold, c
  <2>2. pc' \in [Actors -> Pcs] /\ Located'
    BY <2>1, <1>a, <1>b
  <2>3. holdCount' \in [Uids -> Nat]
    <3>1. holdCount[u] \in Nat /\ (creationHold[u] => holdCount[u] - 1 \in Nat)
      BY CountPositive
    <3> QED BY <1>7, <3>1 DEF ReleaseCreationHold, RestTypes
  <2> QED BY <1>7, <2>1, <2>2, <2>3 DEF ReleaseCreationHold, FlagTypes, RestTypes
<1>8. CASE SkipHold(u)
  <2>1. Goto(c, "done") /\ on' = on
    BY <1>8 DEF SkipHold, c
  <2> QED BY <1>8, <2>1, <1>a, <1>b DEF SkipHold, FlagTypes, RestTypes
<1> QED BY <1>1, <1>2, <1>3, <1>4, <1>5, <1>6, <1>7, <1>8 DEF Creation

\* So do the child, the reader and the poll.
LEMMA TypesThreads ==
  ASSUME Types, NEW u \in Uids,
         ChildExits(u) \/ ReaderThread(u) \/ ReaderSeesStop(u) \/ SpawnStopper(u)
  PROVE  Types'
<1> DEFINE r == Reader(u)
           s == Stopper(u)
<1>0. /\ r \in Actors /\ on[r] = u /\ s \in Actors /\ on[s] = u
      /\ {"exiting", "claim", "stop", "done"} \subseteq Places(r) /\ "stop" \in Places(s)
  BY ActorsDiffer, PlacesOf DEF Types, Located
<1>a. ASSUME NEW l \in Places(r), Goto(r, l), on' = on
      PROVE  pc' \in [Actors -> Pcs] /\ Located'
  BY <1>0, <1>a, Moves
<1> HIDE DEF r, s
<1> USE TypeSplit DEF registryVars, procVars, flagVars, holdVars
<1>1. CASE ChildExits(u)
  BY <1>1 DEF ChildExits, FlagTypes, RestTypes, Located
<1>2. CASE ReaderLeaves(u)
  <2>1. Goto(r, "exiting") /\ on' = on
    BY <1>2 DEF ReaderLeaves, r
  <2> QED BY <1>2, <2>1, <1>0, <1>a DEF ReaderLeaves, FlagTypes, RestTypes
<1>3. CASE ReaderSeesStop(u)
  <2>1. Goto(r, "exiting") /\ on' = on
    BY <1>3 DEF ReaderSeesStop, r
  <2> QED BY <1>3, <2>1, <1>0, <1>a DEF ReaderSeesStop, FlagTypes, RestTypes
<1>4. CASE ReaderExit(u)
  <2>1. (Goto(r, "done") \/ Goto(r, "claim")) /\ on' = on
    BY <1>4 DEF ReaderExit, r
  <2>2. faults' \subseteq Actors \X Uids
    BY <1>0, <1>4 DEF ReaderExit, Touch, RestTypes, r
  <2> QED BY <1>4, <2>1, <2>2, <1>0, <1>a DEF ReaderExit, FlagTypes, RestTypes
<1>5. CASE ReaderClaims(u)
  <2>1. (Goto(r, "done") \/ Goto(r, "stop")) /\ on' = on
    BY <1>5 DEF ReaderClaims, r
  <2> QED BY <1>5, <2>1, <1>0, <1>a DEF ReaderClaims, Unregister, FlagTypes, RestTypes
<1>6. CASE SpawnStopper(u)
  <2>1. Goto(s, "stop") /\ on' = on
    BY <1>6 DEF SpawnStopper, s
  <2>2. pc' \in [Actors -> Pcs] /\ Located'
    BY <2>1, <1>0, Moves
  <2> QED BY <1>6, <2>1, <2>2 DEF SpawnStopper, FlagTypes, RestTypes
<1> QED BY <1>1, <1>2, <1>3, <1>4, <1>5, <1>6 DEF ReaderThread

\* So do clients that turn to a session.
LEMMA TypesTurns ==
  ASSUME Types, NEW a \in Clients, NEW u \in Uids,
         (a \in Killers /\ KillerClaims(a, u)) \/ (a \in Handlers /\ Lookup(a, u))
  PROVE  Types'
<1> USE TypeSplit DEF registryVars, procVars, flagVars, holdVars
<1>1. CASE a \in Killers /\ KillerClaims(a, u)
  <2>1. "stop" \in Places(a) /\ on' = [on EXCEPT ![a] = u] /\ Goto(a, "stop")
    BY <1>1, PlacesOf DEF KillerClaims
  <2>2. pc' \in [Actors -> Pcs] /\ on' \in [Actors -> Uids \cup {None}] /\ Located'
    BY <2>1, Turns
  <2> QED BY <1>1, <2>2 DEF KillerClaims, Unregister, FlagTypes, RestTypes
<1>2. CASE a \in Handlers /\ Lookup(a, u)
  <2>1. "found" \in Places(a) /\ on' = [on EXCEPT ![a] = u] /\ Goto(a, "found")
    BY <1>2, PlacesOf DEF Lookup
  <2>2. pc' \in [Actors -> Pcs] /\ on' \in [Actors -> Uids \cup {None}] /\ Located'
    BY <2>1, Turns
  <2> QED BY <1>2, <2>2 DEF Lookup, FlagTypes, RestTypes
<1> QED BY <1>1, <1>2

\* So do holders.
LEMMA TypesHolding ==
  ASSUME Types, Counted, NEW a \in Creators \cup Handlers, Holding(a)
  PROVE  Types'
<1>0. /\ a \in Actors /\ {"holding", "freeing"} \subseteq Places(a)
      /\ a \in Creators => "done" \in Places(a)
      /\ a \notin Creators => "idle" \in Places(a)
  BY ActorsDiffer, PlacesOf DEF HolderPcs
<1>1. on[a] \in Uids
  BY <1>0 DEF Types, Located, Holding, AcquireHold, Use, ReleaseHold
<1> USE TypeSplit DEF registryVars, procVars, flagVars, holdVars
<1>2. CASE AcquireHold(a)
  <2>1. Goto(a, "holding") /\ on' = on
    BY <1>2 DEF AcquireHold
  <2>2. inTime' \subseteq Actors
    BY <1>0, <1>2 DEF AcquireHold, RestTypes
  <2>3. pc' \in [Actors -> Pcs] /\ Located'
    BY <2>1, <1>0, <1>1, Moves
  <2>4. holdCount' \in [Uids -> Nat] /\ creationHold' \in [Uids -> BOOLEAN]
    <3>1. \/ UNCHANGED holdCount /\ creationHold' = [creationHold EXCEPT ![on[a]] = FALSE]
          \/ UNCHANGED creationHold /\ holdCount' = [holdCount EXCEPT ![on[a]] = @ + 1]
      BY <1>2 DEF AcquireHold
    <3>2. holdCount[on[a]] + 1 \in Nat /\ holdCount \in [Uids -> Nat] /\ creationHold \in [Uids -> BOOLEAN]
      BY <1>1 DEF FlagTypes, RestTypes
    <3>3. holdCount' \in [Uids -> Nat]
      BY ONLY <3>1, <3>2
    <3>4. creationHold' \in [Uids -> BOOLEAN]
      BY ONLY <3>1, <3>2
    <3> QED BY <3>3, <3>4
  <2> QED BY <1>2, <2>1, <2>2, <2>3, <2>4 DEF AcquireHold, FlagTypes, RestTypes
<1>3. CASE Use(a)
  <2>1. faults' \subseteq Actors \X Uids
    BY <1>0, <1>1, <1>3 DEF Use, Touch, RestTypes
  <2> QED BY <1>3, <2>1 DEF Use, FlagTypes, RestTypes, Located
<1>4. CASE ReleaseHold(a)
  <2>1. PICK l \in Places(a) : Goto(a, l) /\ on' = on
    BY <1>0, <1>4 DEF ReleaseHold
  <2>2. pc' \in [Actors -> Pcs] /\ Located'
    BY <2>1, <1>0, <1>1, Moves
  <2>3. holdCount[on[a]] - 1 \in Nat
    <3>1. a \in Holders(on[a])
      BY <1>0, <1>4 DEF ReleaseHold, Holders
    <3>2. holdCount[on[a]] \in Nat /\ holdCount[on[a]] > 0
      BY <3>1, <1>1, CountPositive
    <3> QED BY <3>2
  <2>4. holdCount' \in [Uids -> Nat]
    BY <2>3, <1>4 DEF ReleaseHold, RestTypes
  <2> QED BY <1>4, <2>1, <2>2, <2>4 DEF ReleaseHold, FlagTypes, RestTypes
<1> QED BY <1>2, <1>3, <1>4 DEF Holding

\* So does whoever stops, archives or releases.
LEMMA TypesStop ==
  ASSUME Types, NEW a \in Actors, Stop(a)
  PROVE  Types'
<1> USE TypeSplit DEF registryVars, procVars, flagVars, holdVars
<1>0. on[a] \in Uids /\ pc[a] \in Places(a)
  BY DEF Located, Stop, StopBegins, StopExitInfo, StopKills, StopJoins, StopFinishes, Archive,
         ReleaseComponents, DoRelease
<1>a. pc[a] \in {"stop"} \cup StopBody => StopBody \subseteq Places(a) /\ AfterStop(a) \in Places(a)
  BY <1>0, StopPlaces
<1>b. {"exitinfo", "kill", "join", "finish"} = StopBody
  BY DEF StopBody
<1>1. CASE StopBegins(a)
  <2>1. PICK l \in Places(a) : Goto(a, l) /\ on' = on
    BY <1>1, <1>a, <1>b DEF StopBegins
  <2>2. faults' \subseteq Actors \X Uids
    BY <1>0, <1>1 DEF StopBegins, Touch, RestTypes
  <2>3. pc' \in [Actors -> Pcs] /\ Located'
    BY <2>1, <1>0, Moves
  <2> QED BY <1>1, <2>1, <2>2, <2>3 DEF StopBegins, FlagTypes, RestTypes
<1>2. CASE StopExitInfo(a)
  <2>1. Goto(a, "kill") /\ on' = on /\ "kill" \in Places(a)
    BY <1>2, <1>a, <1>b DEF StopExitInfo
  <2> QED BY <1>2, <2>1, <1>0, Moves DEF StopExitInfo, FlagTypes, RestTypes
<1>3. CASE StopKills(a)
  <2>1. Goto(a, "join") /\ on' = on /\ "join" \in Places(a)
    BY <1>3, <1>a, <1>b DEF StopKills
  <2> QED BY <1>3, <2>1, <1>0, Moves DEF StopKills, FlagTypes, RestTypes
<1>4. CASE StopJoins(a)
  <2>1. Goto(a, "finish") /\ on' = on /\ "finish" \in Places(a)
    BY <1>4, <1>a, <1>b DEF StopJoins
  <2> QED BY <1>4, <2>1, <1>0, Moves DEF StopJoins, FlagTypes, RestTypes
<1>5. CASE StopFinishes(a)
  <2>1. Goto(a, AfterStop(a)) /\ on' = on /\ AfterStop(a) \in Places(a)
    BY <1>5, <1>a, <1>b DEF StopFinishes
  <2> QED BY <1>5, <2>1, <1>0, Moves DEF StopFinishes, FlagTypes, RestTypes
<1>6. CASE Archive(a)
  <2>1. Goto(a, "release") /\ on' = on
    BY <1>6 DEF Archive
  <2>2. "release" \in Places(a)
    BY <1>6, <1>0, PlacesOf, ActorsDiffer DEF Archive, CreatorPcs, HolderPcs, StopBody
  <2>3. faults' \subseteq Actors \X Uids
    BY <1>0, <1>6 DEF Archive, Touch, RestTypes
  <2> QED BY <1>6, <2>1, <2>2, <2>3, <1>0, Moves DEF Archive, FlagTypes, RestTypes
<1>7. CASE ReleaseComponents(a)
  <2>1. a \in Readers \cup Killers
    BY <1>7, <1>0, PlacesOf, ActorsDiffer DEF ReleaseComponents, CreatorPcs, HolderPcs, StopBody
  <2>2. PICK l \in Places(a) : Goto(a, l) /\ on' = on
    BY <1>7, <2>1, PlacesOf, ActorsDiffer DEF ReleaseComponents
  <2>3. pc' \in [Actors -> Pcs] /\ Located'
    BY <2>2, <1>0, Moves
  <2>4. pending' \in [Uids -> BOOLEAN]
    <3>1. \/ pending' = pending
          \/ pending' = [pending EXCEPT ![on[a]] = holdCount[on[a]] > 0]
      BY <1>7 DEF ReleaseComponents
    <3>2. (holdCount[on[a]] > 0) \in BOOLEAN
      OBVIOUS
    <3>3. pending \in [Uids -> BOOLEAN]
      BY DEF FlagTypes
    <3>4. \A b \in BOOLEAN : [pending EXCEPT ![on[a]] = b] \in [Uids -> BOOLEAN]
      BY <3>3
    <3> QED BY ONLY <3>1, <3>2, <3>3, <3>4, Zenon
  <2> QED BY <1>7, <2>2, <2>3, <2>4 DEF ReleaseComponents, FlagTypes, RestTypes
<1>8. CASE DoRelease(a)
  <2>1. PICK l \in Places(a) : Goto(a, l) /\ on' = on
    <3>1. a \notin Stoppers
      BY <1>8, <1>0, PlacesOf DEF DoRelease, StopBody
    <3>2. "idle" \in Places(a) \/ a \notin Clients
      BY PlacesOf DEF Clients
    <3>3. "done" \in Places(a) \/ a \in Clients
      BY <3>1, PlacesOf, ActorsDiffer DEF Clients
    <3> QED BY <1>8, <3>2, <3>3 DEF DoRelease
  <2> QED BY <1>8, <2>1, <1>0, Moves DEF DoRelease, FlagTypes, RestTypes
<1> QED BY <1>1, <1>2, <1>3, <1>4, <1>5, <1>6, <1>7, <1>8 DEF Stop
-----------------------------------------------------------------------------
(* Holds.                                                                  *)
Young == {"new", "registered", "hooked"}

\* A step that leaves holders and counts alone.
LEMMA CountedKept ==
  ASSUME Counted, UNCHANGED <<holdCount, creationHold>>,
         \A b \in Actors : /\ pc'[b] = "holding" <=> pc[b] = "holding"
                           /\ pc[b] = "holding" => on'[b] = on[b],
         \A u \in Uids : pc'[Creator(u)] \in Young => pc[Creator(u)] \in Young
  PROVE  Counted'
<1>1. ASSUME NEW u \in Uids PROVE Holders(u)' = Holders(u)
  <2>1. \A b \in Actors : on'[b] = u /\ pc'[b] = "holding" <=> on[b] = u /\ pc[b] = "holding"
    OBVIOUS
  <2> QED BY <2>1 DEF Holders
<1> QED BY <1>1 DEF Counted, Young

\* One thread moves, and neither enters nor leaves a hold.
LEMMA CountedMove ==
  ASSUME Types, Counted, UNCHANGED <<holdCount, creationHold>>,
         NEW a \in Actors, pc[a] # "holding", NEW l, l \notin {"holding"} \cup Young, Goto(a, l),
         \A b \in Actors : b # a => on'[b] = on[b]
  PROVE  Counted'
<1>1. pc'[a] = l /\ \A b \in Actors : b # a => pc'[b] = pc[b]
  BY DEF Goto, Types, TypeOK
<1>2. \A u \in Uids : Creator(u) \in Actors
  BY ActorsDiffer
<1> QED BY <1>1, <1>2, CountedKept

\* Holds are counted through a creation.
LEMMA CountedCreation ==
  ASSUME Types, Counted, NEW u \in Uids, Creation(u)
  PROVE  Counted'
<1> DEFINE c == Creator(u)
<1>0. c \in Actors /\ \A v \in Uids : v # u => Creator(v) # c
  BY ActorsDiffer
<1>a. \A l : Goto(c, l) => pc'[c] = l /\ \A b \in Actors : b # c => pc'[b] = pc[b]
  BY <1>0 DEF Goto, Types, TypeOK
<1>b. \A v \in Uids : Creator(v) \in Actors
  BY ActorsDiffer
<1> HIDE DEF c
<1> USE DEF holdVars
<1>1. CASE Register(u)
  <2>1. pc[c] = "new" /\ Goto(c, "registered") /\ on' = on /\ UNCHANGED <<holdCount, creationHold>>
    BY <1>1 DEF Register, c
  <2>2. \A v \in Uids : pc'[Creator(v)] \in Young => pc[Creator(v)] \in Young
    BY <2>1, <1>a, <1>b DEF Young
  <2> QED BY <2>1, <2>2, <1>a, CountedKept
<1>2. CASE AddEndCallback(u)
  <2>1. /\ pc[c] = "registered" /\ (Goto(c, "done") \/ Goto(c, "hooked"))
        /\ on' = on /\ UNCHANGED <<holdCount, creationHold>>
    BY <1>2 DEF AddEndCallback, c
  <2>2. \A v \in Uids : pc'[Creator(v)] \in Young => pc[Creator(v)] \in Young
    BY <2>1, <1>a, <1>b DEF Young
  <2> QED BY <2>1, <2>2, <1>a, CountedKept
<1>3. CASE PreHold(u)
  <2>1. /\ pc[c] = "hooked" /\ Goto(c, "preheld") /\ on' = on
        /\ creationHold' = [creationHold EXCEPT ![u] = TRUE]
        /\ holdCount' = [holdCount EXCEPT ![u] = @ + 1]
    BY <1>3 DEF PreHold, c
  <2>2. \A v \in Uids : Holders(v)' = Holders(v)
    BY <2>1, <1>a DEF Holders
  <2>3. ~creationHold[u] /\ holdCount[u] = Cardinality(Holders(u)) /\ Cardinality(Holders(u)) \in Nat
    BY <2>1, CountPositive DEF Counted, c
  <2>4. creationHold'[u] /\ holdCount'[u] = Cardinality(Holders(u)) + 1 /\ pc'[c] = "preheld"
    BY <2>1, <2>3, <1>a DEF Types, TypeOK
  <2>5. \A v \in Uids : v # u => /\ creationHold'[v] = creationHold[v] /\ holdCount'[v] = holdCount[v]
                                 /\ pc'[Creator(v)] = pc[Creator(v)]
    BY <2>1, <1>a, <1>b, <1>0 DEF Types, TypeOK
  <2> QED BY <2>2, <2>4, <2>5 DEF Counted, c
<1>4. CASE OpenPty(u)
  <2>1. /\ pc[c] = "preheld" /\ on' = on /\ UNCHANGED <<holdCount, creationHold>>
        /\ (Goto(c, "opened") \/ Goto(c, "failed"))
    BY <1>4 DEF OpenPty, c
  <2> QED BY <2>1, <1>0, CountedMove DEF Young
<1>5. CASE Launch(u)
  <2>1. /\ pc[c] = "opened" /\ on' = on /\ UNCHANGED <<holdCount, creationHold>>
    BY <1>5 DEF Launch, c
  <2>2. CASE Goto(c, "failed")
    BY <2>1, <2>2, <1>0, CountedMove DEF Young
  <2>3. CASE pc' = [pc EXCEPT ![c] = "returned", ![Reader(u)] = "loop"]
    <3>1. Reader(u) \in Actors /\ Reader(u) # c /\ Reader(u) \notin Creators /\ pc[Reader(u)] # "holding"
      BY ActorsDiffer, PlacesOf DEF c, Types, Located, StopBody
    <3>2. /\ pc'[c] = "returned" /\ pc'[Reader(u)] = "loop"
          /\ \A b \in Actors : b # c /\ b # Reader(u) => pc'[b] = pc[b]
      BY <2>3, <3>1, <1>0 DEF Types, TypeOK
    <3>3. \A v \in Uids : pc'[Creator(v)] \in Young => pc[Creator(v)] \in Young
      BY <3>1, <3>2, <1>b, ActorsDiffer DEF Young
    <3>4. \A b \in Actors : pc'[b] = "holding" <=> pc[b] = "holding"
      BY <2>1, <3>1, <3>2
    <3> QED BY <2>1, <3>3, <3>4, CountedKept
  <2> QED BY <1>5, <2>2, <2>3 DEF Launch, c
<1>6. CASE CreateFailed(u)
  <2>1. pc[c] = "failed" /\ Goto(c, "stop") /\ on' = on /\ UNCHANGED <<holdCount, creationHold>>
    BY <1>6 DEF CreateFailed, c
  <2> QED BY <2>1, <1>0, CountedMove DEF Young
<1>7. CASE ReleaseCreationHold(u)
  <2>1. pc[c] = "unhold" /\ on' = on /\ (Goto(c, "done") \/ Goto(c, "freeing"))
    BY <1>7 DEF ReleaseCreationHold, c
  <2>2. CASE ~creationHold[u]
    <3>1. UNCHANGED <<holdCount, creationHold>>
      BY <1>7, <2>2 DEF ReleaseCreationHold
    <3> QED BY <2>1, <3>1, <1>0, CountedMove DEF Young
  <2>3. CASE creationHold[u]
    <3>1. /\ creationHold' = [creationHold EXCEPT ![u] = FALSE]
          /\ holdCount' = [holdCount EXCEPT ![u] = @ - 1]
      BY <1>7, <2>3 DEF ReleaseCreationHold
    <3>2. \A v \in Uids : Holders(v)' = Holders(v)
      BY <2>1, <1>a DEF Holders
    <3>3. holdCount[u] = Cardinality(Holders(u)) + 1 /\ Cardinality(Holders(u)) \in Nat
      BY <2>3, CountPositive DEF Counted
    <3>4. ~creationHold'[u] /\ holdCount'[u] = Cardinality(Holders(u))
      BY <3>1, <3>3 DEF Types, TypeOK
    <3>5. \A v \in Uids : v # u => /\ creationHold'[v] = creationHold[v] /\ holdCount'[v] = holdCount[v]
                                   /\ pc'[Creator(v)] = pc[Creator(v)]
      BY <2>1, <3>1, <1>a, <1>b, <1>0 DEF Types, TypeOK
    <3>6. pc'[c] \notin Young
      BY <2>1, <1>a DEF Young
    <3>7. creationHold[u] \in BOOLEAN /\ creationHold'[u] = FALSE
      BY <3>1 DEF Types, TypeOK
    <3>8. /\ IsFiniteSet(Holders(u)') /\ holdCount'[u] = Cardinality(Holders(u)') + 0
          /\ pc'[Creator(u)] \in Young => ~creationHold'[u]
      BY <3>2, <3>3, <3>4, <3>6 DEF Counted, c
    <3>9. \A v \in Uids : v # u =>
            /\ IsFiniteSet(Holders(v)')
            /\ holdCount'[v] = Cardinality(Holders(v)') + (IF creationHold'[v] THEN 1 ELSE 0)
            /\ pc'[Creator(v)] \in Young => ~creationHold'[v]
      BY <3>2, <3>5 DEF Counted, Young
    <3> QED BY <3>7, <3>8, <3>9 DEF Counted, Young
  <2> QED BY <2>2, <2>3
<1>8. CASE SkipHold(u)
  <2>1. pc[c] = "returned" /\ Goto(c, "done") /\ on' = on /\ UNCHANGED <<holdCount, creationHold>>
    BY <1>8 DEF SkipHold, c
  <2> QED BY <2>1, <1>0, CountedMove DEF Young
<1> QED BY <1>1, <1>2, <1>3, <1>4, <1>5, <1>6, <1>7, <1>8 DEF Creation

\* So they are while threads and clients move on, hold and stop.
LEMMA CountedThreads ==
  ASSUME Types, Counted, NEW u \in Uids,
         ChildExits(u) \/ ReaderThread(u) \/ ReaderSeesStop(u) \/ SpawnStopper(u)
  PROVE  Counted'
<1> DEFINE r == Reader(u)
           s == Stopper(u)
<1>0. r \in Actors /\ s \in Actors
  BY ActorsDiffer
<1> HIDE DEF r, s
<1> USE DEF holdVars
<1>1. CASE ChildExits(u)
  BY <1>1, CountedKept DEF ChildExits
<1>2. CASE ReaderThread(u) \/ ReaderSeesStop(u)
  <2>1. \E l \in {"exiting", "claim", "stop", "done"} :
          /\ pc[r] # "holding" /\ Goto(r, l) /\ on' = on /\ UNCHANGED <<holdCount, creationHold>>
    BY <1>2 DEF ReaderThread, ReaderLeaves, ReaderExit, ReaderClaims, ReaderSeesStop, r
  <2> QED BY <2>1, <1>0, CountedMove DEF Young
<1>3. CASE SpawnStopper(u)
  <2>1. pc[s] = "idle" /\ Goto(s, "stop") /\ on' = on /\ UNCHANGED <<holdCount, creationHold>>
    BY <1>3 DEF SpawnStopper, s
  <2> QED BY <2>1, <1>0, CountedMove DEF Young
<1> QED BY <1>1, <1>2, <1>3

\* Clients turn to sessions.
LEMMA CountedTurns ==
  ASSUME Types, Counted, NEW a \in Clients, NEW u \in Uids,
         (a \in Killers /\ KillerClaims(a, u)) \/ (a \in Handlers /\ Lookup(a, u))
  PROVE  Counted'
<1>1. \E l \in {"stop", "found"} :
        /\ pc[a] = "idle" /\ Goto(a, l) /\ on' = [on EXCEPT ![a] = u]
        /\ UNCHANGED <<holdCount, creationHold>>
  BY DEF KillerClaims, Lookup, holdVars
<1>2. a \in Actors
  BY DEF Actors
<1>3. \A b \in Actors : b # a => on'[b] = on[b]
  BY <1>1, <1>2 DEF Types, TypeOK
<1> QED BY <1>1, <1>2, <1>3, CountedMove DEF Young

\* Threads stop, archive and release.
LEMMA CountedStop ==
  ASSUME Types, Counted, NEW a \in Actors, Stop(a)
  PROVE  Counted'
<1>1. \E l \in Pcs \ ({"holding"} \cup Young) :
        /\ pc[a] # "holding" /\ Goto(a, l) /\ on' = on /\ UNCHANGED <<holdCount, creationHold>>
  <2> USE DEF holdVars
  <2>1. {"stop", "archive", "release", "freeing", "idle", "done", "unhold"} \cup StopBody
          \subseteq Pcs \ ({"holding"} \cup Young)
    BY DEF Pcs, EndPcs, CreatorPcs, HolderPcs, StopBody, Young
  <2>2. pc[a] \in {"stop"} \cup StopBody => AfterStop(a) \in {"unhold", "done", "archive"}
    BY StopPlaces DEF Types, Located
  <2>3. CASE StopBegins(a)
    BY <2>1, <2>2, <2>3 DEF StopBegins, StopBody
  <2>4. CASE StopExitInfo(a) \/ StopKills(a) \/ StopJoins(a)
    BY <2>1, <2>4 DEF StopExitInfo, StopKills, StopJoins, StopBody
  <2>5. CASE StopFinishes(a)
    BY <2>1, <2>2, <2>5 DEF StopFinishes, StopBody
  <2>6. CASE Archive(a) \/ DoRelease(a)
    BY <2>1, <2>6 DEF Archive, DoRelease
  <2>7. CASE ReleaseComponents(a)
    BY <2>1, <2>7 DEF ReleaseComponents
  <2> QED BY <2>3, <2>4, <2>5, <2>6, <2>7 DEF Stop
<1> QED BY <1>1, CountedMove

\* Holders come and go.
LEMMA CountedHolding ==
  ASSUME Types, Counted, NEW a \in Creators \cup Handlers, Holding(a)
  PROVE  Counted'
<1>0. a \in Actors /\ \A v \in Uids : Creator(v) \in Actors
  BY ActorsDiffer
<1>1. on[a] \in Uids
  BY <1>0 DEF Types, Located, Holding, AcquireHold, Use, ReleaseHold
<1>2. PICK u \in Uids : u = on[a]
  BY <1>1
<1>3. CASE AcquireHold(a)
  <2>1. /\ pc[a] \in {"returned", "found"} /\ Goto(a, "holding") /\ on' = on
        /\ \/ creationHold[u] /\ creationHold' = [creationHold EXCEPT ![u] = FALSE] /\ UNCHANGED holdCount
           \/ ~creationHold[u] /\ holdCount' = [holdCount EXCEPT ![u] = @ + 1] /\ UNCHANGED creationHold
    BY <1>2, <1>3 DEF AcquireHold
  <2>2. pc'[a] = "holding" /\ \A b \in Actors : b # a => pc'[b] = pc[b]
    BY <2>1, <1>0 DEF Goto, Types, TypeOK
  <2>3. Holders(u)' = Holders(u) \cup {a} /\ a \notin Holders(u)
    BY <2>1, <2>2, <1>0, <1>2 DEF Holders
  <2>4. \A v \in Uids : v # u => Holders(v)' = Holders(v)
    BY <2>1, <2>2, <1>0, <1>2 DEF Holders
  <2>5. /\ IsFiniteSet(Holders(u)') /\ Cardinality(Holders(u)') = Cardinality(Holders(u)) + 1
        /\ Cardinality(Holders(u)) \in Nat
    BY <2>3, FS_AddElement, CountPositive DEF Counted
  <2>6. /\ holdCount[u] = Cardinality(Holders(u)) + (IF creationHold[u] THEN 1 ELSE 0)
        /\ creationHold \in [Uids -> BOOLEAN] /\ holdCount \in [Uids -> Nat]
    BY DEF Counted, Types, TypeOK
  <2>7. /\ holdCount'[u] = Cardinality(Holders(u)) + 1 /\ creationHold'[u] = FALSE
        /\ \A v \in Uids : v # u => holdCount'[v] = holdCount[v] /\ creationHold'[v] = creationHold[v]
    BY <2>1, <2>5, <2>6
  <2>8. \A v \in Uids : pc'[Creator(v)] \in Young => pc[Creator(v)] \in Young
    BY <2>2, <1>0 DEF Young
  <2>9. /\ IsFiniteSet(Holders(u)') /\ holdCount'[u] = Cardinality(Holders(u)') + 0
        /\ pc'[Creator(u)] \in Young => ~creationHold'[u]
    BY <2>5, <2>7
  <2>10. \A v \in Uids : v # u =>
           /\ IsFiniteSet(Holders(v)')
           /\ holdCount'[v] = Cardinality(Holders(v)') + (IF creationHold'[v] THEN 1 ELSE 0)
           /\ pc'[Creator(v)] \in Young => ~creationHold'[v]
    BY <2>4, <2>7, <2>8 DEF Counted, Young
  <2> QED BY <2>7, <2>9, <2>10 DEF Counted, Young
<1>4. CASE Use(a)
  BY <1>4, CountedKept DEF Use, holdVars
<1>5. CASE ReleaseHold(a)
  <2>1. /\ pc[a] = "holding" /\ on' = on /\ UNCHANGED creationHold
        /\ holdCount' = [holdCount EXCEPT ![u] = @ - 1]
        /\ \E l \in {"freeing", "done", "idle"} : Goto(a, l)
    BY <1>2, <1>5 DEF ReleaseHold
  <2>2. pc'[a] \in {"freeing", "done", "idle"} /\ \A b \in Actors : b # a => pc'[b] = pc[b]
    BY <2>1, <1>0 DEF Goto, Types, TypeOK
  <2>3. Holders(u)' = Holders(u) \ {a} /\ a \in Holders(u)
    BY <2>1, <2>2, <1>0, <1>2 DEF Holders
  <2>4. \A v \in Uids : v # u => Holders(v)' = Holders(v)
    BY <2>1, <2>2, <1>0, <1>2 DEF Holders
  <2>5. /\ IsFiniteSet(Holders(u)') /\ Cardinality(Holders(u)') = Cardinality(Holders(u)) - 1
        /\ Cardinality(Holders(u)) \in Nat
    BY <2>3, FS_RemoveElement, CountPositive DEF Counted
  <2>6. /\ holdCount[u] = Cardinality(Holders(u)) + (IF creationHold[u] THEN 1 ELSE 0)
        /\ holdCount \in [Uids -> Nat]
    BY DEF Counted, Types, TypeOK
  <2>7. /\ holdCount'[u] = Cardinality(Holders(u)') + (IF creationHold[u] THEN 1 ELSE 0)
        /\ \A v \in Uids : v # u => holdCount'[v] = holdCount[v]
    BY <2>1, <2>5, <2>6
  <2>8. \A v \in Uids : pc'[Creator(v)] \in Young => pc[Creator(v)] \in Young
    BY <2>2, <1>0 DEF Young
  <2> QED BY <2>1, <2>4, <2>5, <2>7, <2>8 DEF Counted, Young
<1> QED BY <1>3, <1>4, <1>5 DEF Holding

\* Types and counts hold always.
LEMMA TypesKept == Spec => [](Types /\ Counted)
<1>1. Init => Types /\ Counted
  <2> SUFFICES ASSUME Init PROVE Types /\ Counted
    OBVIOUS
  <2>1. \A a \in Actors : pc[a] = IF a \in Creators THEN "new" ELSE "idle"
    BY DEF Init
  <2>2. \A a \in Actors : pc[a] \in Places(a) /\ pc[a] # "holding"
    BY <2>1, PlacesOf, ActorsDiffer DEF CreatorPcs
  <2>3. \A u \in Uids : Creator(u)[2] = u /\ Reader(u)[2] = u /\ Stopper(u)[2] = u
    BY DEF Creator, Reader, Stopper
  <2>4. \A u \in Uids : on[Creator(u)] = u /\ on[Reader(u)] = u /\ on[Stopper(u)] = u
    BY <2>3, ActorsDiffer DEF Init
  <2>5. on \in [Actors -> Uids \cup {None}]
    <3>1. \A a \in Actors : a \notin Clients => a[2] \in Uids
      BY <2>3, ActorsDiffer DEF Clients
    <3> QED BY <3>1 DEF Init
  <2>6. pc \in [Actors -> Pcs]
    BY <2>1, <2>2, PlacesOf DEF Init
  <2>7. Located
    <3>1. \A a \in Actors : on[a] \notin Uids => pc[a] = "idle"
      BY <2>1, <2>4, ActorsDiffer
    <3> QED BY <2>2, <2>4, <3>1 DEF Located
  <2>8. FlagTypes
    BY DEF Init, FlagTypes
  <2>9. RestTypes
    BY <2>5, <2>6 DEF Init, RestTypes
  <2>10. \A u \in Uids : Holders(u) = {}
    BY <2>2 DEF Holders
  <2>11. Counted
    <3>1. \A u \in Uids : IsFiniteSet(Holders(u)) /\ Cardinality(Holders(u)) = 0
      BY <2>10, FS_EmptySet
    <3>2. \A u \in Uids : holdCount[u] = 0 /\ ~creationHold[u]
      BY DEF Init
    <3> QED BY <3>1, <3>2 DEF Counted
  <2> QED BY <2>7, <2>8, <2>9, <2>11, TypeSplit
<1>2. Types /\ Counted /\ [Next]_vars => (Types /\ Counted)'
  <2> SUFFICES ASSUME Types, Counted, [Next]_vars PROVE Types' /\ Counted'
    OBVIOUS
  <2>1. CASE UNCHANGED vars
    <3>1. Types'
      BY <2>1, TypeSplit DEF vars, registryVars, procVars, flagVars, holdVars, FlagTypes, RestTypes, Located
    <3>2. Counted'
      BY <2>1, CountedKept DEF vars, holdVars
    <3> QED BY <3>1, <3>2
  <2>2. CASE Next
    <3>1. \A h \in Handlers : h \in Clients
      BY DEF Clients
    <3>2. \A k \in Killers : k \in Clients
      BY DEF Clients
    <3>3. CASE UNCHANGED vars
      BY <3>3, <2>1
    <3> QED BY <2>2, <3>1, <3>2, <3>3, TypesCreation, TypesThreads, TypesTurns, TypesHolding, TypesStop,
               CountedCreation, CountedThreads, CountedTurns, CountedHolding, CountedStop
            DEF Next, Quiescent
  <2> QED BY <2>1, <2>2
<1> QED BY <1>1, <1>2, PTL DEF Spec

\* Every state is well typed: no count goes below zero, and each thread is where its kind
\* can be.
THEOREM TypeCorrect == Spec => []TypeOK
BY TypesKept, PTL DEF Types

\* The hold count is exact: a hold from the creation that is handed over, given back or
\* never taken is never counted twice and never lost.
THEOREM HoldsCounted == Spec => []HoldCountExact
<1>1. Counted => HoldCountExact
  BY DEF Counted, HoldCountExact, Holders
<1> QED BY <1>1, TypesKept, PTL
-----------------------------------------------------------------------------
(* The registry.                                                           *)

\* What Unregister does to two tables that agree.
LEMMA UnregisterAgrees ==
  ASSUME Types, RegistryConsistent, NEW u \in Uids, Unregister(u)
  PROVE  RegistryConsistent'
<1>1. None \notin Uids /\ \A s \in Sids : sidIndex'[s] = IF sidIndex[s] = u THEN None ELSE sidIndex[s]
  BY LifecycleAssumption DEF Unregister
<1>2. sessions' = sessions \ {u}
  BY DEF Unregister
<1> QED BY <1>1, <1>2 DEF RegistryConsistent

\* A session gets an id that nobody has.
LEMMA RegisterAgrees ==
  ASSUME Types, RegistryConsistent, NEW u \in Uids, Register(u)
  PROVE  RegistryConsistent'
<1>1. SidOf \in [Uids -> Sids] /\ None \notin Uids
  BY LifecycleAssumption
<1>2. /\ sidIndex[SidOf[u]] = None
      /\ sessions' = sessions \cup {u}
      /\ \A s \in Sids : sidIndex'[s] = IF s = SidOf[u] THEN u ELSE sidIndex[s]
  BY <1>1 DEF Register, Types, TypeOK
<1> QED BY <1>1, <1>2 DEF RegistryConsistent

\* The tables of sessions and of ids agree, whoever registers and unregisters, and
\* however often an id is used again.
THEOREM RegistryAgrees == Spec => []RegistryConsistent
<1>1. Init => RegistryConsistent
  BY LifecycleAssumption DEF Init, RegistryConsistent
<1>2. Types /\ RegistryConsistent /\ [Next]_vars => RegistryConsistent'
  <2> SUFFICES ASSUME Types, RegistryConsistent, [Next]_vars PROVE RegistryConsistent'
    OBVIOUS
  <2>1. CASE UNCHANGED registryVars
    BY <2>1 DEF registryVars, RegistryConsistent
  <2>2. CASE \E u \in Uids : Register(u)
    BY <2>2, RegisterAgrees
  <2>3. CASE \E u \in Uids : Unregister(u)
    BY <2>3, UnregisterAgrees
  <2>4. UNCHANGED registryVars \/ (\E u \in Uids : Register(u)) \/ (\E u \in Uids : Unregister(u))
    <3>1. CASE UNCHANGED vars
      BY <3>1 DEF vars
    <3>2. ASSUME NEW u \in Uids,
                 Creation(u) \/ ChildExits(u) \/ ReaderThread(u) \/ ReaderSeesStop(u) \/ SpawnStopper(u)
          PROVE  UNCHANGED registryVars \/ Register(u) \/ Unregister(u)
      BY <3>2 DEF Creation, AddEndCallback, PreHold, OpenPty, Launch, CreateFailed, ReleaseCreationHold,
           SkipHold, ChildExits, ReaderThread, ReaderLeaves, ReaderExit, ReaderClaims, ReaderSeesStop,
           SpawnStopper
    <3>3. ASSUME NEW k \in Killers, NEW u \in Uids, KillerClaims(k, u) PROVE Unregister(u)
      BY <3>3 DEF KillerClaims
    <3>4. ASSUME NEW h \in Handlers, NEW u \in Uids, Lookup(h, u) PROVE UNCHANGED registryVars
      BY <3>4 DEF Lookup
    <3>5. ASSUME NEW a \in Creators \cup Handlers, Holding(a) PROVE UNCHANGED registryVars
      BY <3>5 DEF Holding, AcquireHold, Use, ReleaseHold
    <3>6. ASSUME NEW a \in Actors, Stop(a) PROVE UNCHANGED registryVars
      BY <3>6 DEF Stop, StopBegins, StopExitInfo, StopKills, StopJoins, StopFinishes, Archive,
           ReleaseComponents, DoRelease
    <3> QED BY <3>1, <3>2, <3>3, <3>4, <3>5, <3>6 DEF Next, Quiescent
  <2> QED BY <2>1, <2>2, <2>3, <2>4
<1> QED BY <1>1, <1>2, TypesKept, PTL DEF Spec
-----------------------------------------------------------------------------
(* The end of a session.                                                   *)
Enders == Readers \cup Killers
EndingPcs == {"stop", "archive"} \cup StopBody
Ending(u) == {a \in Enders : on[a] = u /\ pc[a] \in EndingPcs}

\* Who ends a session is alone, has taken it out of the registry, and has not archived it.
OneEnd ==
  \A u \in Uids :
    /\ archives[u] <= 1
    /\ u \in sessions => pc[Creator(u)] # "new"
    /\ (archives[u] = 1 \/ Ending(u) # {}) => u \notin sessions /\ pc[Creator(u)] # "new"
    /\ Ending(u) # {} => archives[u] = 0
    /\ \A a, b \in Ending(u) : a = b

\* A step that lets nobody begin an end.
LEMMA OneEndKept ==
  ASSUME OneEnd, archives' = archives, sessions' \subseteq sessions,
         \A u \in Uids : Ending(u)' \subseteq Ending(u),
         \A u \in Uids : pc'[Creator(u)] = "new" => pc[Creator(u)] = "new"
  PROVE  OneEnd'
BY DEF OneEnd

\* One thread moves and does not begin an end.
LEMMA OneEndMove ==
  ASSUME Types, OneEnd, archives' = archives, sessions' \subseteq sessions,
         NEW a \in Actors, NEW l, l # "new", Goto(a, l),
         \A b \in Actors : b # a => on'[b] = on[b],
         a \in Enders => on'[a] = on[a] /\ (l \in EndingPcs => pc[a] \in EndingPcs)
  PROVE  OneEnd'
<1>1. pc'[a] = l /\ \A b \in Actors : b # a => pc'[b] = pc[b]
  BY DEF Goto, Types, TypeOK
<1>2. Enders \subseteq Actors /\ \A u \in Uids : Creator(u) \in Actors
  BY ActorsDiffer DEF Enders
<1>3. \A u \in Uids : Ending(u)' \subseteq Ending(u)
  BY <1>1, <1>2 DEF Ending
<1>4. \A u \in Uids : pc'[Creator(u)] = "new" => pc[Creator(u)] = "new"
  BY <1>1, <1>2
<1> QED BY <1>3, <1>4, OneEndKept

\* Somebody begins the end of a session that he finds in the registry.
LEMMA OneEndClaim ==
  ASSUME Types, OneEnd, archives' = archives, NEW u \in Uids, u \in sessions, Unregister(u),
         NEW a \in Enders, pc[a] \notin EndingPcs, Goto(a, "stop"), on'[a] = u,
         \A b \in Actors : b # a => on'[b] = on[b]
  PROVE  OneEnd'
<1>1. Enders \subseteq Actors /\ \A v \in Uids : Creator(v) \in Actors /\ Creator(v) # a
  BY ActorsDiffer DEF Enders, Clients
<1>2. pc'[a] = "stop" /\ \A b \in Actors : b # a => pc'[b] = pc[b]
  BY <1>1 DEF Goto, Types, TypeOK
<1>3. Ending(u) = {} /\ archives[u] # 1 /\ archives[u] \in Nat /\ archives[u] <= 1 /\ pc[Creator(u)] # "new"
  BY DEF OneEnd, Types, TypeOK
<1>4. Ending(u)' = {a}
  <2>1. a \in Ending(u)'
    BY <1>2 DEF Ending, EndingPcs
  <2>2. Ending(u)' \subseteq Ending(u) \cup {a}
    BY <1>1, <1>2 DEF Ending
  <2> QED BY <2>1, <2>2, <1>3
<1>5. \A v \in Uids : v # u => Ending(v)' \subseteq Ending(v)
  BY <1>1, <1>2 DEF Ending
<1>6. sessions' = sessions \ {u}
  BY DEF Unregister
<1>7. \A v \in Uids : pc'[Creator(v)] = pc[Creator(v)]
  BY <1>1, <1>2
<1>8. archives[u] = 0
  BY <1>3
<1> QED BY <1>3, <1>4, <1>5, <1>6, <1>7, <1>8 DEF OneEnd

\* Creation begins no end.
LEMMA OneEndCreation ==
  ASSUME Types, OneEnd, NEW u \in Uids, Creation(u)
  PROVE  OneEnd'
<1> DEFINE c == Creator(u)
<1>0. /\ c \in Actors /\ c \notin Enders /\ \A v \in Uids : Creator(v) \in Actors /\ (v # u => Creator(v) # c)
      /\ Enders \subseteq Actors
  BY ActorsDiffer DEF Enders, Clients
<1>1. CASE Register(u)
  <2>1. /\ pc[c] = "new" /\ Goto(c, "registered") /\ on' = on /\ archives' = archives
        /\ sessions' = sessions \cup {u}
    BY <1>1 DEF Register
  <2>2. pc'[c] = "registered" /\ \A b \in Actors : b # c => pc'[b] = pc[b]
    BY <2>1, <1>0 DEF Goto, Types, TypeOK
  <2>3. \A v \in Uids : Ending(v)' = Ending(v)
    BY <2>1, <2>2, <1>0 DEF Ending
  <2> HIDE DEF c
  <2> QED BY <2>1, <2>2, <2>3, <1>0 DEF OneEnd, c
<1> HIDE DEF c
<1>2. CASE Launch(u) /\ ~released[u]
  <2>1. pc' = [pc EXCEPT ![c] = "returned", ![Reader(u)] = "loop"] /\ UNCHANGED <<on, archives, sessions>>
    BY <1>2 DEF Launch, registryVars, c
  <2>2. Reader(u) \in Actors /\ Reader(u) # c /\ \A v \in Uids : Creator(v) # Reader(u)
    BY <1>0, ActorsDiffer DEF c
  <2>3. /\ pc'[c] = "returned" /\ pc'[Reader(u)] = "loop"
        /\ \A b \in Actors : b # c /\ b # Reader(u) => pc'[b] = pc[b]
    BY <2>1, <2>2, <1>0 DEF Types, TypeOK
  <2>4. \A v \in Uids : Ending(v)' \subseteq Ending(v)
    BY <2>1, <2>3, <1>0 DEF Ending, EndingPcs, StopBody
  <2>5. \A v \in Uids : pc'[Creator(v)] = "new" => pc[Creator(v)] = "new"
    BY <2>2, <2>3, <1>0
  <2> QED BY <2>1, <2>4, <2>5, OneEndKept
<1>3. CASE ~Register(u) /\ ~(Launch(u) /\ ~released[u])
  <2>1. \E l \in {"done", "hooked", "preheld", "opened", "failed", "stop", "freeing"} :
          Goto(c, l) /\ on' = on /\ archives' = archives /\ sessions' \subseteq sessions
    BY <1>3 DEF Creation, AddEndCallback, PreHold, OpenPty, Launch, CreateFailed, Unregister,
                ReleaseCreationHold, SkipHold, registryVars, c
  <2> QED BY <2>1, <1>0, OneEndMove
<1> QED BY <1>1, <1>2, <1>3

\* Nor does anything else but a claim.
LEMMA OneEndOthers ==
  ASSUME Types, OneEnd, Next, ~ \E u \in Uids : Creation(u)
  PROVE  OneEnd'
<1>0. /\ \A u \in Uids : /\ Reader(u) \in Actors /\ Reader(u) \in Enders /\ on[Reader(u)] = u
                         /\ Stopper(u) \in Actors /\ Stopper(u) \notin Enders
      /\ \A h \in Handlers : h \in Actors /\ h \notin Enders
      /\ \A k \in Killers : k \in Actors /\ k \in Enders
      /\ \A c \in Creators : c \in Actors /\ c \notin Enders
  BY ActorsDiffer DEF Enders, Clients, Types, Located
<1> USE DEF registryVars
<1>1. ASSUME NEW u \in Uids, ChildExits(u) PROVE OneEnd'
  BY <1>1, OneEndKept DEF ChildExits, Ending
<1>2. ASSUME NEW u \in Uids, ReaderLeaves(u) \/ ReaderSeesStop(u) \/ ReaderExit(u) PROVE OneEnd'
  <2>1. \E l \in {"exiting", "done", "claim"} :
          Goto(Reader(u), l) /\ on' = on /\ archives' = archives /\ sessions' = sessions
    BY <1>2 DEF ReaderLeaves, ReaderSeesStop, ReaderExit
  <2> QED BY <2>1, <1>0, OneEndMove DEF EndingPcs, StopBody
<1>3. ASSUME NEW u \in Uids, ReaderClaims(u) PROVE OneEnd'
  <2>1. CASE u \in sessions
    <3>1. /\ pc[Reader(u)] = "claim" /\ Goto(Reader(u), "stop") /\ Unregister(u) /\ on' = on
          /\ archives' = archives
      BY <1>3, <2>1 DEF ReaderClaims
    <3> QED BY <3>1, <2>1, <1>0, OneEndClaim DEF EndingPcs, StopBody
  <2>2. CASE u \notin sessions
    <3>1. Goto(Reader(u), "done") /\ on' = on /\ archives' = archives /\ sessions' = sessions
      BY <1>3, <2>2 DEF ReaderClaims
    <3> QED BY <3>1, <1>0, OneEndMove DEF EndingPcs, StopBody
  <2> QED BY <2>1, <2>2
<1>4. ASSUME NEW u \in Uids, SpawnStopper(u) PROVE OneEnd'
  <2>1. Goto(Stopper(u), "stop") /\ on' = on /\ archives' = archives /\ sessions' = sessions
    BY <1>4 DEF SpawnStopper
  <2> QED BY <2>1, <1>0, OneEndMove
<1>5. ASSUME NEW k \in Killers, NEW u \in Uids, KillerClaims(k, u) PROVE OneEnd'
  <2>1. /\ pc[k] = "idle" /\ u \in sessions /\ Goto(k, "stop") /\ Unregister(u)
        /\ on' = [on EXCEPT ![k] = u] /\ archives' = archives
    BY <1>5 DEF KillerClaims
  <2>2. on'[k] = u /\ \A b \in Actors : b # k => on'[b] = on[b]
    BY <2>1, <1>0 DEF Types, TypeOK
  <2> QED BY <2>1, <2>2, <1>0, OneEndClaim DEF EndingPcs, StopBody
<1>6. ASSUME NEW h \in Handlers, NEW u \in Uids, Lookup(h, u) PROVE OneEnd'
  <2>1. Goto(h, "found") /\ on' = [on EXCEPT ![h] = u] /\ archives' = archives /\ sessions' = sessions
    BY <1>6 DEF Lookup
  <2>2. \A b \in Actors : b # h => on'[b] = on[b]
    BY <2>1, <1>0 DEF Types, TypeOK
  <2> QED BY <2>1, <2>2, <1>0, OneEndMove
<1>7. ASSUME NEW a \in Creators \cup Handlers, Holding(a) PROVE OneEnd'
  <2>1. CASE Use(a)
    BY <2>1, OneEndKept DEF Use, Ending
  <2>2. CASE ~Use(a)
    <3>1. \E l \in {"holding", "freeing", "done", "idle"} :
            Goto(a, l) /\ on' = on /\ archives' = archives /\ sessions' = sessions
      BY <1>7, <2>2 DEF Holding, AcquireHold, ReleaseHold
    <3> QED BY <3>1, <1>0, OneEndMove
  <2> QED BY <2>1, <2>2
<1>8. ASSUME NEW a \in Actors, Stop(a), ~Archive(a) PROVE OneEnd'
  <2>1. \E l \in Pcs \ {"new"} :
          /\ Goto(a, l) /\ on' = on /\ archives' = archives /\ sessions' = sessions
          /\ l \in EndingPcs => pc[a] \in EndingPcs
    <3>1. {"idle", "done", "freeing"} \cup EndingPcs \subseteq Pcs \ {"new"}
      BY DEF Pcs, EndPcs, StopBody, EndingPcs
    <3>2. pc[a] \in {"stop"} \cup StopBody => AfterStop(a) \in {"unhold", "done", "archive"}
      BY StopPlaces DEF Types, Located
    <3>3. "unhold" \in Pcs \ {"new"} /\ "unhold" \notin EndingPcs
      BY DEF Pcs, CreatorPcs, EndingPcs, StopBody
    <3>4. CASE StopBegins(a) \/ StopExitInfo(a) \/ StopKills(a) \/ StopJoins(a) \/ StopFinishes(a)
      BY <3>1, <3>2, <3>3, <3>4
         DEF StopBegins, StopExitInfo, StopKills, StopJoins, StopFinishes, EndingPcs, StopBody
    <3>5. CASE ReleaseComponents(a) \/ DoRelease(a)
      BY <3>1, <3>5 DEF ReleaseComponents, DoRelease, EndingPcs, StopBody
    <3> QED BY <1>8, <3>4, <3>5 DEF Stop
  <2> QED BY <2>1, OneEndMove
<1>9. ASSUME NEW a \in Actors, Archive(a) PROVE OneEnd'
  <2>1. /\ pc[a] = "archive" /\ Goto(a, "release") /\ on' = on /\ sessions' = sessions
        /\ archives' = [archives EXCEPT ![on[a]] = @ + 1]
    BY <1>9 DEF Archive
  <2>2. a \in Enders /\ on[a] \in Uids
    BY <2>1, PlacesOf, ActorsDiffer DEF Types, Located, Enders, CreatorPcs, HolderPcs, StopBody
  <2>3. PICK u \in Uids : u = on[a]
    BY <2>2
  <2>4. a \in Ending(u)
    BY <2>1, <2>2, <2>3 DEF Ending, EndingPcs
  <2>5. Ending(u) = {a} /\ archives[u] = 0 /\ u \notin sessions /\ pc[Creator(u)] # "new"
    BY <2>4 DEF OneEnd
  <2>6. pc'[a] = "release" /\ \A b \in Actors : b # a => pc'[b] = pc[b]
    BY <2>1 DEF Goto, Types, TypeOK
  <2>7. Enders \subseteq Actors /\ \A v \in Uids : Creator(v) \in Actors /\ Creator(v) # a
    BY <2>2, ActorsDiffer DEF Enders, Clients
  <2>8. Ending(u)' = {} /\ \A v \in Uids : v # u => Ending(v)' \subseteq Ending(v)
    BY <2>1, <2>3, <2>5, <2>6, <2>7 DEF Ending, EndingPcs, StopBody
  <2>9. archives'[u] = 1 /\ \A v \in Uids : v # u => archives'[v] = archives[v]
    BY <2>1, <2>3, <2>5 DEF Types, TypeOK
  <2>10. \A v \in Uids : pc'[Creator(v)] = pc[Creator(v)]
    BY <2>6, <2>7
  <2> QED BY <2>1, <2>5, <2>8, <2>9, <2>10 DEF OneEnd
<1>10. CASE UNCHANGED vars
  BY <1>10, OneEndKept DEF vars, Ending
<1> QED BY <1>1, <1>2, <1>3, <1>4, <1>5, <1>6, <1>7, <1>8, <1>9, <1>10 DEF Next, ReaderThread, Quiescent

\* Ends are alone always.
LEMMA OneEndAlways == Spec => []OneEnd
<1>1. Init => OneEnd
  <2> SUFFICES ASSUME Init PROVE OneEnd
    OBVIOUS
  <2>1. \A u \in Uids : Ending(u) = {}
    BY ActorsDiffer DEF Init, Ending, Enders, EndingPcs, StopBody, Clients
  <2> QED BY <2>1 DEF Init, OneEnd
<1>2. Types /\ OneEnd /\ [Next]_vars => OneEnd'
  <2> SUFFICES ASSUME Types, OneEnd, [Next]_vars PROVE OneEnd'
    OBVIOUS
  <2>1. CASE UNCHANGED vars
    BY <2>1, OneEndKept DEF vars, Ending, registryVars
  <2> QED BY <2>1, OneEndCreation, OneEndOthers
<1> QED BY <1>1, <1>2, TypesKept, PTL DEF Spec

\* A session ends once: whoever finds the end out first, the others leave it alone, and it
\* is archived once at most and only when it is registered no more.
THEOREM ArchivedAtMostOnce == Spec => []ArchivedOnce
<1>1. OneEnd => ArchivedOnce
  BY DEF OneEnd, ArchivedOnce
<1> QED BY <1>1, OneEndAlways, PTL
-----------------------------------------------------------------------------
(* No child without somebody who minds it.                                 *)
StopPcs == {"stop"} \cup StopBody
Early == {"new", "registered", "hooked", "preheld", "opened"}

\* Who is stopping the session.
Stopping(u) == {a \in Actors : on[a] = u /\ pc[a] \in StopPcs}

\* A running child is registered or being stopped; a stop that has begun has cleared the
\* flag; nobody touches a session that is being created.
Tended ==
  /\ \A u \in Uids :
       /\ running[u] /\ child[u] = "alive" => u \in sessions \/ Stopping(u) # {}
       /\ stopStarted[u] => ~running[u]
       /\ pc[Creator(u)] = "opened" => ~stopStarted[u]
       /\ pc[Creator(u)] \in Early =>
            /\ ~running[u] /\ Stopping(u) = {} /\ pc[Reader(u)] = "idle"
            /\ pc[Creator(u)] # "new" => u \in sessions
  /\ \A a \in Actors : pc[a] \in StopBody => stopStarted[on[a]]

\* One thread moves; it begins no stop, and leaves one only when the session runs no more.
LEMMA TendedMove ==
  ASSUME Types, Tended, NEW a \in Actors, NEW l, Goto(a, l),
         \A b \in Actors : b # a => on'[b] = on[b],
         sessions' = sessions, stopStarted' = stopStarted,
         \A u \in Uids : (running'[u] => running[u]) /\ (child'[u] = "alive" => child[u] = "alive"),
         l \in Early => pc[a] \in Early \ {"new"} /\ l # "new" /\ l # "opened",
         l \in StopPcs \/ pc[a] \in StopPcs => on'[a] = on[a],
         l \in StopPcs => pc[a] \in StopPcs /\ l \in StopBody /\ pc[a] \in StopBody,
         pc[a] \in StopPcs /\ l \notin StopPcs => ~running[on[a]],
         a \in Readers => pc[a] # "idle"
  PROVE  Tended'
<1>1. pc'[a] = l /\ \A b \in Actors : b # a => pc'[b] = pc[b]
  BY DEF Goto, Types, TypeOK
<1>2. /\ \A u \in Uids : Creator(u) \in Actors /\ Reader(u) \in Actors /\ Reader(u) \in Readers
      /\ \A u \in Uids : on[Reader(u)] = u
  BY ActorsDiffer DEF Types, Located
<1>3. \A u \in Uids : Stopping(u)' \subseteq Stopping(u)
  BY <1>1 DEF Stopping
<1>4. \A u \in Uids : running[u] /\ Stopping(u) # {} => Stopping(u)' # {}
  <2> SUFFICES ASSUME NEW u \in Uids, running[u], NEW b \in Stopping(u) PROVE b \in Stopping(u)'
    OBVIOUS
  <2> QED BY <1>1 DEF Stopping
<1>5. \A u \in Uids : pc'[Creator(u)] \in Early =>
        /\ pc[Creator(u)] \in Early /\ (pc'[Creator(u)] # "new" => pc[Creator(u)] # "new")
        /\ pc'[Creator(u)] = "opened" => pc[Creator(u)] = "opened"
  BY <1>1, <1>2 DEF Early
<1>6. \A u \in Uids : /\ pc'[Creator(u)] = "opened" => ~stopStarted'[u]
                      /\ pc'[Creator(u)] = "opened" => pc[Creator(u)] = "opened"
  BY <1>5 DEF Tended, Early
<1>7. \A u \in Uids : pc[Reader(u)] = "idle" => pc'[Reader(u)] = "idle"
  BY <1>1, <1>2
<1>8. \A b \in Actors : pc'[b] \in StopBody => stopStarted'[on'[b]]
  BY <1>1 DEF Tended, StopPcs
<1>9. ASSUME NEW u \in Uids
      PROVE  /\ running'[u] /\ child'[u] = "alive" => u \in sessions' \/ Stopping(u)' # {}
             /\ stopStarted'[u] => ~running'[u]
             /\ pc'[Creator(u)] \in Early =>
                  /\ ~running'[u] /\ Stopping(u)' = {} /\ pc'[Reader(u)] = "idle"
                  /\ pc'[Creator(u)] # "new" => u \in sessions'
  BY <1>3, <1>4, <1>5, <1>7 DEF Tended
<1> QED BY <1>6, <1>8, <1>9 DEF Tended

\* Somebody begins to stop a session, which he may have taken out of the registry.
LEMMA TendedClaim ==
  ASSUME Types, Tended, NEW a \in Actors, NEW u \in Uids, Goto(a, "stop"), on'[a] = u,
         pc[a] \notin StopPcs, \A b \in Actors : b # a => on'[b] = on[b],
         UNCHANGED <<running, child, stopStarted>>,
         \A v \in Uids : v # u => (v \in sessions' <=> v \in sessions),
         pc[Creator(u)] \notin Early, a \in Readers => a = Reader(u)
  PROVE  Tended'
<1>1. pc'[a] = "stop" /\ \A b \in Actors : b # a => pc'[b] = pc[b]
  BY DEF Goto, Types, TypeOK
<1>2. \A v \in Uids : /\ Creator(v) \in Actors /\ Reader(v) \in Actors /\ Reader(v) \in Readers
                      /\ Reader(v) = Reader(u) => v = u
  BY ActorsDiffer
<1>3. a \in Stopping(u)'
  BY <1>1 DEF Stopping, StopPcs
<1>4. \A v \in Uids : v # u => Stopping(v)' = Stopping(v)
  BY <1>1 DEF Stopping
<1>5. \A v \in Uids : pc'[Creator(v)] \in Early => pc'[Creator(v)] = pc[Creator(v)] /\ v # u
  BY <1>1, <1>2 DEF Early
<1>6. \A v \in Uids : v # u => pc'[Reader(v)] = pc[Reader(v)]
  BY <1>1, <1>2
<1>7. \A b \in Actors : pc'[b] \in StopBody => stopStarted'[on'[b]]
  BY <1>1 DEF Tended, StopBody
<1>8. ASSUME NEW v \in Uids
      PROVE  /\ running'[v] /\ child'[v] = "alive" => v \in sessions' \/ Stopping(v)' # {}
             /\ stopStarted'[v] => ~running'[v]
             /\ pc'[Creator(v)] = "opened" => ~stopStarted'[v]
             /\ pc'[Creator(v)] \in Early =>
                  /\ ~running'[v] /\ Stopping(v)' = {} /\ pc'[Reader(v)] = "idle"
                  /\ pc'[Creator(v)] # "new" => v \in sessions'
  BY <1>3, <1>4, <1>5, <1>6 DEF Tended, Early
<1> QED BY <1>7, <1>8 DEF Tended

\* Creation: nobody else is at the session yet, unless kills are let in.
LEMMA TendedCreation ==
  ASSUME Types, Tended, NEW u \in Uids, Creation(u)
  PROVE  Tended'
<1> DEFINE c == Creator(u)
<1>0. /\ c \in Actors /\ c \notin Readers /\ on[c] = u
      /\ Reader(u) \in Actors /\ Reader(u) \in Readers /\ Reader(u) # c /\ on[Reader(u)] = u
      /\ \A v \in Uids : /\ Creator(v) \in Actors /\ (v # u => Creator(v) # c) /\ Creator(v) # Reader(u)
                         /\ Reader(v) \in Actors /\ Reader(v) # c
                         /\ (v # u => Reader(v) # Reader(u))
  BY ActorsDiffer DEF Types, Located
<1> HIDE DEF c
<1> USE DEF registryVars, procVars, flagVars, holdVars
<1>1. CASE Register(u)
  <2>1. /\ pc[c] = "new" /\ Goto(c, "registered") /\ sessions' = sessions \cup {u}
        /\ UNCHANGED <<on, child, running, stopStarted>>
    BY <1>1 DEF Register, c
  <2>2. pc'[c] = "registered" /\ \A b \in Actors : b # c => pc'[b] = pc[b]
    BY <2>1, <1>0 DEF Goto, Types, TypeOK
  <2>3. \A v \in Uids : Stopping(v)' = Stopping(v)
    BY <2>1, <2>2 DEF Stopping, StopPcs, StopBody
  <2>4. \A b \in Actors : pc'[b] \in StopBody => stopStarted'[on'[b]]
    BY <2>1, <2>2 DEF Tended, StopBody
  <2>5. ASSUME NEW v \in Uids
        PROVE  /\ running'[v] /\ child'[v] = "alive" => v \in sessions' \/ Stopping(v)' # {}
               /\ stopStarted'[v] => ~running'[v]
               /\ pc'[Creator(v)] = "opened" => ~stopStarted'[v]
               /\ pc'[Creator(v)] \in Early =>
                    /\ ~running'[v] /\ Stopping(v)' = {} /\ pc'[Reader(v)] = "idle"
                    /\ pc'[Creator(v)] # "new" => v \in sessions'
    BY <2>1, <2>2, <2>3, <1>0 DEF Tended, Early, c
  <2> QED BY <2>4, <2>5 DEF Tended
<1>2. CASE OpenPty(u)
  <2>1. PICK l \in {"opened", "failed"} : Goto(c, l)
    BY <1>2 DEF OpenPty, c
  <2>2. /\ pc[c] = "preheld" /\ sessions' = sessions /\ on' = on
        /\ stopStarted' = [stopStarted EXCEPT ![u] = FALSE]
        /\ running' = running \/ running' = [running EXCEPT ![u] = FALSE]
        /\ child' = child \/ child' = [child EXCEPT ![u] = "alive"]
    BY <1>2 DEF OpenPty, c
  <2>3. /\ pc'[c] = l /\ \A b \in Actors : b # c => pc'[b] = pc[b]
        /\ ~running[u] /\ Stopping(u) = {} /\ pc[Reader(u)] = "idle" /\ u \in sessions
    BY <2>1, <2>2, <1>0 DEF Goto, Types, TypeOK, Tended, Early, c
  <2>4. /\ ~running'[u] /\ ~stopStarted'[u]
        /\ \A v \in Uids : v # u => /\ running'[v] = running[v] /\ stopStarted'[v] = stopStarted[v]
                                    /\ child'[v] = child[v]
    BY <2>2, <2>3 DEF Types, TypeOK
  <2>5. \A v \in Uids : Stopping(v)' = Stopping(v)
    BY <2>1, <2>2, <2>3 DEF Stopping, StopPcs, StopBody
  <2>6. ASSUME NEW b \in Actors, pc'[b] \in StopBody PROVE stopStarted'[on'[b]]
    <3>1. b # c /\ pc[b] \in StopBody /\ stopStarted[on[b]]
      BY <2>1, <2>3, <2>6 DEF Tended, StopBody
    <3>2. on[b] \in Uids
      BY <3>1 DEF Types, Located, StopBody
    <3>3. on[b] # u
      BY <2>3, <3>1 DEF Stopping, StopPcs
    <3> QED BY <2>2, <2>4, <3>1, <3>2, <3>3
  <2>7. ASSUME NEW v \in Uids
        PROVE  /\ running'[v] /\ child'[v] = "alive" => v \in sessions' \/ Stopping(v)' # {}
               /\ stopStarted'[v] => ~running'[v]
               /\ pc'[Creator(v)] = "opened" => ~stopStarted'[v]
               /\ pc'[Creator(v)] \in Early =>
                    /\ ~running'[v] /\ Stopping(v)' = {} /\ pc'[Reader(v)] = "idle"
                    /\ pc'[Creator(v)] # "new" => v \in sessions'
    <3>1. CASE v = u
      BY <3>1, <2>2, <2>3, <2>4, <2>5, <1>0
    <3>2. CASE v # u
      BY <3>2, <2>2, <2>3, <2>4, <2>5, <1>0 DEF Tended, c
    <3> QED BY <3>1, <3>2
  <2> QED BY <2>6, <2>7 DEF Tended
<1>3. CASE Launch(u) /\ ~released[u]
  <2>1. /\ pc[c] = "opened" /\ running' = [running EXCEPT ![u] = TRUE]
        /\ pc' = [pc EXCEPT ![c] = "returned", ![Reader(u)] = "loop"]
        /\ UNCHANGED <<on, child, sessions, stopStarted>>
    BY <1>3 DEF Launch, c
  <2>2. /\ pc'[c] = "returned" /\ pc'[Reader(u)] = "loop"
        /\ \A b \in Actors : b # c /\ b # Reader(u) => pc'[b] = pc[b]
    BY <2>1, <1>0 DEF Types, TypeOK
  <2>3. /\ ~stopStarted[u] /\ u \in sessions /\ pc[Reader(u)] = "idle"
    BY <2>1 DEF Tended, Early, c
  <2>4. \A v \in Uids : v # u => running'[v] = running[v]
    BY <2>1 DEF Types, TypeOK
  <2>5. \A v \in Uids : Stopping(v)' = Stopping(v)
    BY <2>1, <2>2, <2>3, <1>0 DEF Stopping, StopPcs, StopBody
  <2>6. \A b \in Actors : pc'[b] \in StopBody => stopStarted'[on'[b]]
    BY <2>1, <2>2, <1>0 DEF Tended, StopBody
  <2>7. ASSUME NEW v \in Uids
        PROVE  /\ running'[v] /\ child'[v] = "alive" => v \in sessions' \/ Stopping(v)' # {}
               /\ stopStarted'[v] => ~running'[v]
               /\ pc'[Creator(v)] = "opened" => ~stopStarted'[v]
               /\ pc'[Creator(v)] \in Early =>
                    /\ ~running'[v] /\ Stopping(v)' = {} /\ pc'[Reader(v)] = "idle"
                    /\ pc'[Creator(v)] # "new" => v \in sessions'
    <3>1. CASE v = u
      BY <3>1, <2>1, <2>2, <2>3, <1>0 DEF Early, c
    <3>2. CASE v # u
      BY <3>2, <2>1, <2>2, <2>4, <2>5, <1>0 DEF Tended, c
    <3> QED BY <3>1, <3>2
  <2> QED BY <2>6, <2>7 DEF Tended
<1>4. CASE CreateFailed(u)
  <2>1. /\ pc[c] = "failed" /\ Goto(c, "stop") /\ sessions' = sessions \ {u} /\ on' = on
        /\ UNCHANGED <<running, child, stopStarted>>
    BY <1>4 DEF CreateFailed, Unregister, c
  <2> QED BY <2>1, <1>0, TendedClaim DEF Early, StopPcs, StopBody, c
<1>5. CASE AddEndCallback(u) \/ PreHold(u) \/ (Launch(u) /\ released[u]) \/ ReleaseCreationHold(u) \/ SkipHold(u)
  <2>1. \E l \in {"done", "hooked", "preheld", "failed", "freeing"} :
          /\ Goto(c, l) /\ UNCHANGED <<on, sessions, stopStarted, running, child>>
          /\ pc[c] \notin StopPcs /\ (l \in Early => pc[c] \in {"registered", "hooked"})
    BY <1>5 DEF AddEndCallback, PreHold, Launch, ReleaseCreationHold, SkipHold, Early, StopPcs, StopBody, c
  <2>2. {"done", "hooked", "preheld", "failed", "freeing"} \cap StopPcs = {}
    BY DEF StopPcs, StopBody
  <2> QED BY <2>1, <2>2, <1>0, TendedMove DEF Early
<1> QED BY <1>1, <1>2, <1>3, <1>4, <1>5 DEF Creation

\* The reader, the stopper and the clients, when no kill comes before creation is over.
LEMMA TendedOthers ==
  ASSUME Types, Tended, ~KillDuringCreate, Next, ~ \E u \in Uids : Creation(u)
  PROVE  Tended'
<1>0. /\ \A u \in Uids : /\ Reader(u) \in Actors /\ Reader(u) \in Readers /\ on[Reader(u)] = u
                         /\ Stopper(u) \in Actors /\ Stopper(u) \notin Readers /\ on[Stopper(u)] = u
      /\ \A h \in Handlers : h \in Actors /\ h \notin Readers
      /\ \A k \in Killers : k \in Actors /\ k \notin Readers
      /\ \A c \in Creators : c \in Actors /\ c \notin Readers
  BY ActorsDiffer DEF Clients, Types, Located
<1> USE DEF registryVars, procVars, flagVars, holdVars
<1>1. ASSUME NEW u \in Uids, ChildExits(u) PROVE Tended'
  <2>1. /\ child[u] = "alive" /\ child' = [child EXCEPT ![u] = "dead"]
        /\ UNCHANGED <<pc, on, sessions, running, stopStarted>>
    BY <1>1 DEF ChildExits
  <2>2. \A v \in Uids : child'[v] = "alive" => child[v] = "alive"
    BY <2>1 DEF Types, TypeOK
  <2> QED BY <2>1, <2>2 DEF Tended, Stopping
<1>2. ASSUME NEW u \in Uids, ReaderLeaves(u) \/ ReaderSeesStop(u) \/ ReaderExit(u) PROVE Tended'
  <2>1. \E l \in {"exiting", "done", "claim"} :
          /\ Goto(Reader(u), l) /\ pc[Reader(u)] \in {"loop", "exiting"}
          /\ UNCHANGED <<on, sessions, stopStarted, child>>
          /\ running' = running \/ running' = [running EXCEPT ![u] = FALSE]
    BY <1>2 DEF ReaderLeaves, ReaderSeesStop, ReaderExit
  <2>2. \A v \in Uids : running'[v] => running[v]
    BY <2>1 DEF Types, TypeOK
  <2> QED BY <2>1, <2>2, <1>0, TendedMove DEF Early, StopPcs, StopBody
<1>3. ASSUME NEW u \in Uids, ReaderClaims(u) PROVE Tended'
  <2>1. CASE u \in sessions
    <3>1. /\ pc[Reader(u)] = "claim" /\ Goto(Reader(u), "stop") /\ sessions' = sessions \ {u}
          /\ UNCHANGED <<on, running, child, stopStarted>>
      BY <1>3, <2>1 DEF ReaderClaims, Unregister
    <3>2. pc[Creator(u)] \notin Early
      BY <3>1 DEF Tended
    <3> QED BY <3>1, <3>2, <1>0, TendedClaim DEF StopPcs, StopBody
  <2>2. CASE u \notin sessions
    <3>1. /\ pc[Reader(u)] = "claim" /\ Goto(Reader(u), "done")
          /\ UNCHANGED <<on, sessions, running, child, stopStarted>>
      BY <1>3, <2>2 DEF ReaderClaims
    <3> QED BY <3>1, <1>0, TendedMove DEF Early, StopPcs, StopBody
  <2> QED BY <2>1, <2>2
<1>4. ASSUME NEW u \in Uids, SpawnStopper(u) PROVE Tended'
  <2>1. /\ running[u] /\ pc[Stopper(u)] = "idle" /\ Goto(Stopper(u), "stop")
        /\ UNCHANGED <<on, sessions, running, child, stopStarted>>
    BY <1>4 DEF SpawnStopper
  <2>2. pc[Creator(u)] \notin Early
    BY <2>1 DEF Tended
  <2> QED BY <2>1, <2>2, <1>0, TendedClaim DEF StopPcs, StopBody
<1>5. ASSUME NEW k \in Killers, NEW u \in Uids, KillerClaims(k, u) PROVE Tended'
  <2>1. /\ pc[k] = "idle" /\ Goto(k, "stop") /\ sessions' = sessions \ {u}
        /\ on' = [on EXCEPT ![k] = u] /\ UNCHANGED <<running, child, stopStarted>>
        /\ pc[Creator(u)] \notin Early
    BY <1>5 DEF KillerClaims, Unregister, Early
  <2>2. on'[k] = u /\ \A b \in Actors : b # k => on'[b] = on[b]
    BY <2>1, <1>0 DEF Types, TypeOK
  <2> QED BY <2>1, <2>2, <1>0, TendedClaim DEF StopPcs, StopBody
<1>6. ASSUME NEW h \in Handlers, NEW u \in Uids, Lookup(h, u) PROVE Tended'
  <2>1. /\ pc[h] = "idle" /\ Goto(h, "found") /\ on' = [on EXCEPT ![h] = u]
        /\ UNCHANGED <<sessions, running, child, stopStarted>>
    BY <1>6 DEF Lookup
  <2>2. \A b \in Actors : b # h => on'[b] = on[b]
    BY <2>1, <1>0 DEF Types, TypeOK
  <2> QED BY <2>1, <2>2, <1>0, TendedMove DEF Early, StopPcs, StopBody
<1>7. ASSUME NEW a \in Creators \cup Handlers, Holding(a) PROVE Tended'
  <2>1. CASE Use(a)
    <3>1. UNCHANGED <<pc, on, sessions, running, child, stopStarted>>
      BY <2>1 DEF Use
    <3> QED BY <3>1 DEF Tended, Stopping
  <2>2. CASE AcquireHold(a) \/ ReleaseHold(a)
    <3>1. \E l \in {"holding", "freeing", "done", "idle"} :
            /\ Goto(a, l) /\ pc[a] \in {"returned", "found", "holding"}
            /\ UNCHANGED <<on, sessions, running, child, stopStarted>>
      BY <2>2 DEF AcquireHold, ReleaseHold
    <3> QED BY <3>1, <1>0, TendedMove DEF Early, StopPcs, StopBody
  <2> QED BY <1>7, <2>1, <2>2 DEF Holding
<1>8. ASSUME NEW a \in Actors, Stop(a) PROVE Tended'
  <2>0. pc[a] \in StopPcs => AfterStop(a) \in {"unhold", "done", "archive"}
    BY StopPlaces DEF Types, Located, StopPcs
  <2>1. CASE pc[a] = "stop" /\ ~stopStarted[on[a]]
    <3>1. PICK l \in {"exitinfo", "unhold", "done", "archive"} : Goto(a, l)
      BY <1>8, <2>0, <2>1 DEF Stop, StopBegins, StopExitInfo, StopKills, StopJoins, StopFinishes,
           Archive, ReleaseComponents, DoRelease, StopPcs
    <3>2. /\ stopStarted' = [stopStarted EXCEPT ![on[a]] = TRUE]
          /\ running' = [running EXCEPT ![on[a]] = FALSE]
          /\ UNCHANGED <<on, sessions, child>>
      BY <1>8, <2>1 DEF Stop, StopBegins, StopExitInfo, StopKills, StopJoins, StopFinishes,
           Archive, ReleaseComponents, DoRelease
    <3>3. on[a] \in Uids
      BY <2>1 DEF Types, Located
    <3>4. PICK u \in Uids : u = on[a]
      BY <3>3
    <3>5. pc'[a] = l /\ \A b \in Actors : b # a => pc'[b] = pc[b]
      BY <3>1 DEF Goto, Types, TypeOK
    <3>6. /\ stopStarted'[u] /\ ~running'[u]
          /\ \A v \in Uids : v # u => stopStarted'[v] = stopStarted[v] /\ running'[v] = running[v]
      BY <3>2, <3>4 DEF Types, TypeOK
    <3>7. \A v \in Uids : v # u => Stopping(v)' = Stopping(v)
      BY <3>2, <3>4, <3>5 DEF Stopping
    <3>8. a \in Stopping(u) /\ pc[Creator(u)] \notin Early
      BY <2>1, <3>4 DEF Tended, Stopping, StopPcs
    <3>9. \A v \in Uids : pc'[Creator(v)] \in Early => pc'[Creator(v)] = pc[Creator(v)] /\ v # u
      BY <3>5, <3>8, ActorsDiffer DEF Early
    <3>10. \A v \in Uids : pc[Reader(v)] = "idle" => pc'[Reader(v)] = "idle"
      BY <2>1, <3>5, <1>0
    <3>11. ASSUME NEW b \in Actors, pc'[b] \in StopBody PROVE stopStarted'[on'[b]]
      <4>1. CASE on[b] = u
        BY <4>1, <3>2, <3>6
      <4>2. CASE on[b] # u
        <5>1. b # a /\ pc[b] \in StopBody /\ on[b] \in Uids
          BY <4>2, <3>4, <3>5, <3>11 DEF Types, Located, StopBody
        <5> QED BY <5>1, <4>2, <3>2, <3>6 DEF Tended
      <4> QED BY <4>1, <4>2
    <3>12. ASSUME NEW v \in Uids
           PROVE  /\ running'[v] /\ child'[v] = "alive" => v \in sessions' \/ Stopping(v)' # {}
                  /\ stopStarted'[v] => ~running'[v]
                  /\ pc'[Creator(v)] = "opened" => ~stopStarted'[v]
                  /\ pc'[Creator(v)] \in Early =>
                       /\ ~running'[v] /\ Stopping(v)' = {} /\ pc'[Reader(v)] = "idle"
                       /\ pc'[Creator(v)] # "new" => v \in sessions'
      BY <3>2, <3>6, <3>7, <3>9, <3>10 DEF Tended, Early
    <3> QED BY <3>11, <3>12 DEF Tended
  <2>2. CASE pc[a] \in StopPcs /\ ~(pc[a] = "stop" /\ ~stopStarted[on[a]])
    <3>1. on[a] \in Uids /\ stopStarted[on[a]] /\ ~running[on[a]]
      BY <2>2 DEF Types, Located, Tended, StopPcs, StopBody
    <3>2. \E l \in StopBody \cup {"unhold", "done", "archive"} :
            /\ Goto(a, l) /\ (l \in StopBody => pc[a] \in StopBody)
            /\ UNCHANGED <<on, sessions, running, stopStarted>>
            /\ child' = child \/ child' = [child EXCEPT ![on[a]] = IF @ = "alive" THEN "dead" ELSE @]
      BY <1>8, <2>0, <2>2 DEF Stop, StopBegins, StopExitInfo, StopKills, StopJoins, StopFinishes, Archive,
           ReleaseComponents, DoRelease, StopPcs, StopBody
    <3>3. \A v \in Uids : child'[v] = "alive" => child[v] = "alive"
      BY <3>1, <3>2 DEF Types, TypeOK
    <3> QED BY <2>2, <3>1, <3>2, <3>3, TendedMove DEF Early, StopPcs, StopBody
  <2>3. CASE pc[a] \notin StopPcs
    <3>1. \E l \in {"release", "idle", "done", "freeing"} :
            /\ Goto(a, l) /\ pc[a] \in {"archive", "release", "freeing"}
            /\ UNCHANGED <<on, sessions, running, child, stopStarted>>
      BY <1>8, <2>3 DEF Stop, StopBegins, StopExitInfo, StopKills, StopJoins, StopFinishes, Archive,
           ReleaseComponents, DoRelease, StopPcs, StopBody
    <3> QED BY <3>1, TendedMove DEF Early, StopPcs, StopBody
  <2> QED BY <2>1, <2>2, <2>3
<1>9. CASE UNCHANGED vars
  BY <1>9 DEF vars, Tended, Stopping
<1> QED BY <1>1, <1>2, <1>3, <1>4, <1>5, <1>6, <1>7, <1>8, <1>9 DEF Next, ReaderThread, Quiescent

\* Where no kill can come before a creation has returned, sessions are tended always.
LEMMA TendedAlways == ~KillDuringCreate /\ Spec => []Tended
<1> SUFFICES ASSUME ~KillDuringCreate PROVE Spec => []Tended
  OBVIOUS
<1>1. Init => Tended
  <2> SUFFICES ASSUME Init PROVE Tended
    OBVIOUS
  <2>1. \A a \in Actors : pc[a] \in {"new", "idle"}
    BY DEF Init
  <2>2. \A u \in Uids : Reader(u) \in Actors /\ pc[Reader(u)] = "idle"
    BY ActorsDiffer DEF Init
  <2>3. \A u \in Uids : Creator(u) \in Actors /\ pc[Creator(u)] = "new"
    BY ActorsDiffer DEF Init
  <2>4. \A u \in Uids : ~running[u] /\ ~stopStarted[u]
    BY DEF Init
  <2>5. \A u \in Uids : Stopping(u) = {}
    BY <2>1 DEF Stopping, StopPcs, StopBody
  <2> QED BY <2>1, <2>2, <2>3, <2>4, <2>5 DEF Tended, StopBody
<1>2. Types /\ Tended /\ [Next]_vars => Tended'
  <2> SUFFICES ASSUME Types, Tended, [Next]_vars PROVE Tended'
    OBVIOUS
  <2>1. CASE UNCHANGED vars
    BY <2>1 DEF vars, Tended, Stopping, registryVars, procVars, flagVars
  <2> QED BY <2>1, TendedCreation, TendedOthers
<1> QED BY <1>1, <1>2, TypesKept, PTL DEF Spec

\* Where no kill can come before a creation has returned, no child is left without a
\* session that clients can name or a thread that is stopping it.
THEOREM NoneOrphaned == ~KillDuringCreate /\ Spec => []NoOrphan
<1>1. Tended => NoOrphan
  BY DEF Tended, NoOrphan, Stopping, StopPcs
<1> QED BY <1>1, TendedAlways, PTL
-----------------------------------------------------------------------------
(* Holders that came in time.                                              *)

\* Who is about to take the components of the session away.
Freeing(u) == {a \in Actors : on[a] = u /\ pc[a] = "freeing"}

\* A holder that came in time holds a session that is whole and stays so.
InTime == \A a \in inTime : pc[a] = "holding" /\ ~released[on[a]] /\ Freeing(on[a]) = {}

\* A thread that is no holder moves, and frees no session that somebody holds in time.
LEMMA InTimeMove ==
  ASSUME Types, InTime, NEW a \in Actors, NEW l, Goto(a, l), inTime' \subseteq inTime \ {a},
         \A b \in Actors : b # a => on'[b] = on[b],
         \A u \in Uids : released'[u] => released[u] \/ Freeing(u) # {},
         l = "freeing" => \A b \in inTime' : on[b] # on'[a]
  PROVE  InTime'
<1>1. pc'[a] = l /\ \A b \in Actors : b # a => pc'[b] = pc[b]
  BY DEF Goto, Types, TypeOK
<1>2. ASSUME NEW b \in inTime'
      PROVE  pc'[b] = "holding" /\ ~released'[on'[b]] /\ Freeing(on[b])' = {} /\ on'[b] = on[b]
  <2>1. b \in inTime /\ b # a /\ b \in Actors /\ on[b] \in Uids
    BY DEF Types, TypeOK, Located, InTime
  <2>2. Freeing(on[b]) = {} /\ ~released[on[b]] /\ pc[b] = "holding"
    BY <2>1 DEF InTime
  <2>3. \A d \in Actors : ~(on'[d] = on[b] /\ pc'[d] = "freeing")
    BY <1>1, <2>1, <2>2 DEF Freeing
  <2>4. on'[b] = on[b]
    BY <2>1
  <2> QED BY <1>1, <2>1, <2>2, <2>3, <2>4 DEF Freeing
<1> QED BY <1>2 DEF InTime

\* Who holds in time is counted.
LEMMA InTimeCounted ==
  ASSUME Types, Counted, InTime, NEW b \in inTime
  PROVE  /\ b \in Holders(on[b]) /\ on[b] \in Uids /\ holdCount[on[b]] > 0
         /\ creationHold[on[b]] => holdCount[on[b]] > 1
         /\ \A a \in Holders(on[b]) : a # b => holdCount[on[b]] > 1
<1>1. b \in Holders(on[b]) /\ on[b] \in Uids
  BY DEF InTime, Types, TypeOK, Located, Holders
<1>2. PICK u \in Uids : u = on[b]
  BY <1>1
<1>3. Cardinality(Holders(u)) \in Nat /\ Cardinality(Holders(u)) > 0 /\ IsFiniteSet(Holders(u))
  BY <1>1, <1>2, CountPositive DEF Counted
<1>4. holdCount[u] = Cardinality(Holders(u)) + (IF creationHold[u] THEN 1 ELSE 0)
  BY DEF Counted
<1>5. ASSUME NEW a \in Holders(u), a # b PROVE Cardinality(Holders(u)) > 1
  <2>1. /\ IsFiniteSet(Holders(u) \ {a})
        /\ Cardinality(Holders(u) \ {a}) = Cardinality(Holders(u)) - 1
    BY <1>3, FS_RemoveElement
  <2>2. Cardinality(Holders(u) \ {a}) # 0 /\ Cardinality(Holders(u) \ {a}) \in Nat
    BY <1>1, <1>2, <1>5, <2>1, FS_EmptySet, FS_CardinalityType
  <2> QED BY <1>3, <2>1, <2>2
<1>6. holdCount[u] > 0 /\ (creationHold[u] => holdCount[u] > 1)
  BY <1>3, <1>4
<1>7. \A a \in Holders(u) : a # b => holdCount[u] > 1
  BY <1>3, <1>4, <1>5
<1> QED BY <1>1, <1>2, <1>6, <1>7

\* Holders in time keep their session through every step.
LEMMA InTimeKept ==
  ASSUME Types, Counted, InTime, Next
  PROVE  InTime'
<1>0. /\ \A u \in Uids : /\ Creator(u) \in Actors /\ Reader(u) \in Actors /\ Stopper(u) \in Actors
                         /\ on[Creator(u)] = u /\ on[Reader(u)] = u /\ on[Stopper(u)] = u
                         /\ Creator(u) # Reader(u)
      /\ \A a \in Killers \cup Handlers \cup Creators : a \in Actors
  BY ActorsDiffer DEF Types, Located
<1>a. \A a \in Actors : pc[a] # "holding" => inTime \subseteq inTime \ {a}
  BY DEF InTime
<1> USE DEF holdVars
<1>1. ASSUME NEW u \in Uids, Creation(u) PROVE InTime'
  <2> DEFINE c == Creator(u)
  <2>1. CASE ReleaseCreationHold(u)
    <3>1. /\ pc[c] = "unhold" /\ UNCHANGED <<on, released, inTime>>
      BY <2>1 DEF ReleaseCreationHold
    <3>2. \/ Goto(c, "done")
          \/ Goto(c, "freeing") /\ holdCount[u] = 1 /\ creationHold[u]
      BY <2>1 DEF ReleaseCreationHold
    <3>3. holdCount[u] = 1 /\ creationHold[u] => \A b \in inTime : on[b] # u
      BY InTimeCounted
    <3> HIDE DEF c
    <3>4. c \in Actors /\ on'[c] = u
      BY <1>0, <3>1 DEF c
    <3>5. CASE Goto(c, "done")
      BY <3>1, <3>4, <3>5, <1>a, InTimeMove
    <3>6. CASE Goto(c, "freeing") /\ holdCount[u] = 1 /\ creationHold[u]
      BY <3>1, <3>3, <3>4, <3>6, <1>a, InTimeMove
    <3> QED BY <3>2, <3>5, <3>6
  <2>2. CASE Launch(u) /\ ~released[u]
    <3>1. /\ pc[c] = "opened" /\ UNCHANGED <<on, released, inTime>>
          /\ pc' = [pc EXCEPT ![c] = "returned", ![Reader(u)] = "loop"]
      BY <2>2 DEF Launch
    <3>2. pc[Reader(u)] # "holding" /\ Reader(u) \notin Creators
      BY ActorsDiffer, PlacesOf DEF Types, Located, StopBody
    <3> HIDE DEF c
    <3>3. \A b \in Actors : /\ pc[b] = "holding" => pc'[b] = "holding"
                            /\ pc'[b] = "freeing" => pc[b] = "freeing"
      BY <1>0, <3>1, <3>2 DEF Types, TypeOK, c
    <3>4. \A b \in inTime : b \in Actors
      BY DEF Types, TypeOK
    <3> QED BY <3>1, <3>3, <3>4 DEF InTime, Freeing
  <2>3. CASE ~ReleaseCreationHold(u) /\ ~(Launch(u) /\ ~released[u])
    <3>1. \E l \in {"registered", "done", "hooked", "preheld", "opened", "failed", "stop"} :
            Goto(c, l) /\ pc[c] # "holding" /\ UNCHANGED <<on, released, inTime>>
      BY <1>1, <2>3 DEF Creation, Register, AddEndCallback, PreHold, OpenPty, Launch, CreateFailed, SkipHold
    <3> HIDE DEF c
    <3> QED BY <3>1, <1>0, <1>a, InTimeMove DEF c
  <2> QED BY <2>1, <2>2, <2>3
<1>2. ASSUME NEW u \in Uids, ChildExits(u) PROVE InTime'
  BY <1>2 DEF ChildExits, InTime, Freeing
<1>3. ASSUME NEW u \in Uids, ReaderThread(u) \/ ReaderSeesStop(u) PROVE InTime'
  <2>1. \E l \in {"exiting", "done", "claim", "stop"} :
          Goto(Reader(u), l) /\ pc[Reader(u)] # "holding" /\ UNCHANGED <<on, released, inTime>>
    BY <1>3 DEF ReaderThread, ReaderLeaves, ReaderExit, ReaderClaims, ReaderSeesStop
  <2> QED BY <2>1, <1>0, <1>a, InTimeMove
<1>4. ASSUME NEW u \in Uids, SpawnStopper(u) PROVE InTime'
  <2>1. Goto(Stopper(u), "stop") /\ pc[Stopper(u)] # "holding" /\ UNCHANGED <<on, released, inTime>>
    BY <1>4 DEF SpawnStopper
  <2> QED BY <2>1, <1>0, <1>a, InTimeMove
<1>5. ASSUME NEW a \in Clients, NEW u \in Uids, KillerClaims(a, u) \/ Lookup(a, u) PROVE InTime'
  <2>1. \E l \in {"stop", "found"} : Goto(a, l) /\ pc[a] = "idle" /\ UNCHANGED <<released, inTime>>
    BY <1>5 DEF KillerClaims, Lookup
  <2>2. on' = [on EXCEPT ![a] = u] /\ a \in Actors
    BY <1>5 DEF KillerClaims, Lookup, Actors
  <2>3. \A b \in Actors : b # a => on'[b] = on[b]
    BY <2>2 DEF Types, TypeOK
  <2> QED BY <2>1, <2>2, <2>3, <1>a, InTimeMove
<1>6. ASSUME NEW a \in Creators \cup Handlers, AcquireHold(a) PROVE InTime'
  <2>1. /\ pc[a] \in {"returned", "found"} /\ Goto(a, "holding") /\ UNCHANGED <<on, released>>
        /\ \/ inTime' = inTime
           \/ inTime' = inTime \cup {a} /\ ~released[on[a]] /\ Freeing(on[a]) = {}
    BY <1>6 DEF AcquireHold, Freeing
  <2>2. pc'[a] = "holding" /\ \A b \in Actors : b # a => pc'[b] = pc[b]
    BY <2>1, <1>0 DEF Goto, Types, TypeOK
  <2>3. \A d \in Actors : pc'[d] = "freeing" <=> pc[d] = "freeing"
    BY <2>1, <2>2, <1>0
  <2>4. \A b \in Actors : Freeing(on[b])' = Freeing(on[b])
    BY <2>1, <2>3 DEF Freeing
  <2>5. \A b \in inTime' : pc'[b] = "holding" /\ ~released[on[b]] /\ Freeing(on[b]) = {} /\ b \in Actors
    <3>1. a \in Actors /\ inTime \subseteq Actors
      BY <1>0 DEF Types, TypeOK
    <3>2. \A b \in inTime : pc'[b] = "holding"
      BY <2>2, <3>1 DEF InTime
    <3>3. CASE inTime' = inTime
      BY <3>1, <3>2, <3>3 DEF InTime
    <3>4. CASE inTime' = inTime \cup {a} /\ ~released[on[a]] /\ Freeing(on[a]) = {}
      BY <2>2, <3>1, <3>2, <3>4 DEF InTime
    <3> QED BY <2>1, <3>3, <3>4
  <2> QED BY <2>1, <2>4, <2>5 DEF InTime
<1>7. ASSUME NEW a \in Creators \cup Handlers, Use(a) PROVE InTime'
  BY <1>7 DEF Use, InTime, Freeing
<1>8. ASSUME NEW a \in Creators \cup Handlers, ReleaseHold(a) PROVE InTime'
  <2>1. /\ pc[a] = "holding" /\ UNCHANGED <<on, released>> /\ inTime' = inTime \ {a} /\ a \in Actors
        /\ \E l \in {"done", "idle", "freeing"} : Goto(a, l) /\ (l = "freeing" => holdCount[on[a]] = 1)
    BY <1>8, <1>0 DEF ReleaseHold
  <2>2. ASSUME holdCount[on[a]] = 1, NEW b \in inTime' PROVE on[b] # on[a]
    <3>1. b \in inTime /\ a # b /\ a \in Holders(on[a])
      BY <2>1 DEF Holders
    <3> QED BY <3>1, <2>2, InTimeCounted
  <2> QED BY <2>1, <2>2, InTimeMove
<1>9. ASSUME NEW a \in Actors, Stop(a) PROVE InTime'
  <2>0. pc[a] \in {"stop"} \cup StopBody => AfterStop(a) \in {"unhold", "done", "archive"}
    BY StopPlaces DEF Types, Located
  <2>1. CASE ReleaseComponents(a)
    <3>1. /\ pc[a] = "release" /\ UNCHANGED <<on, released, inTime>>
          /\ \E l \in {"done", "idle", "freeing"} : Goto(a, l) /\ (l = "freeing" => ~(holdCount[on[a]] > 0))
      BY <2>1 DEF ReleaseComponents
    <3>2. ~(holdCount[on[a]] > 0) => \A b \in inTime : on[b] # on[a]
      BY InTimeCounted
    <3> QED BY <3>1, <3>2, <1>a, InTimeMove
  <2>2. CASE DoRelease(a)
    <3>1. /\ pc[a] = "freeing" /\ UNCHANGED <<on, inTime>> /\ released' = [released EXCEPT ![on[a]] = TRUE]
          /\ \E l \in {"done", "idle"} : Goto(a, l)
      BY <2>2 DEF DoRelease
    <3>2. \A u \in Uids : released'[u] => released[u] \/ Freeing(u) # {}
      BY <3>1 DEF Types, TypeOK, Freeing
    <3> QED BY <3>1, <3>2, <1>a, InTimeMove
  <2>3. CASE ~ReleaseComponents(a) /\ ~DoRelease(a)
    <3>1. /\ pc[a] # "holding" /\ UNCHANGED <<on, released, inTime>>
          /\ \E l \in {"exitinfo", "kill", "join", "finish", "unhold", "done", "archive", "release"} : Goto(a, l)
      BY <1>9, <2>0, <2>3 DEF Stop, StopBegins, StopExitInfo, StopKills, StopJoins, StopFinishes, Archive, StopBody
    <3> QED BY <3>1, <1>a, InTimeMove
  <2> QED BY <2>1, <2>2, <2>3
<1>10. CASE UNCHANGED vars
  BY <1>10 DEF vars, InTime, Freeing
<1> QED BY <1>1, <1>2, <1>3, <1>4, <1>5, <1>6, <1>7, <1>8, <1>9, <1>10
        DEF Next, Holding, Quiescent, Clients

\* Holders that came in time hold whole sessions always.
LEMMA InTimeAlways == Spec => []InTime
<1>1. Init => InTime
  BY DEF Init, InTime
<1>2. Types /\ Counted /\ InTime /\ [Next]_vars => InTime'
  <2>1. InTime /\ UNCHANGED vars => InTime'
    BY DEF vars, holdVars, InTime, Freeing
  <2> QED BY <2>1, InTimeKept
<1> QED BY <1>1, <1>2, TypesKept, PTL DEF Spec

\* A holder that came before the release was decided keeps the components until it leaves,
\* whoever stops, kills and releases, and whichever hold was the one from the creation
\* (session.py hold, release_components).
THEOREM HoldersKeepTheirs == Spec => []HoldersProtected
<1>1. InTime => HoldersProtected
  BY DEF InTime, HoldersProtected
<1> QED BY <1>1, InTimeAlways, PTL
-----------------------------------------------------------------------------
(* Stop, archive, release: one after the other.                            *)

\* Who is inside stop().
InStop(u) == {a \in Actors : on[a] = u /\ pc[a] \in StopBody}

\* The release of the components was decided.
Decided(u) == released[u] \/ pending[u] \/ Freeing(u) # {}

\* A release is decided when the stop is through and the session archived; one thread at a
\* time is inside stop(); the hold from the creation keeps the components.
Orderly ==
  \A u \in Uids :
    /\ Decided(u) => stopFinished[u] /\ archives[u] = 1
    /\ \A a \in Actors : on[a] = u /\ pc[a] = "release" => archives[u] = 1
    /\ stopFinished[u] => stopStarted[u] /\ InStop(u) = {}
    /\ \A a, b \in InStop(u) : a = b
    /\ creationHold[u] => ~released[u] /\ Freeing(u) = {}

\* One thread moves outside of stop(), and decides no release but in its time.
LEMMA OrderlyMove ==
  ASSUME Types, Orderly, NEW a \in Actors, NEW l, Goto(a, l), l \notin {"release"} \cup StopBody,
         \A b \in Actors : b # a => on'[b] = on[b],
         UNCHANGED <<stopFinished, stopStarted, archives>>,
         \A u \in Uids : /\ released'[u] => released[u] \/ Freeing(u) # {}
                         /\ pending'[u] => pending[u] \/ (stopFinished[u] /\ archives[u] = 1)
                         /\ creationHold'[u] => creationHold[u],
         l = "freeing" => /\ stopFinished[on'[a]] /\ archives[on'[a]] = 1
                          /\ ~creationHold'[on'[a]]
  PROVE  Orderly'
<1>1. pc'[a] = l /\ \A b \in Actors : b # a => pc'[b] = pc[b]
  BY DEF Goto, Types, TypeOK
<1>2. ASSUME NEW u \in Uids PROVE InStop(u)' \subseteq InStop(u)
  BY <1>1 DEF InStop
<1>3. ASSUME NEW u \in Uids, Freeing(u)' # {}
      PROVE  Freeing(u) # {} \/ (l = "freeing" /\ on'[a] = u)
  <2>1. PICK d \in Actors : on'[d] = u /\ pc'[d] = "freeing"
    BY <1>3 DEF Freeing
  <2> QED BY <1>1, <2>1 DEF Freeing
<1>4. ASSUME NEW u \in Uids, Decided(u)' PROVE stopFinished[u] /\ archives[u] = 1
  <2>1. Decided(u) \/ (stopFinished[u] /\ archives[u] = 1)
    BY <1>3, <1>4 DEF Decided
  <2> QED BY <2>1 DEF Orderly
<1>5. ASSUME NEW u \in Uids, creationHold'[u] PROVE ~released'[u] /\ Freeing(u)' = {}
  BY <1>3, <1>5 DEF Orderly
<1>6. ASSUME NEW u \in Uids, NEW b \in Actors, on'[b] = u, pc'[b] = "release" PROVE archives[u] = 1
  BY <1>1, <1>6 DEF Orderly
<1>7. ASSUME NEW u \in Uids
      PROVE  /\ stopFinished[u] => stopStarted[u] /\ InStop(u)' = {}
             /\ \A b, d \in InStop(u)' : b = d
  BY <1>2 DEF Orderly
<1> QED BY <1>4, <1>5, <1>6, <1>7 DEF Orderly

\* A session that is being created is neither archived nor to be released.
LEMMA EarlyIsWhole ==
  ASSUME Tended, OneEnd, Orderly, NEW u \in Uids, pc[Creator(u)] \in Early
  PROVE  archives[u] # 1 /\ ~Decided(u) /\ ~released[u] /\ InStop(u) = {} /\ Freeing(u) = {}
<1>1. archives[u] # 1
  BY DEF Tended, OneEnd
<1>2. ~Decided(u)
  BY <1>1 DEF Orderly
<1>3. Stopping(u) = {}
  BY DEF Tended
<1> QED BY <1>1, <1>2, <1>3 DEF Decided, Stopping, StopPcs, InStop

\* Creation decides nothing about another session, and gives back its hold only when the
\* session was archived.
LEMMA OrderlyCreation ==
  ASSUME Types, Counted, Tended, OneEnd, Orderly, NEW u \in Uids, Creation(u)
  PROVE  Orderly'
<1> DEFINE c == Creator(u)
<1>0. c \in Actors /\ on[c] = u /\ Reader(u) \in Actors /\ Reader(u) # c
  BY ActorsDiffer DEF Types, Located
<1> HIDE DEF c
<1> USE DEF holdVars, flagVars
<1>1. CASE PreHold(u)
  <2>1. /\ pc[c] = "hooked" /\ Goto(c, "preheld") /\ creationHold' = [creationHold EXCEPT ![u] = TRUE]
        /\ UNCHANGED <<on, released, pending, stopStarted, stopFinished, archives>>
    BY <1>1 DEF PreHold, c
  <2>2. ~released[u] /\ Freeing(u) = {}
    BY <2>1, EarlyIsWhole DEF Early, c
  <2>3. /\ \A b \in Actors : b # c => pc'[b] = pc[b]
        /\ pc'[c] = "preheld"
    BY <2>1, <1>0 DEF Goto, Types, TypeOK
  <2>4. \A v \in Uids : InStop(v)' = InStop(v) /\ Freeing(v)' = Freeing(v)
    BY <2>1, <2>3 DEF InStop, Freeing, StopBody
  <2>5. \A b \in Actors : pc'[b] = "release" => pc[b] = "release"
    BY <2>3
  <2>6. \A v \in Uids : v # u => creationHold'[v] = creationHold[v]
    BY <2>1 DEF Types, TypeOK
  <2>7. \A v \in Uids : Decided(v)' <=> Decided(v)
    BY <2>1, <2>4 DEF Decided
  <2> QED BY <2>1, <2>2, <2>4, <2>5, <2>6, <2>7 DEF Orderly
<1>2. CASE OpenPty(u)
  <2>1. /\ pc[c] = "preheld" /\ UNCHANGED <<on, released, pending, creationHold, archives>>
        /\ stopStarted' = [stopStarted EXCEPT ![u] = FALSE]
        /\ stopFinished' = [stopFinished EXCEPT ![u] = FALSE]
        /\ Goto(c, "opened") \/ Goto(c, "failed")
    BY <1>2 DEF OpenPty, c
  <2>2. ~Decided(u) /\ InStop(u) = {}
    BY <2>1, EarlyIsWhole DEF Early, c
  <2>3. /\ pc'[c] \in {"opened", "failed"} /\ \A b \in Actors : b # c => pc'[b] = pc[b]
    BY <2>1, <1>0 DEF Goto, Types, TypeOK
  <2>4. \A v \in Uids : InStop(v)' = InStop(v) /\ Freeing(v)' = Freeing(v)
    BY <2>1, <2>3 DEF InStop, Freeing, StopBody
  <2>5. \A b \in Actors : pc'[b] = "release" => pc[b] = "release"
    BY <2>3
  <2>6. \A v \in Uids : /\ v # u => stopStarted'[v] = stopStarted[v] /\ stopFinished'[v] = stopFinished[v]
                        /\ ~stopFinished'[u]
    BY <2>1 DEF Types, TypeOK
  <2>7. \A v \in Uids : Decided(v)' <=> Decided(v)
    BY <2>1, <2>4 DEF Decided
  <2>8. ASSUME NEW v \in Uids
        PROVE  /\ Decided(v)' => stopFinished'[v] /\ archives'[v] = 1
               /\ stopFinished'[v] => stopStarted'[v] /\ InStop(v)' = {}
    BY <2>1, <2>2, <2>4, <2>6, <2>7 DEF Orderly
  <2>9. ASSUME NEW v \in Uids
        PROVE  /\ \A b \in Actors : on'[b] = v /\ pc'[b] = "release" => archives'[v] = 1
               /\ \A b, d \in InStop(v)' : b = d
               /\ creationHold'[v] => ~released'[v] /\ Freeing(v)' = {}
    BY <2>1, <2>4, <2>5 DEF Orderly
  <2> QED BY <2>8, <2>9 DEF Orderly
<1>3. CASE Launch(u) /\ ~released[u]
  <2>1. /\ pc[c] = "opened" /\ pc' = [pc EXCEPT ![c] = "returned", ![Reader(u)] = "loop"]
        /\ UNCHANGED <<on, released, pending, creationHold, archives, stopStarted, stopFinished>>
    BY <1>3 DEF Launch, c
  <2>2. /\ pc'[c] = "returned" /\ pc'[Reader(u)] = "loop"
        /\ \A b \in Actors : b # c /\ b # Reader(u) => pc'[b] = pc[b]
    BY <2>1, <1>0 DEF Types, TypeOK
  <2>3. pc[Reader(u)] = "idle"
    BY <2>1 DEF Tended, Early, c
  <2>4. \A v \in Uids : InStop(v)' = InStop(v) /\ Freeing(v)' = Freeing(v)
    BY <2>1, <2>2, <2>3, <1>0 DEF InStop, Freeing, StopBody
  <2>5. \A b \in Actors : pc'[b] = "release" => pc[b] = "release"
    BY <2>2
  <2>6. \A v \in Uids : Decided(v)' <=> Decided(v)
    BY <2>1, <2>4 DEF Decided
  <2> QED BY <2>1, <2>4, <2>5, <2>6 DEF Orderly
<1>4. CASE ReleaseCreationHold(u)
  <2>0. /\ UNCHANGED <<on, released, archives, stopStarted, stopFinished>>
        /\ creationHold' = creationHold \/ creationHold' = [creationHold EXCEPT ![u] = FALSE]
        /\ \/ pending' = pending
           \/ pending' = [pending EXCEPT ![u] = FALSE]
           \/ pending' = [pending EXCEPT ![u] = @]
    BY <1>4 DEF ReleaseCreationHold
  <2>1. \A v \in Uids : /\ pending'[v] => pending[v]
                        /\ creationHold'[v] => creationHold[v]
    BY <2>0 DEF Types, TypeOK
  <2>2. Goto(c, "done") \/ (Goto(c, "freeing") /\ pending[u] /\ ~creationHold'[u])
    BY <1>4 DEF ReleaseCreationHold, Types, TypeOK, c
  <2>3. pending[u] => stopFinished[u] /\ archives[u] = 1
    BY DEF Orderly, Decided
  <2>4. "done" \notin {"release"} \cup StopBody /\ "freeing" \notin {"release"} \cup StopBody
    BY DEF StopBody
  <2> QED BY <2>0, <2>1, <2>2, <2>3, <2>4, <1>0, OrderlyMove
<1>5. CASE Register(u) \/ AddEndCallback(u) \/ (Launch(u) /\ released[u]) \/ CreateFailed(u) \/ SkipHold(u)
  <2>1. \E l \in {"registered", "done", "hooked", "failed", "stop"} :
          Goto(c, l) /\ UNCHANGED <<on, released, pending, creationHold, archives, stopStarted, stopFinished>>
    BY <1>5 DEF Register, AddEndCallback, Launch, CreateFailed, SkipHold, c
  <2>2. {"registered", "done", "hooked", "failed", "stop"} \cap ({"release", "freeing"} \cup StopBody) = {}
    BY DEF StopBody
  <2> QED BY <2>1, <2>2, <1>0, OrderlyMove
<1> QED BY <1>1, <1>2, <1>3, <1>4, <1>5 DEF Creation

\* Stop, archive and release follow each other.
LEMMA OrderlyStop ==
  ASSUME Types, Counted, Tended, OneEnd, Orderly, NEW a \in Actors, Stop(a)
  PROVE  Orderly'
<1>1. on[a] \in Uids
  BY DEF Types, Located, Stop, StopBegins, StopExitInfo, StopKills, StopJoins, StopFinishes, Archive,
         ReleaseComponents, DoRelease
<1>2. PICK u \in Uids : u = on[a]
  BY <1>1
<1>3. pc[a] \in {"stop"} \cup StopBody => AfterStop(a) \in {"unhold", "done", "archive"}
  BY StopPlaces DEF Types, Located
<1>4. \A l : Goto(a, l) => pc'[a] = l /\ \A b \in Actors : b # a => pc'[b] = pc[b]
  BY DEF Goto, Types, TypeOK
<1>5. {"unhold", "done", "archive", "idle", "freeing"} \cap ({"release"} \cup StopBody) = {}
  BY DEF StopBody
<1> USE DEF holdVars, flagVars
<1>6. CASE StopBegins(a) /\ stopStarted[u]
  <2>1. \E l \in {"unhold", "done", "archive"} :
          Goto(a, l) /\ UNCHANGED <<on, released, pending, creationHold, archives, stopStarted, stopFinished>>
    BY <1>2, <1>3, <1>6 DEF StopBegins
  <2> QED BY <2>1, <1>5, OrderlyMove
<1>7. CASE StopBegins(a) /\ ~stopStarted[u]
  <2>1. ~stopFinished[u] /\ ~released[u]
    BY <1>7 DEF Orderly, Decided
  <2>2. /\ Goto(a, "exitinfo") /\ stopStarted' = [stopStarted EXCEPT ![u] = TRUE]
        /\ UNCHANGED <<on, released, pending, creationHold, archives, stopFinished>>
        /\ pc[a] = "stop"
    BY <2>1, <1>2, <1>7 DEF StopBegins
  <2>3. InStop(u) = {}
    BY <1>7 DEF Tended, InStop
  <2>4. \A v \in Uids : Freeing(v)' = Freeing(v) /\ (v # u => InStop(v)' = InStop(v))
    BY <2>2, <1>2, <1>4 DEF Freeing, InStop
  <2>5. InStop(u)' \subseteq {a}
    BY <2>2, <2>3, <1>4 DEF InStop
  <2>6. \A v \in Uids : /\ Decided(v)' <=> Decided(v)
                        /\ v # u => stopStarted'[v] = stopStarted[v]
    BY <2>2, <2>4 DEF Decided, Types, TypeOK
  <2>7. \A b \in Actors : pc'[b] = "release" => pc[b] = "release"
    BY <2>2, <1>4
  <2>8. ASSUME NEW v \in Uids
        PROVE  /\ stopFinished'[v] => stopStarted'[v] /\ InStop(v)' = {}
               /\ \A b, d \in InStop(v)' : b = d
    BY <2>1, <2>2, <2>4, <2>5, <2>6 DEF Orderly
  <2> QED BY <2>2, <2>4, <2>6, <2>7, <2>8 DEF Orderly
<1>8. CASE StopExitInfo(a) \/ StopKills(a) \/ StopJoins(a)
  <2>1. \E l \in {"kill", "join", "finish"} :
          /\ Goto(a, l) /\ pc[a] \in {"exitinfo", "kill", "join"}
          /\ UNCHANGED <<on, released, pending, creationHold, archives, stopStarted, stopFinished>>
    BY <1>8 DEF StopExitInfo, StopKills, StopJoins
  <2>2. pc'[a] \in StopBody /\ pc[a] \in StopBody /\ \A b \in Actors : b # a => pc'[b] = pc[b]
    BY <2>1, <1>4 DEF StopBody
  <2>3. \A v \in Uids : Freeing(v)' = Freeing(v) /\ InStop(v)' = InStop(v)
    BY <2>1, <2>2 DEF Freeing, InStop, StopBody
  <2>4. \A b \in Actors : pc'[b] = "release" => pc[b] = "release"
    BY <2>2 DEF StopBody
  <2>5. \A v \in Uids : Decided(v)' <=> Decided(v)
    BY <2>1, <2>3 DEF Decided
  <2> QED BY <2>1, <2>3, <2>4, <2>5 DEF Orderly
<1>9. CASE StopFinishes(a)
  <2>1. /\ pc[a] = "finish" /\ stopFinished' = [stopFinished EXCEPT ![u] = TRUE]
        /\ Goto(a, AfterStop(a)) /\ UNCHANGED <<on, released, pending, creationHold, archives, stopStarted>>
    BY <1>2, <1>9 DEF StopFinishes
  <2>2. AfterStop(a) \in {"unhold", "done", "archive"} /\ a \in InStop(u) /\ stopStarted[u]
    BY <2>1, <1>2, <1>3 DEF StopBody, InStop, Tended
  <2>3. pc'[a] \in {"unhold", "done", "archive"} /\ \A b \in Actors : b # a => pc'[b] = pc[b]
    BY <2>1, <2>2, <1>4
  <2>4. InStop(u)' = {} /\ \A v \in Uids : v # u => InStop(v)' = InStop(v)
    <3>1. InStop(u) = {a}
      BY <2>2 DEF Orderly
    <3>2. InStop(u)' \subseteq InStop(u) \ {a}
      BY <2>1, <2>3 DEF InStop, StopBody
    <3>3. \A v \in Uids : v # u => InStop(v)' = InStop(v)
      BY <2>1, <2>3, <1>2 DEF InStop
    <3> QED BY <3>1, <3>2, <3>3
  <2>5. \A v \in Uids : Freeing(v)' = Freeing(v)
    BY <2>1, <2>3 DEF Freeing
  <2>6. \A v \in Uids : /\ Decided(v)' <=> Decided(v)
                        /\ stopFinished'[u] /\ (v # u => stopFinished'[v] = stopFinished[v])
    BY <2>1, <2>5 DEF Decided, Types, TypeOK
  <2>7. \A b \in Actors : pc'[b] = "release" => pc[b] = "release"
    BY <2>3
  <2>8. ASSUME NEW v \in Uids
        PROVE  /\ stopFinished'[v] => stopStarted'[v] /\ InStop(v)' = {}
               /\ \A b, d \in InStop(v)' : b = d
    BY <2>1, <2>2, <2>4, <2>6 DEF Orderly
  <2>9. \A v \in Uids : Decided(v) => stopFinished'[v] /\ archives[v] = 1
    BY <2>6 DEF Orderly
  <2> QED BY <2>1, <2>5, <2>6, <2>7, <2>8, <2>9 DEF Orderly
<1>10. CASE Archive(a)
  <2>1. /\ pc[a] = "archive" /\ Goto(a, "release") /\ archives' = [archives EXCEPT ![u] = @ + 1]
        /\ UNCHANGED <<on, released, pending, creationHold, stopStarted, stopFinished>>
    BY <1>2, <1>10 DEF Archive
  <2>2. pc'[a] = "release" /\ \A b \in Actors : b # a => pc'[b] = pc[b]
    BY <2>1, <1>4
  <2>3. a \in Enders
    BY <2>1, PlacesOf, ActorsDiffer DEF Types, Located, Enders, CreatorPcs, HolderPcs, StopBody
  <2>4. archives[u] = 0
    BY <2>1, <2>3, <1>2 DEF OneEnd, Ending, EndingPcs
  <2>5. archives'[u] = 1 /\ \A v \in Uids : v # u => archives'[v] = archives[v]
    BY <2>1, <2>4 DEF Types, TypeOK
  <2>6. \A v \in Uids : Freeing(v)' = Freeing(v) /\ InStop(v)' = InStop(v)
    BY <2>1, <2>2 DEF Freeing, InStop, StopBody
  <2>7. \A v \in Uids : Decided(v)' <=> Decided(v)
    BY <2>1, <2>6 DEF Decided
  <2>8. ASSUME NEW v \in Uids, NEW b \in Actors, on'[b] = v, pc'[b] = "release" PROVE archives'[v] = 1
    BY <2>1, <2>2, <2>5, <2>8, <1>2 DEF Orderly
  <2>9. \A v \in Uids : Decided(v) => stopFinished[v] /\ archives'[v] = 1
    BY <2>5 DEF Orderly
  <2> QED BY <2>1, <2>6, <2>7, <2>8, <2>9 DEF Orderly
<1>11. CASE ReleaseComponents(a)
  <2>1. /\ pc[a] = "release" /\ UNCHANGED <<on, released, creationHold, archives, stopStarted, stopFinished>>
        /\ \E l \in {"done", "idle", "freeing"} :
             Goto(a, l) /\ (l = "freeing" => stopFinished[u] /\ ~(holdCount[u] > 0))
    BY <1>2, <1>11 DEF ReleaseComponents
  <2>2. archives[u] = 1
    BY <2>1, <1>2 DEF Orderly
  <2>3. \A v \in Uids : pending'[v] => pending[v] \/ (v = u /\ stopFinished[u])
    BY <1>2, <1>11 DEF ReleaseComponents, Types, TypeOK
  <2>4. ~(holdCount[u] > 0) => ~creationHold[u]
    BY CountPositive
  <2> QED BY <2>1, <2>2, <2>3, <2>4, <1>2, <1>5, OrderlyMove
<1>12. CASE DoRelease(a)
  <2>1. /\ pc[a] = "freeing" /\ released' = [released EXCEPT ![u] = TRUE]
        /\ UNCHANGED <<on, pending, creationHold, archives, stopStarted, stopFinished>>
        /\ \E l \in {"done", "idle"} : Goto(a, l)
    BY <1>2, <1>12 DEF DoRelease
  <2>2. \A v \in Uids : released'[v] => released[v] \/ Freeing(v) # {}
    BY <2>1, <1>2 DEF Types, TypeOK, Freeing
  <2> QED BY <2>1, <2>2, <1>5, OrderlyMove
<1> QED BY <1>6, <1>7, <1>8, <1>9, <1>10, <1>11, <1>12 DEF Stop

\* Readers, clients and holders decide a release only in its time.
LEMMA OrderlyOthers ==
  ASSUME Types, Counted, Orderly, Next,
         ~ \E u \in Uids : Creation(u), ~ \E a \in Actors : Stop(a)
  PROVE  Orderly'
<1>0. /\ \A u \in Uids : Reader(u) \in Actors /\ Stopper(u) \in Actors
      /\ \A a \in Killers \cup Handlers \cup Creators : a \in Actors
  BY ActorsDiffer DEF Types, Located
<1>a. {"exiting", "claim", "stop", "found", "holding", "done", "idle", "freeing"}
        \cap ({"release"} \cup StopBody) = {}
  BY DEF StopBody
<1> USE DEF holdVars, flagVars
<1>1. ASSUME NEW u \in Uids, ChildExits(u) PROVE Orderly'
  BY <1>1 DEF ChildExits, Orderly, Decided, InStop, Freeing
<1>2. ASSUME NEW u \in Uids, ReaderThread(u) \/ ReaderSeesStop(u) PROVE Orderly'
  <2>1. \E l \in {"exiting", "done", "claim", "stop"} :
          /\ Goto(Reader(u), l)
          /\ UNCHANGED <<on, released, pending, creationHold, archives, stopStarted, stopFinished>>
    BY <1>2 DEF ReaderThread, ReaderLeaves, ReaderExit, ReaderClaims, ReaderSeesStop
  <2> QED BY <2>1, <1>0, <1>a, OrderlyMove
<1>3. ASSUME NEW u \in Uids, SpawnStopper(u) PROVE Orderly'
  <2>1. /\ Goto(Stopper(u), "stop")
        /\ UNCHANGED <<on, released, pending, creationHold, archives, stopStarted, stopFinished>>
    BY <1>3 DEF SpawnStopper
  <2> QED BY <2>1, <1>0, <1>a, OrderlyMove
<1>4. ASSUME NEW a \in Clients, NEW u \in Uids, KillerClaims(a, u) \/ Lookup(a, u) PROVE Orderly'
  <2>1. /\ \E l \in {"stop", "found"} : Goto(a, l)
        /\ UNCHANGED <<released, pending, creationHold, archives, stopStarted, stopFinished>>
        /\ on' = [on EXCEPT ![a] = u] /\ a \in Actors
    BY <1>4 DEF KillerClaims, Lookup, Actors
  <2>2. \A b \in Actors : b # a => on'[b] = on[b]
    BY <2>1 DEF Types, TypeOK
  <2> QED BY <2>1, <2>2, <1>a, OrderlyMove
<1>5. ASSUME NEW a \in Creators \cup Handlers, Holding(a) PROVE Orderly'
  <2>0. on[a] \in Uids
    BY <1>0, <1>5 DEF Types, Located, Holding, AcquireHold, Use, ReleaseHold
  <2>1. CASE AcquireHold(a)
    <3>1. /\ Goto(a, "holding") /\ UNCHANGED <<on, released, pending, archives, stopStarted, stopFinished>>
          /\ \/ creationHold' = [creationHold EXCEPT ![on[a]] = FALSE]
             \/ UNCHANGED creationHold
      BY <2>1 DEF AcquireHold
    <3>2. \A u \in Uids : creationHold'[u] => creationHold[u]
      BY <3>1 DEF Types, TypeOK
    <3> QED BY <3>1, <3>2, <1>0, <1>a, OrderlyMove
  <2>2. CASE Use(a)
    BY <2>2 DEF Use, Orderly, Decided, InStop, Freeing
  <2>3. CASE ReleaseHold(a)
    <3>1. /\ pc[a] = "holding" /\ UNCHANGED <<on, released, creationHold, archives, stopStarted, stopFinished>>
          /\ \E l \in {"freeing", "done", "idle"} :
               Goto(a, l) /\ (l = "freeing" => holdCount[on[a]] = 1 /\ pending[on[a]])
      BY <2>3 DEF ReleaseHold
    <3>2. \A u \in Uids : pending'[u] => pending[u]
      BY <2>3 DEF ReleaseHold, Types, TypeOK
    <3>3. PICK u \in Uids : u = on[a]
      BY <2>0
    <3>4. holdCount[u] = 1 => ~creationHold[u]
      <4>1. a \in Holders(u)
        BY <1>0, <3>1, <3>3 DEF Holders
      <4>2. Cardinality(Holders(u)) \in Nat /\ Cardinality(Holders(u)) > 0
        BY <4>1, CountPositive
      <4>3. holdCount[u] = Cardinality(Holders(u)) + (IF creationHold[u] THEN 1 ELSE 0)
        BY DEF Counted
      <4> QED BY <4>2, <4>3
    <3>5. pending[u] => stopFinished[u] /\ archives[u] = 1
      BY DEF Orderly, Decided
    <3> QED BY <3>1, <3>2, <3>3, <3>4, <3>5, <1>0, <1>a, OrderlyMove
  <2> QED BY <1>5, <2>1, <2>2, <2>3 DEF Holding
<1>6. CASE UNCHANGED vars
  BY <1>6 DEF vars, Orderly, Decided, InStop, Freeing
<1> QED BY <1>1, <1>2, <1>3, <1>4, <1>5, <1>6 DEF Next, Quiescent, Clients

\* Where no kill can come before a creation has returned, the order is kept always.
LEMMA OrderlyAlways == ~KillDuringCreate /\ Spec => []Orderly
<1> SUFFICES ASSUME ~KillDuringCreate PROVE Spec => []Orderly
  OBVIOUS
<1>1. Init => Orderly
  <2> SUFFICES ASSUME Init PROVE Orderly
    OBVIOUS
  <2>1. \A a \in Actors : pc[a] \in {"new", "idle"}
    BY DEF Init
  <2>2. \A u \in Uids : Freeing(u) = {} /\ InStop(u) = {}
    BY <2>1 DEF Freeing, InStop, StopBody
  <2>3. \A u \in Uids : ~released[u] /\ ~pending[u] /\ ~stopFinished[u] /\ ~creationHold[u]
    BY DEF Init
  <2> QED BY <2>1, <2>2, <2>3 DEF Orderly, Decided
<1>2. Types /\ Counted /\ Tended /\ OneEnd /\ Orderly /\ [Next]_vars => Orderly'
  <2>1. Orderly /\ UNCHANGED vars => Orderly'
    BY DEF vars, holdVars, flagVars, Orderly, Decided, InStop, Freeing
  <2> QED BY <2>1, OrderlyCreation, OrderlyStop, OrderlyOthers
<1> QED BY <1>1, <1>2, TypesKept, OneEndAlways, TendedAlways, PTL DEF Spec

\* The components of a session go when its stop is through and it is archived, never
\* under a thread that is still stopping or archiving it (session.py release_components).
THEOREM ReleaseComesLast == ~KillDuringCreate /\ Spec => []ReleasedAfterStop
<1>1. Types /\ OneEnd /\ Orderly => ReleasedAfterStop
  <2> SUFFICES ASSUME Types, OneEnd, Orderly, NEW u \in Uids, released[u],
                      NEW a \in Actors, on[a] = u, pc[a] \in StopBody \cup {"archive"}
               PROVE  FALSE
    BY DEF ReleasedAfterStop
  <2>1. stopFinished[u] /\ archives[u] = 1 /\ InStop(u) = {}
    BY DEF Orderly, Decided
  <2>2. pc[a] = "archive"
    BY <2>1 DEF InStop
  <2>3. a \in Enders
    BY <2>2, PlacesOf, ActorsDiffer DEF Types, Located, Enders, CreatorPcs, HolderPcs, StopBody
  <2>4. a \in Ending(u)
    BY <2>2, <2>3 DEF Ending, EndingPcs
  <2> QED BY <2>1, <2>4 DEF OneEnd
<1> QED BY <1>1, TypesKept, OneEndAlways, OrderlyAlways, PTL
-----------------------------------------------------------------------------
(* Who may meet a session whose components are gone.                       *)

\* A stop that is through, or about to be, has waited for the reader, or is the reader's.
Joined ==
  \A u \in Uids :
    stopFinished[u] \/ (\E a \in Actors : on[a] = u /\ pc[a] = "finish") =>
      pc[Reader(u)] \notin {"loop", "exiting"}

\* One thread moves, and ends no stop.
LEMMA JoinedMove ==
  ASSUME Types, Joined, NEW a \in Actors, NEW l, Goto(a, l), l # "finish",
         \A b \in Actors : b # a => on'[b] = on[b],
         \A u \in Uids : stopFinished'[u] => stopFinished[u] \/ (on[a] = u /\ pc[a] = "finish"),
         a \in Readers => l \notin {"loop", "exiting"} \/ pc[a] \in {"loop", "exiting"}
  PROVE  Joined'
<1>1. pc'[a] = l /\ \A b \in Actors : b # a => pc'[b] = pc[b]
  BY DEF Goto, Types, TypeOK
<1>2. \A u \in Uids : Reader(u) \in Actors /\ Reader(u) \in Readers
  BY ActorsDiffer
<1>3. \A u \in Uids : pc'[Reader(u)] \in {"loop", "exiting"} => pc[Reader(u)] \in {"loop", "exiting"}
  BY <1>1, <1>2
<1>4. ASSUME NEW u \in Uids, NEW b \in Actors, on'[b] = u, pc'[b] = "finish"
      PROVE  \E d \in Actors : on[d] = u /\ pc[d] = "finish"
  BY <1>1, <1>4
<1> QED BY <1>3, <1>4 DEF Joined

\* With a join that waits, the reader is through before the stop is.
LEMMA JoinedKept ==
  ASSUME Types, Tended, Orderly, Joined, ~JoinMayTimeOut, Next
  PROVE  Joined'
<1>0. /\ \A u \in Uids : /\ Reader(u) \in Actors /\ Reader(u) \in Readers /\ on[Reader(u)] = u
                         /\ Stopper(u) \in Actors /\ Stopper(u) \notin Readers
                         /\ Creator(u) \in Actors /\ Creator(u) \notin Readers /\ Creator(u) # Reader(u)
                         /\ \A v \in Uids : v # u => Reader(v) # Reader(u)
                         /\ \A v \in Uids : Creator(v) # Reader(u)
      /\ \A a \in Clients \cup Creators : a \in Actors /\ a \notin Readers
  BY ActorsDiffer DEF Clients, Types, Located
<1> USE DEF flagVars
<1>1. ASSUME NEW u \in Uids, Creation(u) PROVE Joined'
  <2> DEFINE c == Creator(u)
  <2>1. CASE Launch(u) /\ ~released[u]
    <3>1. /\ pc[c] = "opened" /\ UNCHANGED <<on, stopFinished>>
          /\ pc' = [pc EXCEPT ![c] = "returned", ![Reader(u)] = "loop"]
      BY <2>1 DEF Launch
    <3>2. ~stopFinished[u] /\ Stopping(u) = {}
      BY <3>1 DEF Tended, Orderly, Early
    <3> HIDE DEF c
    <3>3. /\ pc'[c] = "returned" /\ pc'[Reader(u)] = "loop"
          /\ \A b \in Actors : b # c /\ b # Reader(u) => pc'[b] = pc[b]
      BY <1>0, <3>1 DEF Types, TypeOK, c
    <3>4. \A b \in Actors : pc'[b] = "finish" => pc[b] = "finish"
      BY <3>3
    <3>5. \A b \in Actors : ~(on[b] = u /\ pc[b] = "finish")
      BY <3>2 DEF Stopping, StopPcs, StopBody
    <3>6. \A v \in Uids : v # u => pc'[Reader(v)] = pc[Reader(v)]
      BY <1>0, <3>3 DEF c
    <3> QED BY <3>1, <3>2, <3>4, <3>5, <3>6 DEF Joined
  <2>2. CASE ~(Launch(u) /\ ~released[u])
    <3>1. /\ \E l \in {"registered", "done", "hooked", "preheld", "opened", "failed", "stop", "freeing"} : Goto(c, l)
          /\ UNCHANGED on
          /\ stopFinished' = stopFinished \/ stopFinished' = [stopFinished EXCEPT ![u] = FALSE]
      BY <1>1, <2>2 DEF Creation, Register, AddEndCallback, PreHold, OpenPty, Launch, CreateFailed,
                        ReleaseCreationHold, SkipHold
    <3>2. \A v \in Uids : stopFinished'[v] => stopFinished[v]
      BY <3>1 DEF Types, TypeOK
    <3> HIDE DEF c
    <3> QED BY <1>0, <3>1, <3>2, JoinedMove DEF c
  <2> QED BY <2>1, <2>2
<1>2. ASSUME NEW u \in Uids, ChildExits(u) PROVE Joined'
  BY <1>2 DEF ChildExits, Joined
<1>3. ASSUME NEW u \in Uids, ReaderThread(u) \/ ReaderSeesStop(u) PROVE Joined'
  <2>1. \E l \in {"exiting", "done", "claim", "stop"} :
          /\ Goto(Reader(u), l) /\ UNCHANGED <<on, stopFinished>>
          /\ l = "exiting" => pc[Reader(u)] = "loop"
    BY <1>3 DEF ReaderThread, ReaderLeaves, ReaderExit, ReaderClaims, ReaderSeesStop
  <2> QED BY <2>1, <1>0, JoinedMove
<1>4. ASSUME NEW u \in Uids, SpawnStopper(u) PROVE Joined'
  <2>1. Goto(Stopper(u), "stop") /\ UNCHANGED <<on, stopFinished>>
    BY <1>4 DEF SpawnStopper
  <2> QED BY <2>1, <1>0, JoinedMove
<1>5. ASSUME NEW a \in Clients, NEW u \in Uids, KillerClaims(a, u) \/ Lookup(a, u) PROVE Joined'
  <2>1. /\ \E l \in {"stop", "found"} : Goto(a, l)
        /\ UNCHANGED stopFinished /\ on' = [on EXCEPT ![a] = u]
    BY <1>5 DEF KillerClaims, Lookup
  <2>2. \A b \in Actors : b # a => on'[b] = on[b]
    BY <2>1, <1>0 DEF Types, TypeOK
  <2> QED BY <2>1, <2>2, <1>0, JoinedMove
<1>6. ASSUME NEW a \in Creators \cup Handlers, Holding(a) PROVE Joined'
  <2>1. CASE Use(a)
    BY <2>1 DEF Use, Joined
  <2>2. CASE ~Use(a)
    <3>1. \E l \in {"holding", "freeing", "done", "idle"} : Goto(a, l) /\ UNCHANGED <<on, stopFinished>>
      BY <1>6, <2>2 DEF Holding, AcquireHold, ReleaseHold
    <3> QED BY <3>1, <1>0, JoinedMove DEF Clients
  <2> QED BY <2>1, <2>2
<1>7. ASSUME NEW a \in Actors, Stop(a) PROVE Joined'
  <2>0. pc[a] \in {"stop"} \cup StopBody => AfterStop(a) \in {"unhold", "done", "archive"}
    BY StopPlaces DEF Types, Located
  <2>1. CASE StopJoins(a)
    <3>1. /\ pc[a] = "join" /\ Goto(a, "finish") /\ UNCHANGED <<on, stopFinished>>
          /\ a = Reader(on[a]) \/ pc[Reader(on[a])] \in {"idle", "done"}
      BY <2>1 DEF StopJoins
    <3>2. pc'[a] = "finish" /\ \A b \in Actors : b # a => pc'[b] = pc[b]
      BY <3>1 DEF Goto, Types, TypeOK
    <3>3. PICK u \in Uids : u = on[a]
      BY <3>1 DEF Types, Located
    <3>4. \A v \in Uids : pc'[Reader(v)] \in {"loop", "exiting"} => pc[Reader(v)] \in {"loop", "exiting"} /\ v # u
      BY <1>0, <3>1, <3>2, <3>3
    <3>5. \A v \in Uids, b \in Actors :
            on'[b] = v /\ pc'[b] = "finish" => v = u \/ (on[b] = v /\ pc[b] = "finish")
      BY <3>1, <3>2, <3>3
    <3> QED BY <3>1, <3>4, <3>5 DEF Joined
  <2>2. CASE ~StopJoins(a)
    <3>1. /\ \E l \in {"exitinfo", "kill", "join", "unhold", "done", "archive", "release", "idle", "freeing"} :
               Goto(a, l)
          /\ UNCHANGED on
          /\ \/ stopFinished' = stopFinished
             \/ stopFinished' = [stopFinished EXCEPT ![on[a]] = TRUE] /\ pc[a] = "finish"
      BY <1>7, <2>0, <2>2 DEF Stop, StopBegins, StopExitInfo, StopKills, StopFinishes, Archive,
                              ReleaseComponents, DoRelease, StopBody
    <3>2. \A u \in Uids : stopFinished'[u] => stopFinished[u] \/ (on[a] = u /\ pc[a] = "finish")
      BY <3>1 DEF Types, TypeOK
    <3> QED BY <3>1, <3>2, JoinedMove
  <2> QED BY <2>1, <2>2
<1>8. CASE UNCHANGED vars
  BY <1>8 DEF vars, Joined
<1> QED BY <1>1, <1>2, <1>3, <1>4, <1>5, <1>6, <1>7, <1>8 DEF Next, Quiescent, Clients

\* Where joins wait and no kill comes during a creation, readers are through first always.
LEMMA JoinedAlways == ~KillDuringCreate /\ ~JoinMayTimeOut /\ Spec => []Joined
<1> SUFFICES ASSUME ~KillDuringCreate, ~JoinMayTimeOut PROVE Spec => []Joined
  OBVIOUS
<1>1. Init => Joined
  <2>1. Init => \A u \in Uids : pc[Reader(u)] = "idle"
    BY ActorsDiffer DEF Init
  <2> QED BY <2>1 DEF Joined
<1>2. Types /\ Tended /\ Orderly /\ Joined /\ [Next]_vars => Joined'
  <2>1. Joined /\ UNCHANGED vars => Joined'
    BY DEF vars, flagVars, Joined
  <2> QED BY <2>1, JoinedKept
<1> QED BY <1>1, <1>2, TypesKept, TendedAlways, OrderlyAlways, PTL DEF Spec

\* Whoever touches a component that is gone is a holder that came too late: it looked the
\* session up in time and entered its hold when the release was decided.
OnlyLateHolders ==
  [][\A fault \in faults' \ faults :
       \E a \in Actors : fault = <<a, on[a]>> /\ pc[a] = "holding" /\ a \notin inTime]_vars

\* A step in good order touches nothing that is gone, but for late holders.
LEMMA TouchStep ==
  ASSUME Types, InTime, OneEnd, Tended, Orderly, Joined, Next
  PROVE  \/ faults' = faults
         \/ \E a \in Creators \cup Handlers :
              /\ pc[a] = "holding" /\ a \notin inTime /\ faults' = faults \cup {<<a, on[a]>>}
<1>1. ASSUME NEW u \in Uids, Creation(u) PROVE faults' = faults
  <2>1. CASE AddEndCallback(u) \/ Launch(u)
    <3>1. pc[Creator(u)] \in Early
      BY <2>1 DEF AddEndCallback, Launch, Early
    <3>2. ~released[u]
      BY <3>1, EarlyIsWhole
    <3> QED BY <2>1, <3>2 DEF AddEndCallback, Launch, Touch
  <2>2. CASE ~AddEndCallback(u) /\ ~Launch(u)
    BY <1>1, <2>2 DEF Creation, Register, PreHold, OpenPty, CreateFailed, ReleaseCreationHold, SkipHold
  <2> QED BY <2>1, <2>2
<1>2. ASSUME NEW u \in Uids, ReaderThread(u) PROVE faults' = faults
  <2>1. CASE ReaderExit(u)
    <3>1. ~released[u]
      BY <2>1 DEF ReaderExit, Joined, Orderly, Decided
    <3> QED BY <2>1, <3>1 DEF ReaderExit, Touch
  <2> QED BY <1>2, <2>1 DEF ReaderThread, ReaderLeaves, ReaderClaims
<1>3. ASSUME NEW a \in Actors, Stop(a) PROVE faults' = faults
  <2>1. CASE StopBegins(a) /\ ~stopStarted[on[a]]
    <3>1. on[a] \in Uids
      BY <2>1 DEF StopBegins, Types, Located
    <3>2. ~released[on[a]]
      BY <2>1, <3>1 DEF Orderly, Decided
    <3> QED BY <2>1, <3>2 DEF StopBegins, Touch
  <2>2. CASE Archive(a)
    <3>1. on[a] \in Uids /\ pc[a] = "archive"
      BY <2>2 DEF Archive, Types, Located
    <3>2. a \in Enders
      BY <3>1, PlacesOf, ActorsDiffer DEF Types, Located, Enders, CreatorPcs, HolderPcs, StopBody
    <3>3. PICK u \in Uids : u = on[a]
      BY <3>1
    <3>4. archives[u] = 0
      BY <3>1, <3>2, <3>3 DEF OneEnd, Ending, EndingPcs
    <3>5. ~released[u]
      BY <3>4 DEF Orderly, Decided
    <3> QED BY <2>2, <3>3, <3>5 DEF Archive, Touch
  <2> QED BY <1>3, <2>1, <2>2 DEF Stop, StopBegins, StopExitInfo, StopKills, StopJoins, StopFinishes,
                                  ReleaseComponents, DoRelease
<1>4. ASSUME NEW a \in Creators \cup Handlers, Holding(a)
      PROVE  \/ faults' = faults
             \/ pc[a] = "holding" /\ a \notin inTime /\ faults' = faults \cup {<<a, on[a]>>}
  <2>1. CASE Use(a)
    <3>1. a \in inTime => ~released[on[a]]
      BY DEF InTime
    <3> QED BY <2>1, <3>1 DEF Use, Touch
  <2> QED BY <1>4, <2>1 DEF Holding, AcquireHold, ReleaseHold
<1>5. ASSUME NEW u \in Uids, ChildExits(u) \/ ReaderSeesStop(u) \/ SpawnStopper(u) PROVE faults' = faults
  BY <1>5 DEF ChildExits, ReaderSeesStop, SpawnStopper
<1>6. ASSUME NEW a \in Clients, NEW u \in Uids, KillerClaims(a, u) \/ Lookup(a, u) PROVE faults' = faults
  BY <1>6 DEF KillerClaims, Lookup
<1>7. CASE UNCHANGED vars
  BY <1>7 DEF vars
<1> QED BY <1>1, <1>2, <1>3, <1>4, <1>5, <1>6, <1>7 DEF Next, Quiescent, Clients

\* Nobody but a late holder meets components that are gone: not the reader at its exit,
\* not a second stop, not who archives, not a creation (session.py _do_release).
THEOREM OnlyLateHoldersMiss == ~KillDuringCreate /\ ~JoinMayTimeOut /\ Spec => OnlyLateHolders
<1>1. Types /\ InTime /\ OneEnd /\ Tended /\ Orderly /\ Joined /\ [Next]_vars
        => [\A fault \in faults' \ faults :
              \E a \in Actors : fault = <<a, on[a]>> /\ pc[a] = "holding" /\ a \notin inTime]_vars
  <2>1. Creators \cup Handlers \subseteq Actors
    BY ActorsDiffer
  <2> QED BY <2>1, TouchStep
<1> QED BY <1>1, TypesKept, InTimeAlways, OneEndAlways, TendedAlways, OrderlyAlways, JoinedAlways, PTL
        DEF Spec, OnlyLateHolders
=============================================================================
