------------------------- MODULE DaemonControlProofs -------------------------
(***************************************************************************)
(* Proofs about DaemonControl for any number of daemons and clients, any   *)
(* number of commands, rotations and kills.                                *)
(***************************************************************************)
EXTENDS DaemonControl, TLAPS

\* Whoever acts as the owner of the lock holds it, be it a daemon or a probing client.
Ownership ==
  /\ \A d \in Daemons : Owning(d) => lock = d
  /\ \A c \in Clients : probing[c] => lock = c

\* A client probes only where its command asks whether a daemon runs.
ProbesOnly == \A c \in Clients : probing[c] => At(c) \in Probes

\* The token in the file is its daemon's current one, and what the authenticator knows of
\* the current and the newest token at each point of a rotation.  Nothing is rotated before
\* the daemon runs.
Rotation ==
  /\ \A d \in Daemons : main[d] \in {"off", "boot", "bind", "writeToken", "writeKey", "listen"}
                          => rotator[d] = "none"
  /\ \A d \in Daemons : current[d] <= newest[d]
  /\ tokenFile \in Tokens => tokenFile[2] = current[tokenFile[1]]
  /\ \A d \in Daemons : main[d] # "gone" /\ rotator[d] \in {"none", "idle"}
                          => accepted[d][current[d]] = "ever"
  /\ \A d \in Daemons : rotator[d] \in {"publish", "write", "failed"}
                          => /\ current[d] < newest[d]
                             /\ accepted[d][current[d]] # "no"
                             /\ accepted[d][newest[d]] = "ever"

\* A token in the hands of a client is accepted unless its daemon is gone for good.
HeldHonoured ==
  \A c \in Clients :
    myToken[c] \in Tokens /\ main[myToken[c][1]] # "gone"
      => accepted[myToken[c][1]][myToken[c][2]] # "no"

\* Who has claimed the cleanup has stopped the sessions or is about to.
Claimed ==
  \A d \in Daemons :
    /\ main[d] \in {"release", "exit"} => cleanedUp[d]
    /\ cleanedUp[d] /\ main[d] # "gone"
         => stopped[d] \/ handler[d] \in {"listeners", "stopAll"} \/ main[d] = "stopAll"
-----------------------------------------------------------------------------
\* What the assumptions say of names and bounds.
LEMMA ConstantFacts ==
  /\ \A c \in Clients : c \notin Daemons /\ c # NoOne
  /\ NoOne \notin Daemons
  /\ MaxRotations \in Nat /\ MaxCommands \in Nat /\ MaxKills \in Nat
  /\ \A n \in Numbers : n \in Nat /\ n <= MaxRotations
  /\ NoToken \notin Tokens /\ Empty \notin Tokens
BY DaemonControlAssumption DEF Numbers, Tokens, NoToken, Empty

\* Type correctness of the initial state.
LEMMA TypeInit == Init => TypeOK
BY ConstantFacts DEF Init, TypeOK, Numbers, Idle, Probes

\* The main thread keeps the types.
LEMMA TypeMain ==
  ASSUME TypeOK, NEW d \in Daemons, MainThread(d)
  PROVE  TypeOK'
<1> USE ConstantFacts DEF TypeOK, aside, clientVars, heldVars, tokenVars, stopVars, fileVars,
        sharedVars, Goto, CloseListeners
<1>1. CASE TryAcquire(d) BY <1>1 DEF TryAcquire
<1>2. CASE Bind(d) BY <1>2 DEF Bind
<1>3. CASE WriteToken(d) BY <1>3 DEF WriteToken, Token, Tokens
<1>4. CASE WriteKey(d) BY <1>4 DEF WriteKey
<1>5. CASE Listen(d) BY <1>5 DEF Listen
<1>6. CASE Cleanup(d) BY <1>6 DEF Cleanup
<1>7. CASE StopAll(d) BY <1>7 DEF StopAll
<1>8. CASE CleanupAuth(d) BY <1>8 DEF CleanupAuth
<1>9. CASE CleanupHmac(d) BY <1>9 DEF CleanupHmac
<1>10. CASE Release(d) BY <1>10 DEF Release
<1>11. CASE Exit(d) BY <1>11 DEF Exit, Dies
<1> QED BY <1>1, <1>2, <1>3, <1>4, <1>5, <1>6, <1>7, <1>8, <1>9, <1>10, <1>11,
           MainThread(d) DEF MainThread

\* So do the thread of a stop command, the rotation thread and what happens to a daemon.
LEMMA TypeOthers ==
  ASSUME TypeOK, NEW d \in Daemons,
         \/ StopThread(d) \/ RotationThread(d) \/ Signal(d) \/ Kill(d)
         \/ \E n \in Numbers : Expire(d, n)
  PROVE  TypeOK'
<1> USE ConstantFacts DEF TypeOK, aside, clientVars, heldVars, tokenVars, stopVars, fileVars,
        sharedVars, threadVars, HandlerAt, RotatorAt, Accept, Goto, CloseListeners
<1>1. CASE HandlerWakes(d) BY <1>1 DEF HandlerWakes
<1>2. CASE HandlerClaims(d) BY <1>2 DEF HandlerClaims
<1>3. CASE HandlerCloses(d) BY <1>3 DEF HandlerCloses
<1>4. CASE HandlerStopsAll(d) BY <1>4 DEF HandlerStopsAll
<1>5. CASE RotateToken(d)
  <2>1. newest[d] + 1 \in Numbers
    BY <1>5 DEF RotateToken, Numbers
  <2> QED BY <1>5, <2>1 DEF RotateToken
<1>6. CASE Truncate(d) BY <1>6 DEF Truncate
<1>7. CASE Publish(d)
  <2>1. tokenFile' \in Tokens \cup {NoToken, Empty} /\ current' \in [Daemons -> Numbers]
    BY <1>7 DEF Publish, Token, Tokens
  <2> QED BY <1>7, <2>1 DEF Publish
<1>8. CASE Rollback(d) BY <1>8 DEF Rollback
<1>9. CASE Signal(d) BY <1>9 DEF Signal
<1>10. CASE Kill(d) BY <1>10 DEF Kill, Dies
<1>11. CASE \E n \in Numbers : Expire(d, n) BY <1>11 DEF Expire
<1> QED BY <1>1, <1>2, <1>3, <1>4, <1>5, <1>6, <1>7, <1>8, <1>9, <1>10, <1>11
        DEF StopThread, RotationThread

Places == Probes \cup {"idle", "spawn", "readKey", "connect", "readToken", "send", "purgeToken",
                       "purgeKey"}
ClientType == [Clients -> [cmd : Commands \cup {"none"}, at : Places]]

\* Where a move of a client leads, when the lock file is not its business.
LEMMA MoveType ==
  ASSUME client \in ClientType, NEW c \in Clients, NEW label \in Places, Move(c, label)
  PROVE  /\ client' \in ClientType
         /\ client'[c].at = label
         /\ \A e \in Clients \ {c} : client'[e] = client[e]
BY DEF ClientType, Places, Move, Idle

\* The labels that follow a probe.
LEMMA ProbeTargets ==
  ASSUME NEW c \in Clients, At(c) \in Probes
  PROVE  WhenFree(c) \cup WhenLocked(c) \subseteq Places
<1> USE DEF Places, Probes
<1>1. CASE At(c) = "find" BY <1>1 DEF WhenFree, WhenLocked
<1>2. CASE At(c) = "find again" BY <1>2 DEF WhenFree, WhenLocked
<1>3. CASE At(c) = "ready" BY <1>3 DEF WhenFree, WhenLocked
<1>4. CASE At(c) = "gone yet" BY <1>4 DEF WhenFree, WhenLocked
<1> QED BY <1>1, <1>2, <1>3, <1>4

\* Every step of a client but the first half of a probe moves it, and it does not probe then.
LEMMA ClientMoves ==
  ASSUME TypeOK, ProbesOnly, NEW c \in Clients, Client(c)
  PROVE  client' \in ClientType /\ ProbesOnly'
<1>1. client \in ClientType
  BY DEF TypeOK, ClientType, Places
<1>2. ASSUME NEW label \in Places, Move(c, label), ~probing'[c],
             \A e \in Clients \ {c} : probing'[e] = probing[e]
      PROVE  client' \in ClientType /\ ProbesOnly'
  <2>1. client' \in ClientType /\ \A e \in Clients \ {c} : client'[e] = client[e]
    BY <1>1, <1>2, MoveType
  <2> QED BY <1>2, <2>1 DEF ProbesOnly, At
<1>3. ASSUME At(c) \notin Probes, UNCHANGED probing, NEW label \in Places, Move(c, label)
      PROVE  client' \in ClientType /\ ProbesOnly'
  BY <1>2, <1>3 DEF ProbesOnly
<1> USE DEF Probes, Places
<1>4. ASSUME NEW cmd \in Commands, Begin(c, cmd) PROVE client' \in ClientType /\ ProbesOnly'
  BY <1>1, <1>4 DEF Begin, ClientType, ProbesOnly, At
<1>5. CASE ProbeTakes(c)
  BY <1>1, <1>5 DEF ProbeTakes, ProbesOnly, At, TypeOK
<1>6. CASE ProbeGives(c)
  <2>1. PICK next \in WhenFree(c) : Move(c, next)
    BY <1>6 DEF ProbeGives
  <2>2. next \in Places
    BY <1>6, <2>1, ProbeTargets DEF ProbeGives, ProbesOnly
  <2>3. ~probing'[c] /\ \A e \in Clients \ {c} : probing'[e] = probing[e]
    BY <1>6 DEF ProbeGives, TypeOK
  <2> QED BY <1>2, <2>1, <2>2, <2>3
<1>7. CASE ProbeFails(c)
  <2>1. PICK next \in WhenLocked(c) : Move(c, next)
    BY <1>7 DEF ProbeFails
  <2>2. next \in Places
    BY <1>7, <2>1, ProbeTargets DEF ProbeFails
  <2> QED BY <1>2, <1>7, <2>1, <2>2 DEF ProbeFails
<1>8. ASSUME NEW d \in Daemons, Spawn(c, d) \/ Answered(c, d) \/ Unanswered(c, d)
      PROVE  client' \in ClientType /\ ProbesOnly'
  BY <1>3, <1>8 DEF Spawn, Answered, Unanswered
<1>9. CASE ReadKey(c)
  <2>1. PICK label \in {"connect", "readToken"} : Move(c, label)
    BY <1>9 DEF ReadKey
  <2> QED BY <1>3, <1>9, <2>1 DEF ReadKey
<1>10. CASE Connect(c)
  <2>1. PICK label \in {"readKey", "readToken"} : Move(c, label)
    BY <1>10 DEF Connect
  <2> QED BY <1>3, <1>10, <2>1 DEF Connect
<1>11. CASE Refused(c)
  <2>1. PICK label \in {"find", "idle"} : Move(c, label)
    BY <1>11 DEF Refused
  <2> QED BY <1>3, <1>11, <2>1 DEF Refused
<1>12. CASE ReadToken(c) \/ PurgeToken(c) \/ PurgeKey(c)
  BY <1>3, <1>12 DEF ReadToken, PurgeToken, PurgeKey
<1> QED BY <1>4, <1>5, <1>6, <1>7, <1>8, <1>9, <1>10, <1>11, <1>12 DEF Client

\* The steps of a client keep the types of everything else.
LEMMA TypeClient ==
  ASSUME TypeOK, ProbesOnly, NEW c \in Clients, Client(c)
  PROVE  TypeOK' /\ ProbesOnly'
<1>1. client' \in ClientType /\ ProbesOnly'
  BY ClientMoves
<1> USE ConstantFacts, <1>1 DEF TypeOK, ClientType, Places, heldVars, tokenVars, stopVars,
        fileVars, sharedVars, threadVars, Forget
<1>2. ASSUME NEW cmd \in Commands, Begin(c, cmd) PROVE TypeOK'
  BY <1>2 DEF Begin
<1>3. CASE ProbeTakes(c) BY <1>3 DEF ProbeTakes
<1>4. CASE ProbeGives(c) BY <1>4 DEF ProbeGives
<1>5. CASE ProbeFails(c) BY <1>5 DEF ProbeFails
<1>6. ASSUME NEW d \in Daemons, Spawn(c, d) PROVE TypeOK'
  BY <1>6 DEF Spawn, Goto
<1>7. ASSUME NEW d \in Daemons, Answered(c, d) PROVE TypeOK'
  <2>1. handler' \in [Daemons -> {"none", "asked", "cleanup", "listeners", "stopAll", "done"}]
    <3>1. UNCHANGED handler \/ handler' = [handler EXCEPT ![d] = IF @ = "none" THEN "asked" ELSE @]
      BY <1>7 DEF Answered
    <3> QED BY <3>1
  <2> QED BY <1>7, <2>1 DEF Answered
<1>8. ASSUME NEW d \in Daemons, Unanswered(c, d) PROVE TypeOK'
  BY <1>8 DEF Unanswered
<1>9. CASE ReadKey(c) BY <1>9 DEF ReadKey
<1>10. CASE Connect(c) BY <1>10 DEF Connect
<1>11. CASE Refused(c) BY <1>11 DEF Refused
<1>12. CASE ReadToken(c) BY <1>12 DEF ReadToken
<1>13. CASE PurgeToken(c) BY <1>13 DEF PurgeToken
<1>14. CASE PurgeKey(c) BY <1>14 DEF PurgeKey
<1> QED BY <1>2, <1>3, <1>4, <1>5, <1>6, <1>7, <1>8, <1>9, <1>10, <1>11, <1>12, <1>13, <1>14
        DEF Client

\* The daemon's own steps move no client.
LEMMA ClientsStand ==
  ASSUME NEW d \in Daemons,
         \/ MainThread(d) \/ StopThread(d) \/ RotationThread(d) \/ Signal(d) \/ Kill(d)
         \/ \E n \in Numbers : Expire(d, n)
  PROVE  UNCHANGED clientVars
BY DEF MainThread, TryAcquire, Bind, WriteToken, WriteKey, Listen, Cleanup, StopAll, CleanupAuth,
       CleanupHmac, Release, Exit, StopThread, HandlerWakes, HandlerClaims, HandlerCloses,
       HandlerStopsAll, RotationThread, RotateToken, Truncate, Publish, Rollback, Signal, Kill,
       Expire, aside

\* Type correctness for any number of daemons and clients.
THEOREM TypeCorrect == Spec => [](TypeOK /\ ProbesOnly)
<1>1. Init => TypeOK /\ ProbesOnly
  BY TypeInit DEF Init, ProbesOnly
<1>2. TypeOK /\ ProbesOnly /\ [Next]_vars => TypeOK' /\ ProbesOnly'
  <2> SUFFICES ASSUME TypeOK, ProbesOnly, [Next]_vars PROVE TypeOK' /\ ProbesOnly'
    OBVIOUS
  <2>1. ASSUME NEW d \in Daemons, MainThread(d) PROVE TypeOK' /\ ProbesOnly'
    <3>1. UNCHANGED clientVars
      BY <2>1, ClientsStand
    <3> QED BY <2>1, <3>1, TypeMain DEF ProbesOnly, clientVars, At
  <2>2. ASSUME NEW d \in Daemons,
               \/ StopThread(d) \/ RotationThread(d) \/ Signal(d) \/ Kill(d)
               \/ \E n \in Numbers : Expire(d, n)
        PROVE  TypeOK' /\ ProbesOnly'
    <3>1. UNCHANGED clientVars
      BY <2>2, ClientsStand
    <3> QED BY <2>2, <3>1, TypeOthers DEF ProbesOnly, clientVars, At
  <2>3. ASSUME NEW c \in Clients, Client(c) PROVE TypeOK' /\ ProbesOnly'
    BY <2>3, TypeClient
  <2>4. CASE UNCHANGED vars
    BY <2>4 DEF vars, sharedVars, fileVars, threadVars, stopVars, tokenVars, aside, clientVars,
               heldVars, TypeOK, ProbesOnly, At
  <2> QED BY <2>1, <2>2, <2>3, <2>4 DEF Next
<1> QED BY <1>1, <1>2, PTL DEF Spec
-----------------------------------------------------------------------------
\* The lock of a daemon or of a client is taken only when it is free and given back only by
\* its owner.
LEMMA OwnershipKept ==
  ASSUME TypeOK, Ownership, [Next]_vars
  PROVE  Ownership'
<1> USE ConstantFacts DEF TypeOK, Ownership, Owning, Goto
<1>1. ASSUME NEW d \in Daemons, MainThread(d) PROVE Ownership'
  <2>0. UNCHANGED probing
    BY <1>1, ClientsStand DEF clientVars
  <2>1. CASE TryAcquire(d) BY <2>0, <2>1 DEF TryAcquire
  <2>2. CASE Release(d) BY <2>0, <2>2 DEF Release
  <2>3. CASE Exit(d) BY <2>0, <2>3 DEF Exit, Dies
  <2>4. CASE \/ Bind(d) \/ WriteToken(d) \/ WriteKey(d) \/ Listen(d) \/ Cleanup(d) \/ StopAll(d)
             \/ CleanupAuth(d) \/ CleanupHmac(d)
    <3>1. /\ UNCHANGED lock /\ Owning(d)
          /\ \A e \in Daemons \ {d} : main'[e] = main[e]
      BY <2>4 DEF Bind, WriteToken, WriteKey, Listen, Cleanup, StopAll, CleanupAuth, CleanupHmac,
                  sharedVars
    <3> QED BY <2>0, <3>1
  <2> QED BY <1>1, <2>1, <2>2, <2>3, <2>4 DEF MainThread
<1>2. ASSUME NEW d \in Daemons, Kill(d) PROVE Ownership'
  BY <1>2 DEF Kill, Dies, clientVars
<1>3. ASSUME NEW d \in Daemons,
             StopThread(d) \/ RotationThread(d) \/ Signal(d) \/ \E n \in Numbers : Expire(d, n)
      PROVE  Ownership'
  <2>1. UNCHANGED <<lock, main, probing>>
    BY <1>3 DEF StopThread, HandlerWakes, HandlerClaims, HandlerCloses, HandlerStopsAll,
          RotationThread, RotateToken, Truncate, Publish, Rollback, Signal, Expire, sharedVars,
          threadVars, aside, clientVars
  <2> QED BY <2>1
<1>4. ASSUME NEW c \in Clients, Client(c) PROVE Ownership'
  <2>1. CASE ProbeTakes(c) BY <2>1 DEF ProbeTakes, threadVars
  <2>2. CASE ProbeGives(c) BY <2>2 DEF ProbeGives, threadVars
  <2>3. ASSUME NEW d \in Daemons, Spawn(c, d) PROVE Ownership'
    BY <2>3 DEF Spawn, sharedVars
  <2>4. CASE UNCHANGED <<lock, main, probing>>
    BY <2>4
  <2> QED BY <1>4, <2>1, <2>2, <2>3, <2>4 DEF Client, Begin, ProbeFails, Answered, Unanswered,
             ReadKey, Connect, Refused, ReadToken, PurgeToken, PurgeKey, sharedVars, threadVars
<1>5. CASE UNCHANGED vars
  BY <1>5 DEF vars, sharedVars, threadVars, aside, clientVars
<1> QED BY <1>1, <1>2, <1>3, <1>4, <1>5 DEF Next

\* Of any number of daemons that start, are stopped, crash and are probed, one at a time
\* owns the lock and what goes with it.
THEOREM OneDaemonOnly == Spec => []OneDaemon
<1>1. Init => Ownership
  BY DEF Init, Ownership, Owning
<1>2. TypeOK /\ Ownership /\ [Next]_vars => Ownership'
  BY OwnershipKept
<1>3. Ownership => OneDaemon
  BY DEF Ownership, OneDaemon
<1> QED BY <1>1, <1>2, <1>3, TypeCorrect, PTL DEF Spec

\* Only the main thread of a daemon that owns the lock moves as it changes the files.
LEMMA MainChangesFiles ==
  ASSUME TypeOK, [Next]_vars, NEW d \in Daemons, main'[d] # main[d], fileVars' # fileVars
  PROVE  Owning(d)
<1>1. CASE MainThread(d)
  BY <1>1 DEF MainThread, TryAcquire, Bind, WriteToken, WriteKey, Listen, Cleanup, StopAll,
              CleanupAuth, CleanupHmac, Release, Exit, Owning
<1>2. ASSUME NEW e \in Daemons, e # d, MainThread(e) PROVE FALSE
  <2>1. \E l : main' = [main EXCEPT ![e] = l]
    BY <1>2 DEF MainThread, TryAcquire, Bind, WriteToken, WriteKey, Listen, Cleanup, StopAll,
                CleanupAuth, CleanupHmac, Release, Exit, Dies, Goto
  <2> QED BY <1>2, <2>1 DEF TypeOK
<1>3. ASSUME NEW e \in Daemons,
             \/ StopThread(e) \/ RotationThread(e) \/ Signal(e) \/ Kill(e)
             \/ \E n \in Numbers : Expire(e, n)
      PROVE  FALSE
  <2>1. CASE Kill(e)
    BY <2>1 DEF Kill
  <2>2. CASE UNCHANGED main
    BY <2>2
  <2> QED BY <1>3, <2>1, <2>2 DEF StopThread, HandlerWakes, HandlerClaims, HandlerCloses,
          HandlerStopsAll, RotationThread, RotateToken, Truncate, Publish, Rollback, Signal, Expire,
          threadVars
<1>4. ASSUME NEW c \in Clients, Client(c) PROVE FALSE
  <2>1. ASSUME NEW e \in Daemons, Spawn(c, e) PROVE FALSE
    BY <2>1 DEF Spawn
  <2>2. CASE UNCHANGED main
    BY <2>2
  <2> QED BY <1>4, <2>1, <2>2 DEF Client, Begin, ProbeTakes, ProbeGives, ProbeFails, Answered,
             Unanswered, ReadKey, Connect, Refused, ReadToken, PurgeToken, PurgeKey, threadVars
<1> QED BY <1>1, <1>2, <1>3, <1>4 DEF Next, vars, threadVars

\* A daemon publishes and removes the files only while no other one sets up or
\* serves, whatever clients start, stop, probe and kill.
THEOREM FilesOfOne == Spec => FilesHaveOneOwner
<1>1. /\ Init => Ownership
      /\ TypeOK /\ Ownership /\ [Next]_vars => Ownership'
  BY OwnershipKept DEF Init, Ownership, Owning
<1>2. ASSUME TypeOK, Ownership, [Next]_vars
      PROVE  [\A d, e \in Daemons :
                d # e /\ main'[d] # main[d] /\ fileVars' # fileVars => ~ Owning(e)]_vars
  <2> SUFFICES ASSUME NEW d \in Daemons, NEW e \in Daemons,
                      d # e, main'[d] # main[d], fileVars' # fileVars
               PROVE  ~ Owning(e)
    OBVIOUS
  <2>1. Owning(d)
    BY <1>2, MainChangesFiles
  <2> QED BY <1>2, <2>1 DEF Ownership
<1> QED BY <1>1, <1>2, TypeCorrect, PTL DEF Spec, FilesHaveOneOwner

-----------------------------------------------------------------------------
\* What of the state the tokens depend on.
tokenState == <<main, rotator, tokenVars, tokenFile, myToken>>

\* Steps that have nothing to do with tokens.
LEMMA TokensStand ==
  ASSUME Rotation, HeldHonoured, UNCHANGED tokenState
  PROVE  Rotation' /\ HeldHonoured'
BY DEF tokenState, tokenVars, Rotation, HeldHonoured

\* The life of a daemon goes on, and the authenticator and the tokens of clients stay.
LEMMA TokensOfMain ==
  ASSUME TypeOK, Rotation, HeldHonoured, NEW d \in Daemons, MainThread(d) \/ Kill(d)
  PROVE  Rotation' /\ HeldHonoured'
<1>0. UNCHANGED <<tokenVars, myToken>>
  BY DEF MainThread, TryAcquire, Bind, WriteToken, WriteKey, Listen, Cleanup, StopAll, CleanupAuth,
         CleanupHmac, Release, Exit, Kill, aside, clientVars, heldVars
<1>1. /\ \A e \in Daemons \ {d} : main'[e] = main[e] /\ rotator'[e] = rotator[e]
      /\ main[d] = "gone" => main'[d] = "gone"
      /\ \/ rotator'[d] = rotator[d]
         \/ main[d] = "listen" /\ rotator'[d] = "idle"
         \/ main'[d] = "gone" /\ rotator'[d] = "none"
  BY DEF MainThread, TryAcquire, Bind, WriteToken, WriteKey, Listen, Cleanup, StopAll, CleanupAuth,
         CleanupHmac, Release, Exit, Kill, Dies, Goto, Alive, TypeOK
<1>2. tokenFile' \in {tokenFile, Token(d, current[d]), NoToken}
  BY DEF MainThread, TryAcquire, Bind, WriteToken, WriteKey, Listen, Cleanup, StopAll, CleanupAuth,
         CleanupHmac, Release, Exit, Kill, Dies, fileVars
<1>3. \A e \in Daemons : main'[e] # "gone" => main[e] # "gone"
  BY <1>1
<1>4. HeldHonoured'
  <2> SUFFICES ASSUME NEW c \in Clients, myToken'[c] \in Tokens, main'[myToken'[c][1]] # "gone"
               PROVE  accepted'[myToken'[c][1]][myToken'[c][2]] # "no"
    BY DEF HeldHonoured
  <2>1. myToken[c] = myToken'[c] /\ accepted' = accepted /\ myToken[c][1] \in Daemons
    BY <1>0 DEF tokenVars, Tokens
  <2> QED BY <1>3, <2>1 DEF HeldHonoured
<1>5. Rotation'
  <2>1. current' = current /\ newest' = newest /\ accepted' = accepted
    BY <1>0 DEF tokenVars
  <2>2. tokenFile' \in Tokens => tokenFile'[2] = current[tokenFile'[1]]
    BY <1>2, ConstantFacts DEF Rotation, Token
  <2>3. \A e \in Daemons \ {d} : main'[e] = main[e] /\ rotator'[e] = rotator[e]
    BY <1>1
  <2>4. main'[d] \in {"off", "boot", "bind", "writeToken", "writeKey", "listen"} => rotator'[d] = "none"
    BY DEF MainThread, TryAcquire, Bind, WriteToken, WriteKey, Listen, Cleanup, StopAll, CleanupAuth,
           CleanupHmac, Release, Exit, Kill, Dies, Goto, TypeOK, Rotation
  <2>5. /\ main'[d] # "gone" /\ rotator'[d] \in {"none", "idle"} => accepted[d][current[d]] = "ever"
        /\ rotator'[d] \in {"publish", "write", "failed"} => rotator'[d] = rotator[d]
    BY <1>1 DEF Rotation
  <2> QED BY <2>1, <2>2, <2>3, <2>4, <2>5 DEF Rotation
<1> QED BY <1>4, <1>5

\* What the authenticator knows after it has taken a new token for an old one.
LEMMA AcceptEffect ==
  ASSUME TypeOK, NEW d \in Daemons, NEW new \in Numbers, NEW old \in Numbers, new # old,
         Accept(d, new, old)
  PROVE  /\ accepted'[d][new] = "ever" /\ accepted'[d][old] = "grace"
         /\ \A n \in Numbers \ {new, old} : accepted'[d][n] = accepted[d][n]
         /\ \A e \in Daemons \ {d} : accepted'[e] = accepted[e]
BY DEF TypeOK, Accept

\* A rotation, whatever of it fails, keeps the token in the file and the tokens of clients
\* accepted.
LEMMA TokensOfRotator ==
  ASSUME TypeOK, Rotation, HeldHonoured, NEW d \in Daemons, RotationThread(d)
  PROVE  Rotation' /\ HeldHonoured'
<1>0. UNCHANGED <<main, myToken>>
  BY DEF RotationThread, RotateToken, Truncate, Publish, Rollback, threadVars, aside, clientVars,
         heldVars
<1>1. \A e \in Daemons : current[e] \in Numbers /\ newest[e] \in Numbers
  BY DEF TypeOK
<1>2. rotator[d] # "none" /\ main[d] \notin {"off", "boot", "bind", "writeToken", "writeKey", "listen"}
  BY DEF RotationThread, RotateToken, Truncate, Publish, Rollback, RotatorAt, Rotation
<1>3. ASSUME \A e \in Daemons, n \in Numbers : accepted[e][n] # "no" => accepted'[e][n] # "no"
      PROVE  HeldHonoured'
  <2> SUFFICES ASSUME NEW c \in Clients, myToken'[c] \in Tokens, main'[myToken'[c][1]] # "gone"
               PROVE  accepted'[myToken'[c][1]][myToken'[c][2]] # "no"
    BY DEF HeldHonoured
  <2>1. myToken[c] = myToken'[c] /\ myToken[c][1] \in Daemons /\ myToken[c][2] \in Numbers
    BY <1>0 DEF Tokens
  <2> QED BY <1>0, <1>3, <2>1 DEF HeldHonoured
<1>4. /\ \A e \in Daemons \ {d} : rotator'[e] = rotator[e]
      /\ rotator'[d] # "none"
  BY DEF RotationThread, RotateToken, Truncate, Publish, Rollback, RotatorAt, TypeOK
<1>5. CASE RotateToken(d)
  <2>0. newest[d] + 1 \in Numbers
    BY <1>1, <1>5, ConstantFacts DEF RotateToken, Numbers
  <2>1. /\ rotator[d] = "idle" /\ rotator'[d] = "publish"
        /\ newest' = [newest EXCEPT ![d] = @ + 1]
        /\ Accept(d, newest[d] + 1, current[d])
        /\ UNCHANGED <<current, tokenFile>>
    BY <1>5 DEF RotateToken, RotatorAt, TypeOK, fileVars
  <2>2. current[d] < newest[d] + 1
    BY <1>1, ConstantFacts DEF Rotation, Numbers
  <2>3. /\ accepted'[d][newest[d] + 1] = "ever" /\ accepted'[d][current[d]] = "grace"
        /\ \A n \in Numbers \ {newest[d] + 1, current[d]} : accepted'[d][n] = accepted[d][n]
        /\ \A e \in Daemons \ {d} : accepted'[e] = accepted[e]
    BY <1>1, <2>0, <2>1, <2>2, AcceptEffect, ConstantFacts
  <2>4. \A e \in Daemons : /\ newest'[e] = IF e = d THEN newest[d] + 1 ELSE newest[e]
                           /\ current'[e] = current[e]
    BY <2>1 DEF TypeOK
  <2>5. HeldHonoured'
    BY <1>3, <2>3
  <2>6. Rotation'
    <3>1. \A e \in Daemons : current'[e] <= newest'[e]
      BY <1>1, <2>2, <2>4, ConstantFacts DEF Rotation
    <3>2. tokenFile' \in Tokens => tokenFile'[2] = current'[tokenFile'[1]]
      BY <2>1 DEF Rotation
    <3> QED BY <1>0, <1>2, <1>4, <2>1, <2>2, <2>3, <2>4, <3>1, <3>2 DEF Rotation
  <2> QED BY <2>5, <2>6
<1>6. CASE Truncate(d)
  <2>1. /\ rotator[d] = "publish" /\ rotator'[d] \in {"write", "failed"}
        /\ tokenFile' \in {tokenFile, Empty}
        /\ UNCHANGED <<current, newest, accepted>>
    BY <1>6 DEF Truncate, RotatorAt, TypeOK, tokenVars
  <2>2. HeldHonoured'
    BY <1>3, <2>1
  <2>3. Rotation'
    BY <1>0, <1>2, <1>4, <2>1, ConstantFacts DEF Rotation
  <2> QED BY <2>2, <2>3
<1>7. CASE Publish(d)
  <2>1. /\ rotator[d] = "write"
        /\ \/ /\ rotator'[d] = "idle" /\ tokenFile' = Token(d, newest[d])
              /\ current' = [current EXCEPT ![d] = newest[d]]
           \/ rotator'[d] = "failed" /\ UNCHANGED <<tokenFile, current>>
        /\ UNCHANGED <<newest, accepted>>
    BY <1>7 DEF Publish, RotatorAt, TypeOK
  <2>2. HeldHonoured'
    BY <1>3, <2>1
  <2>3. CASE rotator'[d] = "failed"
    <3>1. Rotation'
      BY <1>0, <1>2, <1>4, <2>1, <2>3 DEF Rotation
    <3> QED BY <2>2, <3>1
  <2>4. CASE rotator'[d] = "idle"
    <3>1. /\ tokenFile' = Token(d, newest[d]) /\ current'[d] = newest[d]
          /\ \A e \in Daemons \ {d} : current'[e] = current[e]
      BY <2>1, <2>4 DEF TypeOK
    <3>2. Rotation'
      BY <1>0, <1>1, <1>2, <1>4, <2>1, <2>4, <3>1, ConstantFacts DEF Rotation, Token
    <3> QED BY <2>2, <3>2
  <2> QED BY <2>1, <2>3, <2>4
<1>8. CASE Rollback(d)
  <2>1. /\ rotator[d] = "failed" /\ rotator'[d] = "idle"
        /\ Accept(d, current[d], newest[d])
        /\ UNCHANGED <<current, newest, tokenFile>>
    BY <1>8 DEF Rollback, RotatorAt, TypeOK, fileVars
  <2>2. current[d] # newest[d]
    BY <1>1, <2>1, ConstantFacts DEF Rotation
  <2>3. /\ accepted'[d][current[d]] = "ever" /\ accepted'[d][newest[d]] = "grace"
        /\ \A n \in Numbers \ {newest[d], current[d]} : accepted'[d][n] = accepted[d][n]
        /\ \A e \in Daemons \ {d} : accepted'[e] = accepted[e]
    BY <1>1, <2>1, <2>2, AcceptEffect
  <2>4. HeldHonoured'
    BY <1>3, <2>3
  <2>5. Rotation'
    BY <1>0, <1>2, <1>4, <2>1, <2>3 DEF Rotation
  <2> QED BY <2>4, <2>5
<1> QED BY <1>5, <1>6, <1>7, <1>8 DEF RotationThread

\* A token expires only between rotations, when it is not the current one and nobody holds it.
LEMMA TokensExpire ==
  ASSUME TypeOK, Rotation, HeldHonoured, NEW d \in Daemons, NEW n \in Numbers, Expire(d, n)
  PROVE  Rotation' /\ HeldHonoured'
<1>1. /\ main[d] # "gone" /\ rotator[d] \in {"idle", "none"} /\ accepted[d][n] = "grace"
      /\ \A c \in Clients : myToken[c] # Token(d, n)
      /\ accepted' = [accepted EXCEPT ![d][n] = "no"]
      /\ UNCHANGED <<main, rotator, current, newest, tokenFile, myToken>>
  BY DEF Expire, Alive, fileVars, threadVars, aside, clientVars, heldVars
<1>2. n # current[d]
  BY <1>1 DEF Rotation
<1>3. /\ \A k \in Numbers \ {n} : accepted'[d][k] = accepted[d][k]
      /\ \A e \in Daemons \ {d} : accepted'[e] = accepted[e]
  BY <1>1 DEF TypeOK
<1>4. Rotation'
  BY <1>1, <1>2, <1>3 DEF Rotation, TypeOK
<1>5. HeldHonoured'
  <2> SUFFICES ASSUME NEW c \in Clients, myToken'[c] \in Tokens, main'[myToken'[c][1]] # "gone"
               PROVE  accepted'[myToken'[c][1]][myToken'[c][2]] # "no"
    BY DEF HeldHonoured
  <2>1. myToken[c] = myToken'[c] /\ myToken[c][1] \in Daemons /\ myToken[c][2] \in Numbers
    BY <1>1 DEF Tokens
  <2>2. ~(myToken[c][1] = d /\ myToken[c][2] = n)
    BY <1>1 DEF Token, Tokens
  <2> QED BY <1>1, <1>3, <2>1, <2>2 DEF HeldHonoured
<1> QED BY <1>4, <1>5

\* The token in the file is accepted unless its daemon is gone for good.
LEMMA FileHonoured ==
  ASSUME TypeOK, Rotation, tokenFile \in Tokens, main[tokenFile[1]] # "gone"
  PROVE  accepted[tokenFile[1]][tokenFile[2]] # "no"
<1>1. PICK d \in Daemons : d = tokenFile[1] /\ tokenFile[2] = current[d]
  BY DEF Rotation, Tokens
<1>2. rotator[d] \in {"none", "idle"} \/ rotator[d] \in {"publish", "write", "failed"}
  BY DEF TypeOK
<1>3. accepted[d][current[d]] # "no"
  BY <1>1, <1>2 DEF Rotation
<1> QED BY <1>1, <1>3

\* A client gets its token from the file.
LEMMA TokensOfClient ==
  ASSUME TypeOK, Rotation, HeldHonoured, NEW c \in Clients, Client(c)
  PROVE  Rotation' /\ HeldHonoured'
<1>1. CASE ReadToken(c)
  <2>1. /\ myToken' = [myToken EXCEPT ![c] = tokenFile]
        /\ UNCHANGED <<main, rotator, tokenVars, tokenFile>>
    BY <1>1 DEF ReadToken, fileVars, threadVars
  <2>2. tokenFile \in Tokens /\ main[tokenFile[1]] # "gone"
          => accepted[tokenFile[1]][tokenFile[2]] # "no"
    BY FileHonoured
  <2>3. HeldHonoured'
    BY <2>1, <2>2 DEF HeldHonoured, tokenVars, TypeOK
  <2>4. Rotation'
    BY <2>1 DEF Rotation, tokenVars
  <2> QED BY <2>3, <2>4
<1>2. ASSUME NEW d \in Daemons, Spawn(c, d) PROVE Rotation' /\ HeldHonoured'
  <2>1. /\ main[d] = "off" /\ main' = [main EXCEPT ![d] = "boot"]
        /\ UNCHANGED <<rotator, tokenVars, tokenFile, myToken>>
    BY <1>2 DEF Spawn, Goto, fileVars, heldVars
  <2>2. HeldHonoured'
    BY <2>1 DEF HeldHonoured, tokenVars, TypeOK, Tokens
  <2>3. Rotation'
    BY <2>1 DEF Rotation, tokenVars, TypeOK
  <2> QED BY <2>2, <2>3
<1>3. ASSUME NEW d \in Daemons, Answered(c, d) \/ Unanswered(c, d)
      PROVE  Rotation' /\ HeldHonoured'
  <2>1. /\ myToken' = [myToken EXCEPT ![c] = NoToken]
        /\ UNCHANGED <<main, rotator, tokenVars, tokenFile>>
    BY <1>3 DEF Answered, Unanswered, Forget, fileVars, threadVars
  <2>2. HeldHonoured'
    BY <2>1, ConstantFacts DEF HeldHonoured, tokenVars, TypeOK
  <2>3. Rotation'
    BY <2>1 DEF Rotation, tokenVars
  <2> QED BY <2>2, <2>3
<1>4. CASE PurgeToken(c)
  <2>1. tokenFile' = NoToken /\ UNCHANGED <<main, rotator, tokenVars, myToken>>
    BY <1>4 DEF PurgeToken, threadVars, heldVars
  <2> QED BY <2>1, ConstantFacts DEF Rotation, HeldHonoured, tokenVars
<1>5. CASE UNCHANGED tokenState
  BY <1>5, TokensStand
<1> QED BY <1>1, <1>2, <1>3, <1>4, <1>5 DEF Client, Begin, ProbeTakes, ProbeGives, ProbeFails,
           ReadKey, Connect, Refused, PurgeKey, tokenState, fileVars, threadVars, heldVars

\* For any number of daemons, clients, rotations and failures of a rotation: a token a living
\* daemon has published is accepted by it.
THEOREM PublishedTokensHonoured == Spec => []TokensHonoured
<1>1. Init => Rotation /\ HeldHonoured
  BY ConstantFacts DEF Init, Rotation, HeldHonoured, Numbers
<1>2. TypeOK /\ Rotation /\ HeldHonoured /\ [Next]_vars => Rotation' /\ HeldHonoured'
  <2> SUFFICES ASSUME TypeOK, Rotation, HeldHonoured, [Next]_vars
               PROVE  Rotation' /\ HeldHonoured'
    OBVIOUS
  <2>1. ASSUME NEW d \in Daemons, StopThread(d) \/ Signal(d) PROVE UNCHANGED tokenState
    BY <2>1 DEF StopThread, HandlerWakes, HandlerClaims, HandlerCloses, HandlerStopsAll, Signal,
                tokenState, fileVars, aside, clientVars, heldVars
  <2>2. UNCHANGED vars => UNCHANGED tokenState
    BY DEF vars, tokenState, fileVars, threadVars, aside, clientVars, heldVars
  <2> QED BY <2>1, <2>2, TokensStand, TokensOfMain, TokensOfRotator, TokensExpire, TokensOfClient
          DEF Next
<1>3. TypeOK /\ Rotation /\ HeldHonoured => TokensHonoured
  BY FileHonoured DEF HeldHonoured, TokensHonoured, Honours, Alive
<1> QED BY <1>1, <1>2, <1>3, TypeCorrect, PTL DEF Spec
-----------------------------------------------------------------------------
\* What of the state the cleanup depends on.
cleanupState == <<main, handler, cleanedUp, stopped>>

\* The cleanup of the main thread.
LEMMA ClaimedByMain ==
  ASSUME TypeOK, Claimed, NEW d \in Daemons, MainThread(d) \/ Kill(d)
  PROVE  Claimed'
<1> USE DEF TypeOK, Claimed, Goto, stopVars
<1>1. CASE TryAcquire(d) BY <1>1 DEF TryAcquire
<1>2. CASE Bind(d) BY <1>2 DEF Bind
<1>3. CASE WriteToken(d) \/ WriteKey(d) \/ Listen(d) BY <1>3 DEF WriteToken, WriteKey, Listen
<1>4. CASE Cleanup(d) BY <1>4 DEF Cleanup
<1>5. CASE StopAll(d) BY <1>5 DEF StopAll
<1>6. CASE CleanupAuth(d) BY <1>6 DEF CleanupAuth
<1>7. CASE CleanupHmac(d) BY <1>7 DEF CleanupHmac
<1>8. CASE Release(d) BY <1>8 DEF Release
<1>9. CASE Exit(d) BY <1>9 DEF Exit, Dies
<1>10. CASE Kill(d) BY <1>10 DEF Kill, Dies
<1> QED BY <1>1, <1>2, <1>3, <1>4, <1>5, <1>6, <1>7, <1>8, <1>9, <1>10 DEF MainThread

\* The cleanup of the thread of a stop command.
LEMMA ClaimedByHandler ==
  ASSUME TypeOK, Claimed, NEW d \in Daemons, StopThread(d)
  PROVE  Claimed'
<1> USE DEF TypeOK, Claimed, HandlerAt, stopVars
<1>1. CASE HandlerWakes(d) BY <1>1 DEF HandlerWakes
<1>2. CASE HandlerClaims(d) BY <1>2 DEF HandlerClaims
<1>3. CASE HandlerCloses(d) BY <1>3 DEF HandlerCloses
<1>4. CASE HandlerStopsAll(d) BY <1>4 DEF HandlerStopsAll
<1> QED BY <1>1, <1>2, <1>3, <1>4 DEF StopThread

\* For any number of clients that stop any number of daemons: no two threads of a daemon
\* leave the sessions to each other.
THEOREM CleanupIsDone == Spec => []StoppedOrBeingStopped
<1>1. Init => Claimed
  BY DEF Init, Claimed
<1>2. TypeOK /\ Claimed /\ [Next]_vars => Claimed'
  <2> SUFFICES ASSUME TypeOK, Claimed, [Next]_vars PROVE Claimed'
    OBVIOUS
  <2>1. ASSUME UNCHANGED cleanupState PROVE Claimed'
    BY <2>1 DEF cleanupState, Claimed
  <2>2. ASSUME NEW d \in Daemons,
               RotationThread(d) \/ Signal(d) \/ \E n \in Numbers : Expire(d, n)
        PROVE  Claimed'
    BY <2>1, <2>2 DEF RotationThread, RotateToken, Truncate, Publish, Rollback, Signal, Expire,
          cleanupState, stopVars, threadVars
  <2>3. ASSUME NEW c \in Clients, Client(c) PROVE Claimed'
    <3>1. ASSUME NEW d \in Daemons, Spawn(c, d) PROVE Claimed'
      BY <3>1 DEF Spawn, Goto, stopVars, Claimed, TypeOK
    <3>2. ASSUME NEW d \in Daemons, Answered(c, d) PROVE Claimed'
      <4>1. UNCHANGED <<main, cleanedUp, stopped>>
        BY <3>2 DEF Answered, stopVars
      <4>2. \A e \in Daemons : handler[e] \in {"listeners", "stopAll"} => handler'[e] = handler[e]
        <5>1. \/ UNCHANGED handler
              \/ handler' = [handler EXCEPT ![d] = IF @ = "none" THEN "asked" ELSE @]
          BY <3>2 DEF Answered
        <5> QED BY <5>1 DEF TypeOK
      <4> QED BY <4>1, <4>2 DEF Claimed
    <3>3. CASE UNCHANGED cleanupState
      BY <2>1, <3>3
    <3> QED BY <2>3, <3>1, <3>2, <3>3 DEF Client, Begin, ProbeTakes, ProbeGives, ProbeFails,
               Unanswered, ReadKey, Connect, Refused, ReadToken, PurgeToken, PurgeKey,
               cleanupState, threadVars, stopVars
  <2>4. CASE UNCHANGED vars
    BY <2>1, <2>4 DEF vars, threadVars, stopVars, cleanupState
  <2> QED BY <2>2, <2>3, <2>4, ClaimedByMain, ClaimedByHandler DEF Next
<1>3. Claimed => StoppedOrBeingStopped
  BY DEF Claimed, StoppedOrBeingStopped
<1> QED BY <1>1, <1>2, <1>3, TypeCorrect, PTL DEF Spec
=============================================================================
