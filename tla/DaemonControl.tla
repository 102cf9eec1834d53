---------------------------- MODULE DaemonControl ----------------------------
(***************************************************************************)
(* Starting, stopping and using the daemon on one machine, on Unix and in  *)
(* token mode: the lock file that admits one daemon (ipc/single_instance), *)
(* the files through which a daemon gives its clients the current token    *)
(* and the key (ipc/shm), the main thread of the daemon                    *)
(* (daemon/lifecycle, daemon/server), the thread that handles a stop       *)
(* command, the thread that rotates the token, and the commands of clients *)
(* (client/daemonctl, client/connection).                                  *)
(*                                                                         *)
(* Processes share the lock, the port and the two files; each system call  *)
(* on one of them is a step.  A token is named by the daemon that made it  *)
(* and its number, a key by its daemon.                                    *)
(***************************************************************************)
EXTENDS Integers, FiniteSets

CONSTANTS
  Daemons,       \* processes that can be started; none runs twice
  Clients,       \* processes of the command line
  Commands,      \* what clients do: a subset of {"start", "stop", "call"}
  MaxCommands,   \* bound: commands given by all clients
  MaxRotations,  \* bound: rotations a daemon tries
  MaxKills       \* bound: daemons that are killed or crash

NoOne == "no one"
NoToken == <<NoOne, 0>>   \* there is no token file
Empty == <<NoOne, 1>>     \* it was truncated and not yet written

ASSUME DaemonControlAssumption ==
  /\ Daemons \cap Clients = {}
  /\ NoOne \notin Daemons \cup Clients
  /\ Commands \subseteq {"start", "stop", "call"}
  /\ {MaxCommands, MaxRotations, MaxKills} \subseteq Nat

VARIABLES
  lock,       \* who holds the flock on the lock file
  port,       \* the daemon whose socket is bound to the token port
  tokenFile,  \* daemon.auth
  keyFile,    \* daemon.hmac
  main,       \* where the main thread of each daemon is
  handler,    \* where its thread for a stop command is
  rotator,    \* where its rotation thread is
  shutdown,   \* _shutdown_event
  cleanedUp,  \* _cleaned_up
  stopped,    \* stop_all has run to its end
  current,    \* _auth_token
  newest,     \* the last token generated
  accepted,   \* TokenAuthenticator._tokens: for ever, for the grace period or not
  client,     \* the command each client carries out, and where it is
  probing,    \* is_locked has taken the lock and not yet given it back
  conn,       \* the daemon it is connected to
  myKey,      \* the key it has read
  myToken,    \* the token it has read
  commands,   \* commands given so far
  kills

sharedVars == <<lock, port>>
fileVars == <<tokenFile, keyFile>>
stopVars == <<shutdown, cleanedUp, stopped>>
threadVars == <<main, handler, rotator, stopVars>>
tokenVars == <<current, newest, accepted>>
heldVars == <<conn, myKey, myToken>>
clientVars == <<client, probing, heldVars, commands>>
aside == <<clientVars, kills>>
vars == <<sharedVars, fileVars, threadVars, tokenVars, aside>>

Numbers == 0..MaxRotations
Token(d, n) == <<d, n>>
Idle == [cmd |-> "none", at |-> "idle"]
Tokens == Daemons \X Numbers

Init ==
  /\ lock = NoOne
  /\ port = NoOne
  /\ tokenFile = NoToken
  /\ keyFile = NoOne
  /\ main = [d \in Daemons |-> "off"]
  /\ handler = [d \in Daemons |-> "none"]
  /\ rotator = [d \in Daemons |-> "none"]
  /\ shutdown = [d \in Daemons |-> FALSE]
  /\ cleanedUp = [d \in Daemons |-> FALSE]
  /\ stopped = [d \in Daemons |-> FALSE]
  /\ current = [d \in Daemons |-> 0]
  /\ newest = [d \in Daemons |-> 0]
  /\ accepted = [d \in Daemons |-> [n \in Numbers |-> IF n = 0 THEN "ever" ELSE "no"]]
  /\ client = [c \in Clients |-> Idle]
  /\ probing = [c \in Clients |-> FALSE]
  /\ conn = [c \in Clients |-> NoOne]
  /\ myKey = [c \in Clients |-> NoOne]
  /\ myToken = [c \in Clients |-> NoToken]
  /\ commands = 0
  /\ kills = 0

Alive(d) == main[d] \notin {"off", "gone"}
\* From a successful try_acquire to release.
Owning(d) == main[d] \in {"bind", "writeToken", "writeKey", "listen", "run",
                          "stopAll", "purgeToken", "purgeKey", "release"}
Goto(d, label) == main' = [main EXCEPT ![d] = label]
Listening(d) == port = d /\ main[d] \notin {"writeToken", "writeKey", "listen"}
-----------------------------------------------------------------------------
(* The main thread of a daemon.                                            *)

\* try_acquire: one flock that does not wait.  Who does not get it exits at once.
TryAcquire(d) ==
  /\ main[d] = "boot"
  /\ \/ /\ lock = NoOne
        /\ lock' = d
        /\ Goto(d, "bind")
     \/ /\ lock # NoOne
        /\ Goto(d, "gone")
        /\ UNCHANGED lock
  /\ UNCHANGED <<port, fileVars, handler, rotator, stopVars, tokenVars, aside>>

\* A port that is taken ends run() with an OSError, and main goes to its finally.
Bind(d) ==
  /\ main[d] = "bind"
  /\ \/ /\ port = NoOne
        /\ port' = d
        /\ Goto(d, "writeToken")
     \/ /\ port # NoOne
        /\ Goto(d, "purgeToken")
        /\ UNCHANGED port
  /\ UNCHANGED <<lock, fileVars, handler, rotator, stopVars, tokenVars, aside>>

\* Before listen() no client can reach the daemon, so truncating and writing is one step.
WriteToken(d) ==
  /\ main[d] = "writeToken"
  /\ tokenFile' = Token(d, current[d])
  /\ Goto(d, "writeKey")
  /\ UNCHANGED <<sharedVars, keyFile, handler, rotator, stopVars, tokenVars, aside>>

WriteKey(d) ==
  /\ main[d] = "writeKey"
  /\ keyFile' = d
  /\ Goto(d, "listen")
  /\ UNCHANGED <<sharedVars, tokenFile, handler, rotator, stopVars, tokenVars, aside>>

\* The listener accepts, the rotation thread starts, the main thread waits.
Listen(d) ==
  /\ main[d] = "listen"
  /\ Goto(d, "run")
  /\ rotator' = [rotator EXCEPT ![d] = "idle"]
  /\ UNCHANGED <<sharedVars, fileVars, handler, stopVars, tokenVars, aside>>

\* SIGTERM or SIGHUP.
Signal(d) ==
  /\ main[d] = "run" /\ ~shutdown[d]
  /\ shutdown' = [shutdown EXCEPT ![d] = TRUE]
  /\ UNCHANGED <<sharedVars, fileVars, main, handler, rotator, cleanedUp, stopped,
                 tokenVars, aside>>

CloseListeners(d) == port' = IF port = d THEN NoOne ELSE port

\* Mutant: the sessions are left to the server.stop that follows.
CleanupLeavesSessions(d) ==
  /\ main[d] = "run" /\ shutdown[d]
  /\ IF cleanedUp[d] THEN UNCHANGED <<port, cleanedUp>>
     ELSE cleanedUp' = [cleanedUp EXCEPT ![d] = TRUE] /\ CloseListeners(d)
  /\ Goto(d, "purgeToken")
  /\ UNCHANGED <<lock, fileVars, handler, rotator, shutdown, stopped, tokenVars, aside>>

\* Mutant: the lock is given up with the listeners, before the files are removed.
CleanupReleases(d) ==
  /\ main[d] = "run" /\ shutdown[d]
  /\ lock' = NoOne
  /\ IF cleanedUp[d]
     THEN Goto(d, "purgeToken") /\ UNCHANGED <<port, cleanedUp>>
     ELSE /\ cleanedUp' = [cleanedUp EXCEPT ![d] = TRUE]
          /\ CloseListeners(d)
          /\ Goto(d, "stopAll")
  /\ UNCHANGED <<fileVars, handler, rotator, shutdown, stopped, tokenVars, aside>>

\* _cleanup of the woken main thread: nothing, if the stop handler has begun it.
Cleanup(d) ==
  /\ main[d] = "run" /\ shutdown[d]
  /\ \/ /\ cleanedUp[d]
        /\ Goto(d, "purgeToken")
        /\ UNCHANGED <<port, cleanedUp>>
     \/ /\ ~cleanedUp[d]
        /\ cleanedUp' = [cleanedUp EXCEPT ![d] = TRUE]
        /\ CloseListeners(d)
        /\ Goto(d, "stopAll")
  /\ UNCHANGED <<lock, fileVars, handler, rotator, shutdown, stopped, tokenVars, aside>>

StopAll(d) ==
  /\ main[d] = "stopAll"
  /\ stopped' = [stopped EXCEPT ![d] = TRUE]
  /\ Goto(d, "purgeToken")
  /\ UNCHANGED <<sharedVars, fileVars, handler, rotator, shutdown, cleanedUp,
                 tokenVars, aside>>

\* The finally of main: cleanup_all_shm, server.stop, release.
CleanupAuth(d) ==
  /\ main[d] = "purgeToken"
  /\ tokenFile' = NoToken
  /\ Goto(d, "purgeKey")
  /\ UNCHANGED <<sharedVars, keyFile, handler, rotator, stopVars, tokenVars, aside>>

\* Then server.stop: nothing after a first _cleanup; after a failed bind there is
\* no session to stop.
CleanupHmac(d) ==
  /\ main[d] = "purgeKey"
  /\ keyFile' = NoOne
  /\ shutdown' = [shutdown EXCEPT ![d] = TRUE]
  /\ stopped' = [stopped EXCEPT ![d] = @ \/ ~cleanedUp[d]]
  /\ cleanedUp' = [cleanedUp EXCEPT ![d] = TRUE]
  /\ Goto(d, "release")
  /\ UNCHANGED <<sharedVars, tokenFile, handler, rotator, tokenVars, aside>>

Release(d) ==
  /\ main[d] = "release"
  /\ lock' = IF lock = d THEN NoOne ELSE lock
  /\ Goto(d, "exit")
  /\ UNCHANGED <<port, fileVars, handler, rotator, stopVars, tokenVars, aside>>

\* The process is gone, and with it its other threads, its lock and its sockets.
Dies(d) ==
  /\ Goto(d, "gone")
  /\ lock' = IF lock = d THEN NoOne ELSE lock
  /\ CloseListeners(d)
  /\ handler' = [handler EXCEPT ![d] = "none"]
  /\ rotator' = [rotator EXCEPT ![d] = "none"]

Exit(d) ==
  /\ main[d] = "exit"
  /\ Dies(d)
  /\ UNCHANGED <<fileVars, stopVars, tokenVars, aside>>

\* SIGKILL, of stop --force or anybody, or a crash.
Kill(d) ==
  /\ Alive(d) /\ kills < MaxKills
  /\ kills' = kills + 1
  /\ Dies(d)
  /\ UNCHANGED <<fileVars, stopVars, tokenVars, clientVars>>
-----------------------------------------------------------------------------
(* The thread that answers a stop command; it dies with the process.       *)
HandlerAt(d, from, to) ==
  /\ handler[d] = from
  /\ handler' = [handler EXCEPT ![d] = to]

\* server.stop wakes the main thread before it cleans up.
HandlerWakes(d) ==
  /\ HandlerAt(d, "asked", "cleanup")
  /\ shutdown' = [shutdown EXCEPT ![d] = TRUE]
  /\ UNCHANGED <<sharedVars, fileVars, main, rotator, cleanedUp, stopped, tokenVars,
                 aside>>

HandlerClaims(d) ==
  /\ HandlerAt(d, "cleanup", IF cleanedUp[d] THEN "done" ELSE "listeners")
  /\ cleanedUp' = [cleanedUp EXCEPT ![d] = TRUE]
  /\ UNCHANGED <<sharedVars, fileVars, main, rotator, shutdown, stopped, tokenVars,
                 aside>>

HandlerCloses(d) ==
  /\ HandlerAt(d, "listeners", "stopAll")
  /\ CloseListeners(d)
  /\ UNCHANGED <<lock, fileVars, main, rotator, stopVars, tokenVars, aside>>

HandlerStopsAll(d) ==
  /\ HandlerAt(d, "stopAll", "done")
  /\ stopped' = [stopped EXCEPT ![d] = TRUE]
  /\ UNCHANGED <<sharedVars, fileVars, main, rotator, shutdown, cleanedUp, tokenVars,
                 aside>>
-----------------------------------------------------------------------------
(* Rotating the token (daemon/server.py _rotate_token).                    *)
RotatorAt(d, from, to) ==
  /\ rotator[d] = from
  /\ rotator' = [rotator EXCEPT ![d] = to]

\* TokenAuthenticator.rotate_token: the new one for ever, the old one for a while.
Accept(d, new, old) ==
  accepted' = [accepted EXCEPT ![d][new] = "ever", ![d][old] = "grace"]

\* The new token is registered before it is published.
RotateToken(d) ==
  /\ ~cleanedUp[d] /\ newest[d] < MaxRotations
  /\ RotatorAt(d, "idle", "publish")
  /\ newest' = [newest EXCEPT ![d] = @ + 1]
  /\ Accept(d, newest[d] + 1, current[d])
  /\ UNCHANGED <<sharedVars, fileVars, main, handler, stopVars, current, aside>>

\* The file is opened with O_TRUNC, if it can be opened.
Truncate(d) ==
  /\ \/ RotatorAt(d, "publish", "write") /\ tokenFile' = Empty
     \/ RotatorAt(d, "publish", "failed") /\ UNCHANGED tokenFile
  /\ UNCHANGED <<sharedVars, keyFile, main, handler, stopVars, tokenVars, aside>>

\* The write can fail too (no space left), and then the file stays empty.
Publish(d) ==
  /\ \/ /\ RotatorAt(d, "write", "idle")
        /\ tokenFile' = Token(d, newest[d])
        /\ current' = [current EXCEPT ![d] = newest[d]]
     \/ /\ RotatorAt(d, "write", "failed")
        /\ UNCHANGED <<tokenFile, current>>
  /\ UNCHANGED <<sharedVars, keyFile, main, handler, stopVars, newest, accepted, aside>>

\* Mutant: the rotation ends, and the authenticator keeps it.
RollbackForgotten(d) ==
  /\ RotatorAt(d, "failed", "idle")
  /\ UNCHANGED <<sharedVars, fileVars, main, handler, stopVars, tokenVars, aside>>

\* The rotation is undone: the old token for ever, the new one for a while.
Rollback(d) ==
  /\ RotatorAt(d, "failed", "idle")
  /\ Accept(d, current[d], newest[d])
  /\ UNCHANGED <<sharedVars, fileVars, main, handler, stopVars, current, newest, aside>>

\* The grace period is longer than a publication and than the time between a client's
\* read of the file and its request.
Expire(d, n) ==
  /\ Alive(d) /\ rotator[d] \in {"idle", "none"}
  /\ accepted[d][n] = "grace"
  /\ \A c \in Clients : myToken[c] # Token(d, n)
  /\ accepted' = [accepted EXCEPT ![d][n] = "no"]
  /\ UNCHANGED <<sharedVars, fileVars, threadVars, current, newest, aside>>
-----------------------------------------------------------------------------
(* The commands of a client.                                               *)
At(c) == client[c].at
Cmd(c) == client[c].cmd
Move(c, label) ==
  client' = [client EXCEPT ![c] = IF label = "idle" THEN Idle ELSE [@ EXCEPT !.at = label]]

Begin(c, cmd) ==
  /\ At(c) = "idle" /\ commands < MaxCommands
  /\ commands' = commands + 1
  /\ client' = [client EXCEPT ![c] = [cmd |-> cmd, at |-> "find"]]
  /\ UNCHANGED <<sharedVars, fileVars, threadVars, tokenVars, probing, heldVars, kills>>

(* is_locked: taken at "find" (is a daemon running?), "find again" (stop: is the lock *)
(* held all the same?), "ready" (start: poll) and "gone yet" (stop: poll).            *)
Probes == {"find", "find again", "ready", "gone yet"}

WhenFree(c) ==
  CASE At(c) = "find" -> IF Cmd(c) = "start" THEN {"spawn"}
                             ELSE IF Cmd(c) = "stop" THEN {"find again"} ELSE {"idle"}
    [] At(c) = "find again" -> {"purgeToken"}
    [] At(c) = "ready" -> {"ready", "idle"}      \* polls on, or gives up
    [] At(c) = "gone yet" -> {"purgeToken"}

WhenLocked(c) ==
  CASE At(c) = "find" -> IF Cmd(c) = "start" THEN {"idle"}
                             ELSE IF Cmd(c) = "stop" THEN {"readKey"} ELSE {"connect"}
    [] At(c) = "find again" -> {"purgeToken"}
    [] At(c) = "ready" -> IF port # NoOne /\ Listening(port) THEN {"idle"}
                              ELSE {"ready", "idle"}
    [] At(c) = "gone yet" -> {"gone yet", "purgeToken"}

\* There is no call that only asks: the lock is taken, and given back at once.
ProbeTakes(c) ==
  /\ At(c) \in Probes /\ ~probing[c] /\ lock = NoOne
  /\ lock' = c
  /\ probing' = [probing EXCEPT ![c] = TRUE]
  /\ UNCHANGED <<port, fileVars, threadVars, tokenVars, client, heldVars, commands,
                 kills>>

ProbeGives(c) ==
  /\ probing[c]
  /\ lock' = NoOne
  /\ probing' = [probing EXCEPT ![c] = FALSE]
  /\ \E next \in WhenFree(c) : Move(c, next)
  /\ UNCHANGED <<port, fileVars, threadVars, tokenVars, heldVars, commands, kills>>

ProbeFails(c) ==
  /\ At(c) \in Probes /\ ~probing[c] /\ lock # NoOne
  /\ \E next \in WhenLocked(c) : Move(c, next)
  /\ UNCHANGED <<sharedVars, fileVars, threadVars, tokenVars, probing, heldVars,
                 commands, kills>>

\* start_daemon: a process that does not know its parent.
Spawn(c, d) ==
  /\ At(c) = "spawn" /\ main[d] = "off"
  /\ Goto(d, "boot")
  /\ Move(c, "ready")
  /\ UNCHANGED <<sharedVars, fileVars, handler, rotator, stopVars, tokenVars, probing,
                 heldVars, commands, kills>>

\* stop reads the key before it connects, a call afterwards.
ReadKey(c) ==
  /\ At(c) = "readKey"
  /\ myKey' = [myKey EXCEPT ![c] = keyFile]
  /\ Move(c, IF Cmd(c) = "stop" THEN "connect" ELSE "readToken")
  /\ UNCHANGED <<sharedVars, fileVars, threadVars, tokenVars, probing, conn, myToken,
                 commands, kills>>

Connect(c) ==
  /\ At(c) = "connect" /\ port # NoOne /\ Listening(port)
  /\ conn' = [conn EXCEPT ![c] = port]
  /\ Move(c, IF Cmd(c) = "stop" THEN "readToken" ELSE "readKey")
  /\ UNCHANGED <<sharedVars, fileVars, threadVars, tokenVars, probing, myKey, myToken,
                 commands, kills>>

\* A call looks for the daemon again after a refused connection, and gives up in the end.
Refused(c) ==
  /\ At(c) = "connect" /\ ~(port # NoOne /\ Listening(port))
  /\ \E next \in IF Cmd(c) = "stop" THEN {"idle"} ELSE {"find", "idle"} : Move(c, next)
  /\ myKey' = [myKey EXCEPT ![c] = NoOne]
  /\ UNCHANGED <<sharedVars, fileVars, threadVars, tokenVars, probing, conn, myToken,
                 commands, kills>>

ReadToken(c) ==
  /\ At(c) = "readToken"
  /\ myToken' = [myToken EXCEPT ![c] = tokenFile]
  /\ Move(c, "send")
  /\ UNCHANGED <<sharedVars, fileVars, threadVars, tokenVars, probing, conn, myKey,
                 commands, kills>>

Honours(d, token) == token \in Tokens /\ token[1] = d /\ accepted[d][token[2]] # "no"

Forget(c) ==
  /\ conn' = [conn EXCEPT ![c] = NoOne]
  /\ myKey' = [myKey EXCEPT ![c] = NoOne]
  /\ myToken' = [myToken EXCEPT ![c] = NoToken]

\* The request reaches the daemon and is signed and authentic.  Of several stop commands
\* one thread cleans up; the others return.
Answered(c, d) ==
  /\ At(c) = "send" /\ conn[c] = d /\ Alive(d)
  /\ myKey[c] = d /\ Honours(d, myToken[c])
  /\ \/ /\ Cmd(c) = "stop"
        /\ handler' = [handler EXCEPT ![d] = IF @ = "none" THEN "asked" ELSE @]
        /\ Move(c, "gone yet")
     \/ /\ Cmd(c) # "stop"
        /\ Move(c, "idle")
        /\ UNCHANGED handler
  /\ Forget(c)
  /\ UNCHANGED <<sharedVars, fileVars, main, rotator, stopVars, tokenVars, probing,
                 commands, kills>>

\* It is rejected, or the connection is lost with the listener or the process.
Unanswered(c, d) ==
  /\ At(c) = "send" /\ conn[c] = d
  /\ \/ ~Alive(d)
     \/ port # d
     \/ myKey[c] # d
     \/ ~Honours(d, myToken[c])
  /\ Move(c, "idle")
  /\ Forget(c)
  /\ UNCHANGED <<sharedVars, fileVars, threadVars, tokenVars, probing, commands, kills>>

\* _cleanup_credentials.
PurgeToken(c) ==
  /\ At(c) = "purgeToken"
  /\ tokenFile' = NoToken
  /\ Move(c, "purgeKey")
  /\ UNCHANGED <<sharedVars, keyFile, threadVars, tokenVars, probing, heldVars,
                 commands, kills>>

PurgeKey(c) ==
  /\ At(c) = "purgeKey"
  /\ keyFile' = NoOne
  /\ Move(c, "idle")
  /\ UNCHANGED <<sharedVars, tokenFile, threadVars, tokenVars, probing, heldVars,
                 commands, kills>>
-----------------------------------------------------------------------------
MainThread(d) ==
  \/ TryAcquire(d) \/ Bind(d) \/ WriteToken(d) \/ WriteKey(d) \/ Listen(d)
  \/ Cleanup(d) \/ StopAll(d) \/ CleanupAuth(d) \/ CleanupHmac(d) \/ Release(d) \/ Exit(d)

StopThread(d) ==
  HandlerWakes(d) \/ HandlerClaims(d) \/ HandlerCloses(d) \/ HandlerStopsAll(d)

RotationThread(d) == RotateToken(d) \/ Truncate(d) \/ Publish(d) \/ Rollback(d)

Client(c) ==
  \/ \E cmd \in Commands : Begin(c, cmd)
  \/ ProbeTakes(c) \/ ProbeGives(c) \/ ProbeFails(c)
  \/ \E d \in Daemons : Spawn(c, d) \/ Answered(c, d) \/ Unanswered(c, d)
  \/ ReadKey(c) \/ Connect(c) \/ Refused(c) \/ ReadToken(c) \/ PurgeToken(c) \/ PurgeKey(c)

Next ==
  \/ \E d \in Daemons : MainThread(d) \/ StopThread(d) \/ RotationThread(d)
  \/ \E d \in Daemons : Signal(d) \/ Kill(d)
  \/ \E d \in Daemons, n \in Numbers : Expire(d, n)
  \/ \E c \in Clients : Client(c)

Spec == Init /\ [][Next]_vars
-----------------------------------------------------------------------------
\* Every variable has a value of its kind.
TypeOK ==
  /\ lock \in Daemons \cup Clients \cup {NoOne}
  /\ port \in Daemons \cup {NoOne}
  /\ tokenFile \in Tokens \cup {NoToken, Empty}
  /\ keyFile \in Daemons \cup {NoOne}
  /\ main \in [Daemons -> {"off", "boot", "bind", "writeToken", "writeKey", "listen", "run",
                           "stopAll", "purgeToken", "purgeKey", "release", "exit", "gone"}]
  /\ handler \in [Daemons -> {"none", "asked", "cleanup", "listeners", "stopAll", "done"}]
  /\ rotator \in [Daemons -> {"none", "idle", "publish", "write", "failed"}]
  /\ shutdown \in [Daemons -> BOOLEAN]
  /\ cleanedUp \in [Daemons -> BOOLEAN]
  /\ stopped \in [Daemons -> BOOLEAN]
  /\ current \in [Daemons -> Numbers]
  /\ newest \in [Daemons -> Numbers]
  /\ accepted \in [Daemons -> [Numbers -> {"ever", "grace", "no"}]]
  /\ client \in [Clients -> [cmd : Commands \cup {"none"},
                             at : Probes \cup {"idle", "spawn", "readKey", "connect",
                                               "readToken", "send", "purgeToken", "purgeKey"}]]
  /\ probing \in [Clients -> BOOLEAN]
  /\ conn \in [Clients -> Daemons \cup {NoOne}]
  /\ myKey \in [Clients -> Daemons \cup {NoOne}]
  /\ myToken \in [Clients -> Tokens \cup {NoToken, Empty}]
  /\ commands \in 0..MaxCommands
  /\ kills \in 0..MaxKills

\* One daemon at a time is between the acquisition of the lock and its release
\* (daemon/lifecycle.py main).
OneDaemon == \A d, e \in Daemons : Owning(d) /\ Owning(e) => d = e

\* The main thread of a daemon writes the files for the clients, and removes them
\* on its way out, only while no other daemon sets up or serves: it must not
\* publish over another one's files or take them away (daemon/lifecycle.py main:
\* cleanup_all_shm before release; daemon/server.py run).
FilesHaveOneOwner ==
  [][\A d, e \in Daemons :
       d # e /\ main'[d] # main[d] /\ fileVars' # fileVars => ~ Owning(e)]_vars

\* A token that a living daemon has published, be it in the file or in the hands of a
\* client, is accepted by that daemon, through rotations, failed publications and their
\* rollback (daemon/server.py _rotate_token).
TokensHonoured ==
  \A token \in {tokenFile} \cup {myToken[c] : c \in Clients} :
    token \in Tokens /\ Alive(token[1]) => Honours(token[1], token)

\* A daemon that gives up the lock has stopped its sessions, unless the thread of a stop
\* command is just doing it: no two threads leave it to each other (daemon/server.py
\* _cleanup).
StoppedOrBeingStopped ==
  \A d \in Daemons :
    main[d] = "exit" /\ ~stopped[d] => handler[d] \in {"listeners", "stopAll"}

\* Every way out stops the sessions first.  It does not hold: the thread of a stop
\* command claims the cleanup and dies with the process.
SessionsStopped == \A d \in Daemons : main[d] = "exit" => stopped[d]

\* A daemon gives up only because another one has the lock.  It does not hold: probing
\* clients have it too.
YieldsToADaemon ==
  [][\A d \in Daemons : main[d] = "boot" /\ main'[d] = "gone" /\ kills' = kills
                          => lock \in Daemons]_vars

\* What the files hold while a daemon serves is that daemon's.  It does not hold: a
\* client that has stopped one daemon removes the files of the next.
FilesOfTheServing ==
  \A d \in Daemons : main[d] = "run" /\ ~shutdown[d] =>
    /\ keyFile = d
    /\ tokenFile = Empty \/ tokenFile[1] = d
=============================================================================
