---------------------------- MODULE FileTransfer ----------------------------
(***************************************************************************)
(* `file upload` and `file download`: a client and a thread of the daemon  *)
(* agree on a plan (what to transfer, what to skip because it is the same  *)
(* on both sides, what to refuse to overwrite) and then move the files one *)
(* by one, each acknowledged before the next.  The daemon's judgement of   *)
(* "the same" rests on sizes and on a table of the modification times it   *)
(* saw when the file was last transferred.  Several transfers run at once, *)
(* users edit both sides meanwhile, and connections and the daemon fail.   *)
(*                                                                         *)
(* A file is an id of its contents, a size and a modification time.  The   *)
(* code sees sizes and times only; ids are there for the properties.  Not  *)
(* in the model: directories, the read state that the write tools consult, *)
(* a change of the source in the middle of its being read, and files that  *)
(* are not text (for which no version is kept).                            *)
(***************************************************************************)
EXTENDS Naturals, Sequences, FiniteSets

CONSTANTS
    Conns,          \* connections, each one transfer after another
    Files,          \* the files of the tree
    Place,          \* and the place each has in the order of a scan
    Sizes,          \* the sizes a file can have
    MaxTransfers, MaxEdits, MaxCrashes   \* bounds

ASSUME TransferAssumption ==
    /\ Place \in [Files -> Nat]
    /\ \A f, g \in Files : Place[f] = Place[g] => f = g
    /\ Sizes \subseteq Nat \ {0} /\ Sizes # {}
    /\ {MaxTransfers, MaxEdits, MaxCrashes} \subseteq Nat

VARIABLES
    local, remote,  \* the two trees
    record,         \* transfer_map: what the last transfer of a file saw
    versions,       \* file_history: the contents it holds for a file
    clock,          \* gives ids and modification times
    cl, dm,         \* the client and the daemon's thread of a connection
    toD, toC, cut,  \* frames under way, and connections that are gone
    used,           \* transfers, edits and crashes so far
    collided        \* files that two writers changed in each other's window

disk == <<local, remote, record, versions, clock>>
wire == <<toD, toC, cut>>
transferVars == <<disk, cl, dm, wire, used, collided>>

\* Both ends take the files of a plan in the order of the scan.
First(files) == CHOOSE f \in files : \A g \in files : Place[f] <= Place[g]
Rest(files) == files \ {First(files)}

Absent == [id |-> 0, size |-> 0, mtime |-> 0]
Exists(x) == x.id # 0
RecordOf(cliSize, cliMtime, remoteMtime) ==
    [size |-> cliSize, cli |-> cliMtime, remote |-> remoteMtime]
NoRecord == RecordOf(0, 0, 0)

\* Frames: the DATA frames of a file and its FILE_END travel as one.
Manifest(entries) == [type |-> "manifest", entries |-> entries]
Plan(todo) == [type |-> "plan", todo |-> todo]
FileFrames(x, meta) == [type |-> "file", data |-> x, meta |-> meta]
Ack(ok) == [type |-> "ack", ok |-> ok]
Abort == [type |-> "abort"]

NoEntries == [f \in Files |-> Absent]
IdleClient == [pc |-> "done", dir |-> "upload", force |-> FALSE, todo |-> {},
               meta |-> Absent, data |-> Absent, done |-> {}, tmp |-> FALSE]
IdleThread == [pc |-> "done", todo |-> {}, seen |-> NoEntries, meta |-> Absent,
               data |-> Absent, old |-> 0, landed |-> {}, skipped |-> {}, tmp |-> FALSE]

\* What of an ended thread can still be asked for.
Ended(d) == [IdleThread EXCEPT !.landed = d.landed, !.skipped = d.skipped, !.tmp = d.tmp]

TransferInit ==
    /\ local = [f \in Files |-> [id |-> 1, size |-> CHOOSE s \in Sizes : TRUE, mtime |-> 1]]
    /\ remote = NoEntries
    /\ record = [f \in Files |-> NoRecord]
    /\ versions = [f \in Files |-> {}]
    /\ clock = 1
    /\ cl = [c \in Conns |-> IdleClient]
    /\ dm = [c \in Conns |-> IdleThread]
    /\ toD = [c \in Conns |-> <<>>]
    /\ toC = [c \in Conns |-> <<>>]
    /\ cut = [c \in Conns |-> FALSE]
    /\ used = [transfers |-> 0, edits |-> 0, crashes |-> 0]
    /\ collided = {}

-----------------------------------------------------------------------------
(* Sockets.  What is sent on a connection that is gone is lost (or raises, *)
(* which ends as a lost frame does); a reader finds the end of the stream  *)
(* after the last frame.                                                   *)
SendD(c, m) == toD' = [toD EXCEPT ![c] = IF cut[c] THEN @ ELSE Append(@, m)]
SendC(c, m) == toC' = [toC EXCEPT ![c] = IF cut[c] THEN @ ELSE Append(@, m)]
HearsD(c, type) == toD[c] # <<>> /\ Head(toD[c]).type = type
HearsC(c, type) == toC[c] # <<>> /\ Head(toC[c]).type = type
TakeD(c) == toD' = [toD EXCEPT ![c] = Tail(@)]
TakeC(c) == toC' = [toC EXCEPT ![c] = Tail(@)]
HangUp(c) == cut' = [cut EXCEPT ![c] = TRUE]

Uploads(c) == cl[c].dir = "upload"
Client(c, pc) == cl[c].pc = pc
Thread(c, pc) == dm[c].pc = pc
CurrentOfClient(c) == First(cl[c].todo)
CurrentOfThread(c) == First(dm[c].todo)

(* The files of which an end has the time and not yet the contents (a      *)
(* sender), or has replaced the old one but not yet fixed its time, or not *)
(* yet recorded it (a receiver).                                           *)
WindowHere(conns) ==
    {CurrentOfClient(c) : c \in {e \in conns : cl[e].pc \in {"read", "utime"}}}
WindowThere(conns) ==
    {CurrentOfThread(c) : c \in {e \in conns :
                              dm[e].pc \in {"read", "utime", "history", "record"}}}
-----------------------------------------------------------------------------
(* The plan. *)
\* Mutant: the time on the daemon's side is not compared.
ClassifyByClient(remoteFile, rec, cli, force) ==
    IF ~Exists(cli) \/ ~Exists(remoteFile) THEN "transfer"
    ELSE IF /\ remoteFile.size = cli.size
            /\ rec.size = cli.size /\ rec.cli = cli.mtime THEN "skip"
    ELSE IF force THEN "transfer" ELSE "denied"

Classify(remoteFile, rec, cli, force) ==
    IF ~Exists(cli) \/ ~Exists(remoteFile) THEN "transfer"
    ELSE IF /\ remoteFile.size = cli.size
            /\ rec = RecordOf(cli.size, cli.mtime, remoteFile.mtime) THEN "skip"
    ELSE IF force THEN "transfer" ELSE "denied"

(* An upload lists what the client has, a download what the daemon has. *)
Judge(c) ==
    /\ Thread(c, "manifest")
    /\ HearsD(c, "manifest")
    /\ LET here == Head(toD[c]).entries
           there == IF Uploads(c) THEN remote ELSE dm[c].seen
           listed == {f \in Files : Exists(IF Uploads(c) THEN here[f] ELSE there[f])}
           verdict == [f \in listed |->
                        Classify(there[f], record[f], here[f], cl[c].force)]
           Verdicts(v) == {f \in listed : verdict[f] = v}
           todo == Verdicts("transfer")
           refused == Verdicts("denied") # {}
       IN /\ SendC(c, IF refused THEN Abort ELSE Plan(todo))
          /\ dm' = [dm EXCEPT ![c] =
                [@ EXCEPT !.pc = IF refused \/ todo = {} THEN "done"
                                 ELSE IF Uploads(c) THEN "receive" ELSE "stat",
                          !.todo = IF refused THEN {} ELSE todo,
                          !.old = IF todo = {} THEN 0 ELSE remote[First(todo)].id,
                          !.tmp = Uploads(c) /\ ~refused /\ todo # {},
                          !.skipped = {<<f, here[f].id, there[f].id>> : f \in Verdicts("skip")}]]
          /\ cut' = [cut EXCEPT ![c] = @ \/ refused \/ todo = {}]
    /\ TakeD(c)
    /\ UNCHANGED <<disk, cl, used, collided>>

-----------------------------------------------------------------------------
(* The client.  It scans, sends its manifest and waits for the plan; for a *)
(* download it waits for the daemon's manifest first.                      *)
Start(c, dir, force) ==
    /\ Client(c, "done") /\ Thread(c, "done")
    /\ used.transfers < MaxTransfers
    /\ \E f \in Files : Exists(IF dir = "upload" THEN local[f] ELSE remote[f])
    /\ used' = [used EXCEPT !.transfers = @ + 1]
    /\ cl' = [cl EXCEPT ![c] = [IdleClient EXCEPT
                !.pc = IF dir = "upload" THEN "plan" ELSE "manifest",
                !.dir = dir, !.force = force]]
    /\ dm' = [dm EXCEPT ![c] = [IdleThread EXCEPT
                !.pc = IF dir = "upload" THEN "manifest" ELSE "scan"]]
    /\ toD' = [toD EXCEPT ![c] = IF dir = "upload" THEN <<Manifest(local)>> ELSE <<>>]
    /\ toC' = [toC EXCEPT ![c] = <<>>]
    /\ cut' = [cut EXCEPT ![c] = FALSE]
    /\ UNCHANGED <<disk, collided>>

AnswerManifest(c) ==
    /\ Client(c, "manifest") /\ HearsC(c, "manifest")
    /\ SendD(c, Manifest(local))
    /\ TakeC(c)
    /\ cl' = [cl EXCEPT ![c].pc = "plan"]
    /\ UNCHANGED <<disk, dm, cut, used, collided>>

(* Going on to the next file of the plan, or to the summary. *)
ClientGoesOn(c, todo, done) ==
    /\ cl' = [cl EXCEPT ![c] = [@ EXCEPT
                !.todo = todo, !.done = done, !.meta = Absent, !.data = Absent,
                !.tmp = todo # {} /\ ~Uploads(c),
                !.pc = IF todo = {} THEN "done"
                       ELSE IF Uploads(c) THEN "stat" ELSE "receive"]]
    /\ cut' = [cut EXCEPT ![c] = @ \/ todo = {}]

TakePlan(c) ==
    /\ Client(c, "plan") /\ HearsC(c, "plan")
    /\ ClientGoesOn(c, Head(toC[c]).todo, {})
    /\ TakeC(c)
    /\ UNCHANGED <<disk, dm, toD, used, collided>>

ClientStat(c) ==
    /\ Client(c, "stat")
    /\ Exists(local[CurrentOfClient(c)])
    /\ cl' = [cl EXCEPT ![c].pc = "read", ![c].meta = local[CurrentOfClient(c)]]
    /\ UNCHANGED <<disk, dm, wire, used, collided>>

ClientSends(c) ==
    /\ Client(c, "read")
    /\ Exists(local[CurrentOfClient(c)])
    /\ SendD(c, FileFrames(local[CurrentOfClient(c)], cl[c].meta))
    /\ cl' = [cl EXCEPT ![c].pc = "ack"]
    /\ UNCHANGED <<disk, dm, toC, cut, used, collided>>

\* Mutant: any acknowledgement counts.
ClientAckedAnyhow(c) ==
    /\ Client(c, "ack") /\ HearsC(c, "ack")
    /\ ClientGoesOn(c, Rest(cl[c].todo), cl[c].done \cup {CurrentOfClient(c)})
    /\ TakeC(c)
    /\ UNCHANGED <<disk, dm, toD, used, collided>>

ClientAcked(c) ==
    /\ Client(c, "ack") /\ HearsC(c, "ack") /\ Head(toC[c]).ok
    /\ ClientGoesOn(c, Rest(cl[c].todo), cl[c].done \cup {CurrentOfClient(c)})
    /\ TakeC(c)
    /\ UNCHANGED <<disk, dm, toD, used, collided>>

(* A download: the size and the hash are checked, the temporary file       *)
(* replaces the old one, the time is set to the daemon's.                  *)
ClientReceives(c) ==
    /\ Client(c, "receive") /\ HearsC(c, "file")
    /\ Head(toC[c]).meta.size = Head(toC[c]).data.size
    /\ cl' = [cl EXCEPT ![c].pc = "replace", ![c].data = Head(toC[c]).data,
                        ![c].meta = Head(toC[c]).meta]
    /\ TakeC(c)
    /\ UNCHANGED <<disk, dm, toD, cut, used, collided>>

ClientReplaces(c) ==
    LET f == CurrentOfClient(c)
    IN /\ Client(c, "replace")
       /\ clock' = clock + 1
       /\ local' = [local EXCEPT ![f] = [cl[c].data EXCEPT !.mtime = clock + 1]]
       /\ cl' = [cl EXCEPT ![c].pc = "utime", ![c].tmp = FALSE]
       /\ collided' = collided \cup ({f} \cap WindowHere(Conns \ {c}))
       /\ UNCHANGED <<remote, record, versions, dm, wire, used>>

ClientUtime(c) ==
    LET f == CurrentOfClient(c)
    IN /\ Client(c, "utime") /\ Exists(local[f])
       /\ local' = [local EXCEPT ![f].mtime = cl[c].meta.mtime]
       /\ SendD(c, Ack(TRUE))
       /\ ClientGoesOn(c, Rest(cl[c].todo), cl[c].done \cup {f})
       /\ collided' = collided \cup ({f} \cap WindowHere(Conns \ {c}))
       /\ UNCHANGED <<remote, record, versions, clock, dm, toC, used>>

(* Before the plan the command ends in an error; in the loop the temporary *)
(* file is removed, ABORT is sent and the summary is printed.              *)
ClientGivesUp(c) ==
    /\ cl' = [cl EXCEPT ![c] = [IdleClient EXCEPT
                !.dir = cl[c].dir, !.done = cl[c].done]]
    /\ IF cl[c].pc \in {"manifest", "plan"} THEN UNCHANGED toD ELSE SendD(c, Abort)
    /\ HangUp(c)
    /\ toC' = [toC EXCEPT ![c] = <<>>]
    /\ UNCHANGED <<disk, dm, used, collided>>

(* It must: the daemon refuses or has hung up, a file is not what it was. *)
ClientFails(c) ==
    /\ \/ cl[c].pc \in {"manifest", "plan", "ack", "receive"} /\ toC[c] = <<>> /\ cut[c]
       \/ Client(c, "plan") /\ HearsC(c, "abort")
       \/ cl[c].pc \in {"stat", "read", "utime"} /\ ~Exists(local[CurrentOfClient(c)])
       \/ Client(c, "ack") /\ HearsC(c, "ack") /\ ~Head(toC[c]).ok
       \/ /\ Client(c, "receive") /\ HearsC(c, "file")
          /\ Head(toC[c]).meta.size # Head(toC[c]).data.size
    /\ ClientGivesUp(c)

(* It may: the deadline of the command, an error of the file system. *)
ClientTimesOut(c) == ~Client(c, "done") /\ ClientGivesUp(c)

-----------------------------------------------------------------------------
(* The daemon's thread. *)
Scan(c) ==
    /\ Thread(c, "scan")
    /\ SendC(c, Manifest(remote))
    /\ dm' = [dm EXCEPT ![c].pc = "manifest", ![c].seen = remote]
    /\ UNCHANGED <<disk, cl, toD, cut, used, collided>>

(* The next file: its old text is read and a temporary file opened before  *)
(* the first frame of an upload is there.                                  *)
ThreadGoesOn(c, landed) ==
    LET todo == Rest(dm[c].todo)
    IN /\ dm' = [dm EXCEPT ![c] = [@ EXCEPT
                    !.todo = todo, !.landed = landed, !.meta = Absent, !.data = Absent,
                    !.old = IF todo = {} THEN 0 ELSE remote[First(todo)].id,
                    !.tmp = Uploads(c) /\ todo # {},
                    !.pc = IF todo = {} THEN "done"
                           ELSE IF Uploads(c) THEN "receive" ELSE "stat"]]
       /\ cut' = [cut EXCEPT ![c] = @ \/ todo = {}]

ThreadReceives(c) ==
    /\ Thread(c, "receive") /\ HearsD(c, "file")
    /\ Head(toD[c]).meta.size = Head(toD[c]).data.size
    /\ dm' = [dm EXCEPT ![c].pc = "replace", ![c].data = Head(toD[c]).data,
                        ![c].meta = Head(toD[c]).meta]
    /\ TakeD(c)
    /\ UNCHANGED <<disk, cl, toC, cut, used, collided>>

ThreadReplaces(c) ==
    LET f == CurrentOfThread(c)
    IN /\ Thread(c, "replace")
       /\ clock' = clock + 1
       /\ remote' = [remote EXCEPT ![f] = [dm[c].data EXCEPT !.mtime = clock + 1]]
       /\ dm' = [dm EXCEPT ![c].pc = "utime", ![c].tmp = FALSE,
                           ![c].landed = @ \cup
                            {[file |-> f, over |-> remote[f].id, old |-> dm[c].old,
                              new |-> dm[c].data.id]}]
       /\ collided' = collided \cup ({f} \cap WindowThere(Conns \ {c}))
       /\ UNCHANGED <<local, record, versions, cl, wire, used>>

ThreadUtime(c) ==
    LET f == CurrentOfThread(c)
    IN /\ Thread(c, "utime") /\ Exists(remote[f])
       /\ remote' = [remote EXCEPT ![f].mtime = dm[c].meta.mtime]
       /\ dm' = [dm EXCEPT ![c].pc = "history"]
       /\ collided' = collided \cup ({f} \cap WindowThere(Conns \ {c}))
       /\ UNCHANGED <<local, record, versions, clock, cl, wire, used>>

\* Mutant: only the new text becomes a version.
HistoryOfNew(c) ==
    LET f == CurrentOfThread(c)
    IN /\ Thread(c, "history")
       /\ versions' = [versions EXCEPT ![f] = @ \cup ({remote[f].id} \ {0})]
       /\ dm' = [dm EXCEPT ![c].pc = "record"]
       /\ UNCHANGED <<local, remote, record, clock, cl, wire, used, collided>>

(* The version chain gets the text read before the transfer, unless it is  *)
(* the latest version, and the text that is there now.                     *)
History(c) ==
    LET f == CurrentOfThread(c)
    IN /\ Thread(c, "history")
       /\ versions' = [versions EXCEPT ![f] =
                        IF Exists(remote[f]) THEN @ \cup ({dm[c].old, remote[f].id} \ {0})
                        ELSE @]
       /\ dm' = [dm EXCEPT ![c].pc = "record"]
       /\ UNCHANGED <<local, remote, record, clock, cl, wire, used, collided>>

Record(c) ==
    LET f == CurrentOfThread(c)
    IN /\ Thread(c, "record") /\ Exists(remote[f])
       /\ record' = [record EXCEPT ![f] =
                        RecordOf(dm[c].meta.size, dm[c].meta.mtime, remote[f].mtime)]
       /\ SendC(c, Ack(TRUE))
       /\ ThreadGoesOn(c, dm[c].landed)
       /\ UNCHANGED <<local, remote, versions, clock, cl, toD, used, collided>>

(* A file of an upload fails: a negative acknowledgement is sent and one   *)
(* more frame awaited.  _receive_file removes its temporary file, but      *)
(* nobody does when os.replace fails.                                      *)
ThreadRefuses(c) ==
    /\ \/ Thread(c, "receive") /\ (toD[c] # <<>> \/ cut[c])
       \/ dm[c].pc \in {"replace", "utime", "record"}
    /\ SendC(c, Ack(FALSE))
    /\ dm' = [dm EXCEPT ![c].pc = "failed", ![c].tmp = @ /\ Thread(c, "replace")]
    /\ UNCHANGED <<disk, cl, toD, cut, used, collided>>

ThreadStat(c) ==
    /\ Thread(c, "stat") /\ Exists(remote[CurrentOfThread(c)])
    /\ dm' = [dm EXCEPT ![c].pc = "read", ![c].meta = remote[CurrentOfThread(c)]]
    /\ UNCHANGED <<disk, cl, wire, used, collided>>

ThreadSends(c) ==
    /\ Thread(c, "read") /\ Exists(remote[CurrentOfThread(c)])
    /\ SendC(c, FileFrames(remote[CurrentOfThread(c)], dm[c].meta))
    /\ dm' = [dm EXCEPT ![c].pc = "ack"]
    /\ UNCHANGED <<disk, cl, toD, cut, used, collided>>

ThreadAcked(c) ==
    /\ Thread(c, "ack") /\ HearsD(c, "ack")
    /\ TakeD(c)
    /\ dm' = [dm EXCEPT ![c].pc = "restat"]
    /\ UNCHANGED <<disk, cl, toC, cut, used, collided>>

(* What is recorded of a download is the state of the file after it. *)
Restat(c) ==
    LET f == CurrentOfThread(c)
    IN /\ Thread(c, "restat") /\ Exists(remote[f])
       /\ record' = [record EXCEPT ![f] =
                        RecordOf(remote[f].size, remote[f].mtime, remote[f].mtime)]
       /\ ThreadGoesOn(c, dm[c].landed \cup
                        {[file |-> f, over |-> 0, old |-> 0, new |-> 0]})
       /\ UNCHANGED <<local, remote, versions, clock, cl, toD, toC, used, collided>>

\* Mutant: the end of the stream is not noticed while waiting for an acknowledgement.
ThreadQuitsOnAbort(c) ==
    /\ \/ dm[c].pc \in {"manifest", "failed"} /\ cut[c]
       \/ dm[c].pc \in {"ack", "failed"} /\ HearsD(c, "abort")
       \/ dm[c].pc = "failed" /\ toD[c] # <<>>
       \/ dm[c].pc \in {"stat", "read", "restat", "history", "record"}
    /\ dm' = [dm EXCEPT ![c] = Ended(dm[c])]
    /\ HangUp(c)
    /\ toD' = [toD EXCEPT ![c] = <<>>]
    /\ UNCHANGED <<disk, cl, toC, used, collided>>

(* The thread ends early: the client is gone or has sent ABORT, a file     *)
(* cannot be read, or the database fails, which nobody catches below the   *)
(* handler.  The dispatcher closes the connection.                         *)
ThreadQuits(c) ==
    /\ \/ dm[c].pc \in {"manifest", "ack", "failed"} /\ toD[c] = <<>> /\ cut[c]
       \/ Thread(c, "ack") /\ HearsD(c, "abort")
       \/ Thread(c, "failed") /\ toD[c] # <<>>
       \/ dm[c].pc \in {"stat", "read", "restat", "history", "record"}
    /\ dm' = [dm EXCEPT ![c] = Ended(dm[c])]
    /\ HangUp(c)
    /\ toD' = [toD EXCEPT ![c] = <<>>]
    /\ UNCHANGED <<disk, cl, toC, used, collided>>

-----------------------------------------------------------------------------
(* Around them: users and programs change, create and delete files; the    *)
(* daemon dies with all its threads and is started again.                  *)
EditedFile(size) ==
    IF size = 0 THEN Absent ELSE [id |-> clock + 1, size |-> size, mtime |-> clock + 1]

EditLocal(f, size) ==
    /\ used.edits < MaxEdits
    /\ local' = [local EXCEPT ![f] = EditedFile(size)]
    /\ clock' = clock + 1
    /\ used' = [used EXCEPT !.edits = @ + 1]
    /\ collided' = collided \cup ({f} \cap WindowHere(Conns))
    /\ UNCHANGED <<remote, record, versions, cl, dm, wire>>

EditRemote(f, size) ==
    /\ used.edits < MaxEdits
    /\ remote' = [remote EXCEPT ![f] = EditedFile(size)]
    /\ clock' = clock + 1
    /\ used' = [used EXCEPT !.edits = @ + 1]
    /\ collided' = collided \cup ({f} \cap WindowThere(Conns))
    /\ UNCHANGED <<local, record, versions, cl, dm, wire>>

Crash ==
    /\ used.crashes < MaxCrashes
    /\ \E c \in Conns : ~Thread(c, "done")
    /\ used' = [used EXCEPT !.crashes = @ + 1]
    /\ dm' = [c \in Conns |-> Ended(dm[c])]
    /\ toD' = [c \in Conns |-> <<>>]
    /\ cut' = [c \in Conns |-> cut[c] \/ ~Thread(c, "done")]
    /\ UNCHANGED <<disk, cl, toC, collided>>

(* Everything still under way on a connection is lost with it. *)
Break(c) ==
    /\ ~cut[c]
    /\ ~Client(c, "done") \/ ~Thread(c, "done")
    /\ HangUp(c)
    /\ toD' = [toD EXCEPT ![c] = <<>>]
    /\ toC' = [toC EXCEPT ![c] = <<>>]
    /\ UNCHANGED <<disk, cl, dm, used, collided>>

ClientStep(c) ==
    \/ AnswerManifest(c) \/ TakePlan(c)
    \/ ClientStat(c) \/ ClientSends(c) \/ ClientAcked(c)
    \/ ClientReceives(c) \/ ClientReplaces(c) \/ ClientUtime(c)
    \/ ClientFails(c)

ThreadStep(c) ==
    \/ Scan(c) \/ Judge(c)
    \/ ThreadReceives(c) \/ ThreadReplaces(c) \/ ThreadUtime(c)
    \/ History(c) \/ Record(c) \/ ThreadRefuses(c)
    \/ ThreadStat(c) \/ ThreadSends(c) \/ ThreadAcked(c) \/ Restat(c)
    \/ ThreadQuits(c)

TransferNext ==
    \/ \E c \in Conns : ClientStep(c) \/ ThreadStep(c) \/ ClientTimesOut(c) \/ Break(c)
    \/ \E c \in Conns, dir \in {"upload", "download"}, force \in BOOLEAN :
            Start(c, dir, force)
    \/ \E f \in Files, size \in Sizes \cup {0} : EditLocal(f, size) \/ EditRemote(f, size)
    \/ Crash

TransferSpec == TransferInit /\ [][TransferNext]_transferVars

(* Client and thread run.  The deadline is not needed for either to end. *)
Fairness == \A c \in Conns : WF_transferVars(ClientStep(c)) /\ WF_transferVars(ThreadStep(c))
FairSpec == TransferSpec /\ Fairness

-----------------------------------------------------------------------------
(* Properties. *)

(* The state of the disks, the table, both ends and the frames under way   *)
(* is well formed, and an end that waits for nothing has no open file.     *)
FileSet == [id : 0..clock, size : Sizes \cup {0}, mtime : 0..clock]
ClientSet ==
    [pc : {"manifest", "plan", "stat", "read", "ack", "receive", "replace", "utime", "done"},
     dir : {"upload", "download"}, force : BOOLEAN, todo : SUBSET Files, meta : FileSet,
     data : FileSet, done : SUBSET Files, tmp : BOOLEAN]
TransferTypeOK ==
    /\ local \in [Files -> FileSet] /\ remote \in [Files -> FileSet]
    /\ record \in [Files -> [size : Sizes \cup {0}, cli : 0..clock, remote : 0..clock]]
    /\ versions \in [Files -> SUBSET (1..clock)]
    /\ cl \in [Conns -> ClientSet]
    /\ \A c \in Conns :
        /\ cl[c].tmp <=> cl[c].pc \in {"receive", "replace"}
        /\ dm[c].pc \in {"receive", "replace"} => dm[c].tmp
        /\ dm[c].pc \notin {"scan", "manifest", "failed", "done"} => dm[c].todo # {}
        /\ Len(toD[c]) <= 2 /\ Len(toC[c]) <= 2

(* A file that is skipped has the same contents on both sides: the         *)
(* judgement by sizes and recorded times is right, whatever was edited,    *)
(* interrupted or lost between the transfer that recorded them and this    *)
(* one, unless two writers changed the file in one another's window.       *)
SkippedIsSame ==
    \A c \in Conns : \A s \in dm[c].skipped : s[1] \in collided \/ s[2] = s[3]

(* What the client reports is what has landed, but for the file that was   *)
(* under way: an upload reports nothing that the daemon does not have, and *)
(* the daemon goes on for one file at most after the client has stopped.   *)
LandedFiles(c) == {l.file : l \in dm[c].landed}
ReportWithinOne ==
    \A c \in Conns :
        LET more == IF Uploads(c) THEN LandedFiles(c) ELSE cl[c].done
            less == IF Uploads(c) THEN cl[c].done ELSE LandedFiles(c)
        IN less \subseteq more /\ Cardinality(more \ less) <= 1

(* When an upload has been acknowledged, the version chain holds what the  *)
(* file held when the daemon came to it and what was written, whoever      *)
(* edited it in between, unless somebody else changed the file between its *)
(* replacement and the end of the upload.                                  *)
AckedIsRecoverable ==
    \A c \in Conns : \A l \in dm[c].landed :
        (Uploads(c) /\ l.file \in cl[c].done /\ l.file \notin collided)
            => {l.old, l.new} \ {0} \subseteq versions[l.file]

(* The same of what the file held when it was replaced.  It does not hold: *)
(* the daemon has read the old text before the new file arrives.           *)
OverwrittenIsRecoverable ==
    \A c \in Conns : \A l \in dm[c].landed :
        (Uploads(c) /\ l.file \in cl[c].done /\ l.file \notin collided)
            => l.over \in versions[l.file] \cup {0}

(* A thread that has ended has removed its temporary file, as the first    *)
(* comment of transfer.py promises of every error path.                    *)
NoTmpLeft == \A c \in Conns : Thread(c, "done") /\ used.crashes = 0 => ~dm[c].tmp

(* Neither end waits for ever on the other one, even without a deadline:   *)
(* every transfer ends on both sides.                                      *)
TransferEnds == \A c \in Conns : []<>(Client(c, "done") /\ Thread(c, "done"))
=============================================================================
