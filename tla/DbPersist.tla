----------------------------- MODULE DbPersist -----------------------------
(***************************************************************************)
(* The database files on disk, and the processes that lock, read and       *)
(* rewrite them: the lock of apk_db_open, apk_db_read_layer,               *)
(* apk_db_write_config with apk_db_write_layers, the temporary file and    *)
(* rename of struct apk_fd_ostream, apk_db_close, and a process that is    *)
(* killed anywhere in between.                                             *)
(*                                                                         *)
(* The content of a database file is abstracted to the sequence of the     *)
(* transactions it reflects: a process writes what it read and its own.    *)
(* A file is written in two pieces, so that a piece can be missing.        *)
(***************************************************************************)
EXTENDS Integers, Sequences, FiniteSets

CONSTANTS
    Proc,     \* processes
    Readers,  \* those that open without APK_OPENF_WRITE (apk info, apk list)
    Creators, \* those that open with APK_OPENF_CREATE (--initdb)
    Waiters,  \* those with lock_wait # 0 (--wait)
    Inode,    \* inodes to write files in
    MaxTx,    \* bound: transactions in a behaviour
    NewRoot,  \* lib/apk/db does not exist yet
    Faults,   \* kinds of failure that may happen
    None, Hole, Torn

ASSUME ProcAssumption ==
    /\ Readers \subseteq Proc /\ Creators \subseteq Proc /\ Waiters \subseteq Proc
    /\ Readers \cap Creators = {}
    /\ None \notin Proc \cup Inode /\ Inode # {}

ASSUME BoundAssumption == MaxTx \in Nat /\ NewRoot \in BOOLEAN

ASSUME FaultAssumption == Faults \subseteq {"io", "crash", "stall"}

File == {"world", "installed", "scripts", "triggers"}
Log  == Seq(Nat)

ASSUME MarkAssumption == Hole \notin Log /\ Torn \notin Log

VARIABLES
    pc,     \* where each process is
    lockFd, \* db->lock_fd: 0 never opened, -1 could not be opened, 1 open
    holder, \* who holds the flock
    armed,  \* processes with an alarm pending
    seen,   \* what each process has read
    unread, \* files the process has still to read
    tx,     \* the transaction the process adds
    pos,    \* next operation of apk_db_write_layers
    stream, \* state of each output stream
    fd,     \* inode each output stream writes to
    err,    \* an error was met while writing
    real,   \* inode behind each database file
    temp,   \* inode behind its .tmp
    data,   \* the two pieces in each inode of each file
    dirs,   \* lib/apk/db and etc/apk exist
    nextTx

files == <<real, temp, data, dirs>>
vars  == <<pc, lockFd, holder, armed, seen, unread, tx, pos, stream, fd, err, files, nextTx>>

PcState == {"closed", "armed", "blocked", "reading", "open", "writing", "closing"}
StreamState == {"none", "empty", "half", "full", "bad"}
Piece == Log \cup {Hole}

TypeOK ==
    /\ pc \in [Proc -> PcState]
    /\ lockFd \in [Proc -> {-1, 0, 1}]
    /\ holder \in Proc \cup {None}
    /\ armed \subseteq Proc
    /\ seen \in [Proc -> [File -> Log \cup {Torn}]]
    /\ unread \in [Proc -> SUBSET File]
    /\ tx \in [Proc -> Nat]
    /\ pos \in [Proc -> Nat]
    /\ stream \in [Proc -> [File -> StreamState]]
    /\ fd \in [Proc -> [File -> Inode \cup {None}]]
    /\ err \in [Proc -> BOOLEAN]
    /\ real \in [File -> Inode \cup {None}]
    /\ temp \in [File -> Inode \cup {None}]
    /\ data \in [File -> [Inode -> [{1, 2} -> Piece]]]
    /\ dirs \in BOOLEAN
    /\ nextTx \in Nat

NothingSeen == [f \in File |-> <<>>]
NoStreams   == [f \in File |-> "none"]
NoFds       == [f \in File |-> None]
EmptyInode  == [k \in {1, 2} |-> Hole]

FirstInode == CHOOSE i \in Inode : TRUE

Init ==
    /\ pc = [p \in Proc |-> "closed"]
    /\ lockFd = [p \in Proc |-> 0]
    /\ holder = None /\ armed = {}
    /\ seen = [p \in Proc |-> NothingSeen]
    /\ unread = [p \in Proc |-> {}]
    /\ tx = [p \in Proc |-> 0]
    /\ pos = [p \in Proc |-> 1]
    /\ stream = [p \in Proc |-> NoStreams]
    /\ fd = [p \in Proc |-> NoFds]
    /\ err = [p \in Proc |-> FALSE]
    /\ real = [f \in File |-> IF NewRoot THEN None ELSE FirstInode]
    /\ temp = [f \in File |-> None]
    /\ data = [f \in File |-> [i \in Inode |->
                 IF ~NewRoot /\ i = FirstInode THEN [k \in {1, 2} |-> <<>>] ELSE EmptyInode]]
    /\ dirs = ~NewRoot
    /\ nextTx = 1

-----------------------------------------------------------------------------
(* apk_db_open: the lock *)

Goto(p, to) == pc' = [pc EXCEPT ![p] = to]

StartReading(p) == Goto(p, "reading") /\ unread' = [unread EXCEPT ![p] = File]

(* Without APK_OPENF_WRITE the lock file is not even opened.                *)
OpenUnlocked(p) ==
    /\ pc[p] = "closed" /\ p \in Readers
    /\ StartReading(p)
    /\ UNCHANGED <<lockFd, holder, armed, seen, tx, pos, stream, fd, err, files, nextTx>>

(* In a root without lib/apk/db the lock file cannot be created; --initdb   *)
(* goes on without it, anything else gives up and stays closed.             *)
OpenNewRoot(p) ==
    /\ pc[p] = "closed" /\ p \in Creators /\ ~dirs
    /\ lockFd' = [lockFd EXCEPT ![p] = -1]
    /\ StartReading(p)
    /\ UNCHANGED <<holder, armed, seen, tx, pos, stream, fd, err, files, nextTx>>

(* flock(LOCK_EX | LOCK_NB) succeeds ...                                    *)
TryLock(p) ==
    /\ pc[p] = "closed" /\ p \notin Readers /\ dirs /\ holder = None
    /\ holder' = p
    /\ lockFd' = [lockFd EXCEPT ![p] = 1]
    /\ StartReading(p)
    /\ UNCHANGED <<armed, seen, tx, pos, stream, fd, err, files, nextTx>>

(* ... or fails, and with --wait the alarm is set.                          *)
SetAlarm(p) ==
    /\ pc[p] = "closed" /\ p \in Waiters \ Readers /\ dirs /\ holder # None
    /\ lockFd' = [lockFd EXCEPT ![p] = 1]
    /\ armed' = armed \cup {p}
    /\ Goto(p, "armed")
    /\ UNCHANGED <<holder, seen, unread, tx, pos, stream, fd, err, files, nextTx>>

Block(p) ==
    /\ pc[p] = "armed"
    /\ Goto(p, "blocked")
    /\ UNCHANGED <<lockFd, holder, armed, seen, unread, tx, pos, stream, fd, err, files, nextTx>>

Acquire(p) ==
    /\ pc[p] = "blocked" /\ holder = None
    /\ holder' = p
    /\ armed' = armed \ {p}
    /\ StartReading(p)
    /\ UNCHANGED <<lockFd, seen, tx, pos, stream, fd, err, files, nextTx>>

(* Faulty: flock is called again after EINTR.                               *)
TimeOutRetried(p) ==
    /\ pc[p] = "blocked" /\ p \in armed
    /\ armed' = armed \ {p}
    /\ UNCHANGED <<pc, lockFd, holder, seen, unread, tx, pos, stream, fd, err, files, nextTx>>

(* SIGALRM while flock blocks: EINTR, and apk_db_open fails.                *)
TimeOut(p) ==
    /\ pc[p] = "blocked" /\ p \in armed
    /\ armed' = armed \ {p}
    /\ lockFd' = [lockFd EXCEPT ![p] = 0]
    /\ Goto(p, "closed")
    /\ UNCHANGED <<holder, seen, unread, tx, pos, stream, fd, err, files, nextTx>>

(* SIGALRM after alarm() and before flock blocks: the handler does nothing, *)
(* and no other alarm will come.                                            *)
LateAlarm(p) ==
    /\ pc[p] = "armed" /\ p \in armed /\ "stall" \in Faults
    /\ armed' = armed \ {p}
    /\ UNCHANGED <<pc, lockFd, holder, seen, unread, tx, pos, stream, fd, err, files, nextTx>>

-----------------------------------------------------------------------------
(* apk_db_read_layer: world, installed, triggers, scripts *)

ReadOrder == <<"world", "installed", "triggers", "scripts">>

IsNextToRead(p, f) ==
    \E k \in 1..4 : ReadOrder[k] = f /\ unread[p] = {ReadOrder[j] : j \in k..4}

ContentOf(pieces) == IF pieces[1] = pieces[2] /\ pieces[1] # Hole THEN pieces[1] ELSE Torn

Content(f) == IF real[f] = None THEN <<>> ELSE ContentOf(data[f][real[f]])

(* Without world only --initdb may go on.                                   *)
Readable(p, f) == f # "world" \/ real[f] # None \/ p \in Creators

ReadFile(p, f) ==
    /\ pc[p] = "reading" /\ IsNextToRead(p, f)
    /\ seen' = [seen EXCEPT ![p][f] = IF Readable(p, f) THEN Content(f) ELSE Torn]
    /\ unread' = [unread EXCEPT ![p] = @ \ {f}]
    /\ pc' = IF unread[p] = {f} THEN [pc EXCEPT ![p] = "open"] ELSE pc
    /\ UNCHANGED <<lockFd, holder, armed, tx, pos, stream, fd, err, files, nextTx>>

-----------------------------------------------------------------------------
(* apk_db_write_config *)

(* Faulty: world is written last.                                           *)
OpsWorldLast ==
    << <<"open", "installed">>, <<"open", "triggers">>, <<"open", "scripts">>,
       <<"write", "installed">>, <<"write", "scripts">>, <<"write", "triggers">>,
       <<"flush", "installed">>, <<"publish", "installed">>,
       <<"flush", "scripts">>, <<"publish", "scripts">>,
       <<"flush", "triggers">>, <<"publish", "triggers">>, <<"open", "world">>,
       <<"write", "world">>, <<"flush", "world">>, <<"publish", "world">> >>

(* The operations of apk_db_write_layers in their order.  A stream's first  *)
(* piece is written out when its buffer fills, its last one when the stream *)
(* is closed, and then the temporary file is renamed.                       *)
Ops == << <<"open", "installed">>, <<"open", "triggers">>, <<"open", "scripts">>,
          <<"open", "world">>, <<"write", "world">>, <<"flush", "world">>, <<"publish", "world">>,
          <<"write", "installed">>, <<"write", "scripts">>, <<"write", "triggers">>,
          <<"flush", "installed">>, <<"publish", "installed">>,
          <<"flush", "scripts">>, <<"publish", "scripts">>,
          <<"flush", "triggers">>, <<"publish", "triggers">> >>

(* Otherwise: "Refusing to write db without write lock!"                    *)
MayWrite(p) == p \in Creators \/ lockFd[p] # 0

BeginWrite(p) ==
    /\ pc[p] = "open" /\ MayWrite(p) /\ nextTx <= MaxTx
    /\ \A f \in File : seen[p][f] # Torn
    /\ dirs' = (dirs \/ p \in Creators)
    /\ tx' = [tx EXCEPT ![p] = nextTx]
    /\ nextTx' = nextTx + 1
    /\ pos' = [pos EXCEPT ![p] = 1]
    /\ Goto(p, "writing")
    /\ UNCHANGED <<lockFd, holder, armed, seen, unread, stream, fd, err, real, temp, data>>

(* Refused, nothing to change, the answer is no, the database could not be  *)
(* read, or lib/apk/db could not be opened.                                 *)
SkipWrite(p) ==
    /\ pc[p] = "open"
    /\ Goto(p, "closing")
    /\ UNCHANGED <<lockFd, holder, armed, seen, unread, tx, pos, stream, fd, err, files, nextTx>>

IsNext(p, op, f) ==
    /\ pc[p] = "writing" /\ pos[p] <= Len(Ops)
    /\ Ops[pos[p]] = <<op, f>>

Advance(p) == pos' = [pos EXCEPT ![p] = @ + 1]

SetStream(p, f, s) == stream' = [stream EXCEPT ![p][f] = s]

NewContent(p, f) == Append(seen[p][f], tx[p])

(* apk_db_write_layers returns the error.  Faulty: it does not.             *)
FailsSilently(p) == UNCHANGED err
Fails(p) == err' = [err EXCEPT ![p] = TRUE]

InUse(f) == {real[f], temp[f]} \cup {fd[p][f] : p \in Proc}
TmpInode(f) == IF temp[f] # None THEN temp[f] ELSE CHOOSE i \in Inode \ InUse(f) : TRUE

(* apk_ostream_to_file: open file.tmp with O_CREAT and O_TRUNC.             *)

OpenTmp(p, f) ==
    /\ IsNext(p, "open", f) /\ Advance(p)
    /\ \/ /\ LET i == TmpInode(f)
             IN  /\ temp[f] # None \/ Inode \ InUse(f) # {}
                 /\ temp' = [temp EXCEPT ![f] = i]
                 /\ fd' = [fd EXCEPT ![p][f] = i]
                 /\ data' = [data EXCEPT ![f][i] = EmptyInode]
          /\ SetStream(p, f, "empty")
          /\ UNCHANGED err
       \/ /\ "io" \in Faults
          /\ SetStream(p, f, "none")
          /\ Fails(p)
          /\ UNCHANGED <<temp, fd, data>>
    /\ UNCHANGED <<pc, lockFd, holder, armed, seen, unread, tx, real, dirs, nextTx>>

(* fdo_write and fdo_flush: one piece, or an error that cancels the stream. *)
PutPiece(p, f, k, from, to) ==
    \/ /\ stream[p][f] = from
       /\ data' = [data EXCEPT ![f][fd[p][f]][k] = NewContent(p, f)]
       /\ SetStream(p, f, to)
    \/ /\ stream[p][f] # from \/ "io" \in Faults
       /\ SetStream(p, f, IF stream[p][f] = "none" THEN "none" ELSE "bad")
       /\ UNCHANGED data

WritePiece(p, f) ==
    /\ IsNext(p, "write", f) /\ Advance(p)
    /\ PutPiece(p, f, 1, "empty", "half")
    /\ UNCHANGED <<pc, lockFd, holder, armed, seen, unread, tx, fd, err, real, temp, dirs, nextTx>>

FlushPiece(p, f) ==
    /\ IsNext(p, "flush", f) /\ Advance(p)
    /\ PutPiece(p, f, 2, "half", "full")
    /\ UNCHANGED <<pc, lockFd, holder, armed, seen, unread, tx, fd, err, real, temp, dirs, nextTx>>

(* fdo_close: rename over the file, or unlink after an error.  What .tmp    *)
(* names may be another process's inode by now.  An inode without a name    *)
(* and a descriptor is free.                                                *)
Publish(p, f) ==
    /\ IsNext(p, "publish", f) /\ Advance(p)
    /\ \/ /\ stream[p][f] = "full" /\ temp[f] # None
          /\ real' = [real EXCEPT ![f] = temp[f]]
          /\ temp' = [temp EXCEPT ![f] = None]
          /\ UNCHANGED err
       \/ /\ stream[p][f] = "full" /\ ("io" \in Faults \/ temp[f] = None)
          /\ Fails(p)
          /\ UNCHANGED <<real, temp>>
       \/ /\ stream[p][f] \notin {"full", "none"}
          /\ temp' = [temp EXCEPT ![f] = None]
          /\ Fails(p)
          /\ UNCHANGED real
       \/ /\ stream[p][f] = "none" /\ UNCHANGED <<real, temp, err>>
    /\ SetStream(p, f, "none")
    /\ fd' = [fd EXCEPT ![p][f] = None]
    /\ data' = [data EXCEPT ![f] = [i \in Inode |-> IF i \in InUse(f)' THEN @[i] ELSE EmptyInode]]
    /\ UNCHANGED <<pc, lockFd, holder, armed, seen, unread, tx, dirs, nextTx>>

EndWrite(p) ==
    /\ pc[p] = "writing" /\ pos[p] > Len(Ops)
    /\ Goto(p, "closing")
    /\ UNCHANGED <<lockFd, holder, armed, seen, unread, tx, pos, stream, fd, err, files, nextTx>>

(* Closing the lock file releases its own lock.  Faulty: anybody's lock.    *)
ReleaseAny(p) == None
Release(p) == IF holder = p THEN None ELSE holder

(* The process is gone: its descriptors, its lock and its alarm with it.    *)
Exit(p) ==
    /\ Goto(p, "closed")
    /\ lockFd' = [lockFd EXCEPT ![p] = 0]
    /\ holder' = Release(p)
    /\ armed' = armed \ {p}
    /\ seen' = [seen EXCEPT ![p] = NothingSeen]
    /\ unread' = [unread EXCEPT ![p] = {}]
    /\ tx' = [tx EXCEPT ![p] = 0]
    /\ pos' = [pos EXCEPT ![p] = 1]
    /\ stream' = [stream EXCEPT ![p] = NoStreams]
    /\ fd' = [fd EXCEPT ![p] = NoFds]
    /\ err' = [err EXCEPT ![p] = FALSE]
    /\ UNCHANGED <<files, nextTx>>

Close(p) == pc[p] = "closing" /\ Exit(p)

Crash(p) == "crash" \in Faults /\ pc[p] # "closed" /\ Exit(p)

Locking(p) == OpenUnlocked(p) \/ OpenNewRoot(p) \/ TryLock(p) \/ SetAlarm(p)

Progress(p) ==
    \/ Block(p) \/ Acquire(p) \/ TimeOut(p)
    \/ \E f \in File : \/ ReadFile(p, f) \/ OpenTmp(p, f) \/ WritePiece(p, f)
                       \/ FlushPiece(p, f) \/ Publish(p, f)
    \/ EndWrite(p) \/ Close(p)

Next ==
    \E p \in Proc :
        Locking(p) \/ Progress(p) \/ LateAlarm(p) \/ BeginWrite(p) \/ SkipWrite(p) \/ Crash(p)

Spec == Init /\ [][Next]_vars

(* A process goes on while it is not waiting for an answer: between reading *)
(* the database and writing it, "Do you want to continue [Y/n]?" may wait   *)
(* for as long as it likes, and nobody has to start an apk.                 *)
Fairness == \A p \in Proc : WF_vars(Progress(p))

FairSpec == Spec /\ Fairness

-----------------------------------------------------------------------------
(* Properties *)

(* At most one process is between reading the database and closing it with  *)
(* the right to write it; it is the one that holds the flock.               *)
Writable(p) == pc[p] \in {"reading", "open", "writing", "closing"} /\ p \notin Readers

WritersExclude == \A p, q \in Proc : Writable(p) /\ Writable(q) => p = q

(* A database file is always whole: no process, lock or no lock, ever reads *)
(* a file that somebody is writing or that a crash left half written.       *)
FilesWhole == \A f \in File : Content(f) # Torn

(* Readers of the files, with or without the lock, see an append-only log   *)
(* of whole transactions: no half-written file, no lost transaction, and no *)
(* two files that disagree about the order of transactions.                 *)
Files == INSTANCE DbLog WITH Tx <- 1..MaxTx, log <- [f \in File |-> Content(f)]
ImplementsDbLog == Files!Spec

Range(s) == {s[k] : k \in 1..Len(s)}

(* Killed anywhere, apk leaves world at least as new as installed, which is *)
(* at least as new as scripts, which is at least as new as triggers: a      *)
(* package the database says is installed was asked for, and scripts and    *)
(* triggers never belong to a package the database does not know.           *)
PublishOrder ==
    /\ Range(Content("triggers")) \subseteq Range(Content("scripts"))
    /\ Range(Content("scripts")) \subseteq Range(Content("installed"))
    /\ Range(Content("installed")) \subseteq Range(Content("world"))

(* What is on disk at any moment is whole and in order.                     *)
DatabaseIntact == FilesWhole /\ PublishOrder

(* A write that reports no error has reached every file.                    *)
SilentWriteIsComplete ==
    \A p \in Proc : pc[p] = "closing" /\ tx[p] # 0 /\ ~err[p] =>
        \A f \in File : tx[p] \in Range(Content(f))

(* With --wait, a process that blocks in flock with the alarm still to come *)
(* gets the lock or gives up.                                               *)
ArmedWaitEnds == \A p \in Waiters : (pc[p] = "blocked" /\ p \in armed) ~> pc[p] # "blocked"
=============================================================================
