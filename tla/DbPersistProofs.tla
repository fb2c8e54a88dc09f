-------------------------- MODULE DbPersistProofs --------------------------
(***************************************************************************)
(* Proofs about DbPersist, for any number of processes and inodes, any     *)
(* bound on transactions and any combination of failures.                  *)
(***************************************************************************)
EXTENDS DbPersist, TLAPS

(* In a root that has its directories, whoever is past apk_db_open with the *)
(* right to write holds the flock.                                          *)
LockHeld ==
    /\ pc \in [Proc -> PcState]
    /\ dirs = TRUE
    /\ \A p \in Proc : Writable(p) => holder = p

(* Every step of every process keeps LockHeld: the lock is taken before the *)
(* first file is read and given up only when the process is gone.           *)
LEMMA LockHeldStep == LockHeld /\ [Next]_vars => LockHeld'
<1> SUFFICES ASSUME LockHeld, [Next]_vars PROVE LockHeld'
    OBVIOUS
<1>1. CASE UNCHANGED vars
    BY <1>1 DEF vars, files, LockHeld, Writable
<1>2. ASSUME NEW p \in Proc,
             Locking(p) \/ Progress(p) \/ LateAlarm(p) \/ BeginWrite(p) \/ SkipWrite(p) \/ Crash(p)
      PROVE  LockHeld'
    <2> USE DEF LockHeld, Writable, PcState
    <2>1. CASE OpenUnlocked(p)
        BY <2>1 DEF OpenUnlocked, StartReading, Goto, files
    <2>2. CASE OpenNewRoot(p)
        BY <2>2 DEF OpenNewRoot
    <2>3. CASE TryLock(p)
        BY <2>3, ProcAssumption DEF TryLock, StartReading, Goto, files
    <2>4. CASE SetAlarm(p)
        BY <2>4 DEF SetAlarm, Goto, files
    <2>5. CASE Block(p)
        BY <2>5 DEF Block, Goto, files
    <2>6. CASE Acquire(p)
        BY <2>6, ProcAssumption DEF Acquire, StartReading, Goto, files
    <2>7. CASE TimeOut(p)
        BY <2>7 DEF TimeOut, Goto, files
    <2>8. CASE LateAlarm(p)
        BY <2>8 DEF LateAlarm, files
    <2>9. ASSUME NEW f \in File, ReadFile(p, f) PROVE LockHeld'
        BY <2>9 DEF ReadFile, files
    <2>10. CASE BeginWrite(p)
        BY <2>10, Zenon DEF BeginWrite, Goto
    <2>11. CASE SkipWrite(p)
        BY <2>11 DEF SkipWrite, Goto, files
    <2>12. ASSUME NEW f \in File,
                  OpenTmp(p, f) \/ WritePiece(p, f) \/ FlushPiece(p, f) \/ Publish(p, f)
           PROVE  LockHeld'
        BY <2>12, Zenon DEF OpenTmp, WritePiece, FlushPiece, Publish
    <2>13. CASE EndWrite(p)
        BY <2>13 DEF EndWrite, Goto, files
    <2>14. CASE Exit(p)
        BY <2>14 DEF Exit, Release, Goto, files
    <2> QED
        BY <1>2, <2>1, <2>2, <2>3, <2>4, <2>5, <2>6, <2>7, <2>8, <2>9, <2>10, <2>11, <2>12,
           <2>13, <2>14 DEF Locking, Progress, Close, Crash
<1> QED
    BY <1>1, <1>2 DEF Next

(* Two processes are never both able to write an existing database, however *)
(* many compete, time out, or are killed.                                   *)
THEOREM OneWriter == ~NewRoot /\ Spec => []WritersExclude
<1>1. ~NewRoot /\ Init => LockHeld
    BY Zenon DEF Init, LockHeld, Writable, PcState
<1>2. LockHeld => WritersExclude
    BY DEF LockHeld, WritersExclude
<1>3. LockHeld /\ [Next]_vars => LockHeld'
    BY LockHeldStep
<1> QED
    BY <1>1, <1>2, <1>3, PTL DEF Spec

-----------------------------------------------------------------------------
(* The invariant under which DbPersist implements DbLog, the order of the    *)
(* operations of apk_db_write_layers, and the part of the invariant that is  *)
(* about types, counters and the lock.                                       *)

(* The operation of apk_db_write_layers that renames f into place.          *)
PublishAt == [f \in File |-> CASE f = "world" -> 7 [] f = "installed" -> 12
                               [] f = "scripts" -> 14 [] f = "triggers" -> 16]

Live == {"empty", "half", "full"}

(* p is between reading the database and renaming the new f.                *)
Holds(p, f) ==
    /\ p \notin Readers
    /\ \/ pc[p] \in {"reading", "open"} /\ f \notin unread[p]
       \/ pc[p] = "writing" /\ pos[p] <= PublishAt[f]

Base ==
    /\ TypeOK /\ LockHeld
    /\ nextTx >= 1
    /\ \A p \in Proc : pos[p] >= 1
    /\ \A p \in Readers : lockFd[p] = 0 /\ pc[p] # "writing"

(* Every file has an inode of its own that holds a whole log.               *)
Disk ==
    \A f \in File :
        /\ real[f] \in Inode /\ temp[f] # real[f]
        /\ Content(f) \in Log
        /\ \A k \in DOMAIN Content(f) : Content(f)[k] < nextTx

(* What p is about to write is what the file shows and p's transaction.     *)
Mine(p) ==
    /\ pc[p] \in {"open", "writing"} => unread[p] = {}
    /\ \A f \in File : Holds(p, f) => seen[p][f] = Content(f)
    /\ pc[p] = "writing" => tx[p] = nextTx - 1 /\ tx[p] \in 1..MaxTx
    /\ \A f \in File : pc[p] = "writing" /\ Holds(p, f) =>
           \A k \in DOMAIN Content(f) : Content(f)[k] < tx[p]
    /\ \A f \in File : stream[p][f] \in Live =>
           /\ pc[p] = "writing" /\ Holds(p, f)
           /\ temp[f] \in Inode /\ fd[p][f] = temp[f]
           /\ stream[p][f] # "empty" => data[f][temp[f]][1] = NewContent(p, f)
           /\ stream[p][f] = "full" => data[f][temp[f]][2] = NewContent(p, f)

LogInv == Base /\ Disk /\ \A p \in Proc : Mine(p)

(* The order of operations: a rename is the last one for its file.          *)
LEMMA OpsOrder ==
    ASSUME NEW n \in 1..16, NEW f \in File
    PROVE  /\ Len(Ops) = 16
           /\ Ops[n] = <<"publish", f>> <=> n = PublishAt[f]
           /\ \A op \in {"open", "write", "flush"} : Ops[n] = <<op, f>> => n < PublishAt[f]
           /\ \A g \in File : n = PublishAt[f] => Ops[n] # <<"open", g>> /\ Ops[n] # <<"write", g>>
                                                  /\ Ops[n] # <<"flush", g>>
           /\ \A g \in File : n = PublishAt[f] /\ Ops[n] = <<"publish", g>> => g = f
  BY DEF Ops, PublishAt, File

(* apk_db_write_layers makes sixteen steps, the renames among them.         *)
LEMMA OpsLength == Len(Ops) = 16 /\ \A f \in File : PublishAt[f] \in 1..16
  BY DEF Ops, PublishAt, File

(* A stream's state.                                                        *)
LEMMA StreamType ==
    ASSUME TypeOK, NEW p \in Proc, NEW f \in File, NEW s \in StreamState, SetStream(p, f, s)
    PROVE  stream' \in [Proc -> [File -> StreamState]]
  BY DEF TypeOK, SetStream

(* The next operation is a positive number.                                 *)
LEMMA AdvanceType ==
    ASSUME Base, NEW p \in Proc, Advance(p)
    PROVE  pos' \in [Proc -> Nat] /\ \A q \in Proc : pos'[q] >= 1
  BY DEF Base, TypeOK, Advance

(* A piece written to an inode.                                             *)
LEMMA PieceType ==
    ASSUME TypeOK, NEW f \in File, NEW i \in Inode, NEW k \in {1, 2}, NEW v \in Piece,
           data' = [data EXCEPT ![f][i][k] = v]
    PROVE  data' \in [File -> [Inode -> [{1, 2} -> Piece]]]
  BY DEF TypeOK

(* Types, the lock and the bounds of counters, for every step.              *)
LEMMA BaseStep ==
    ASSUME LogInv, [Next]_vars
    PROVE  Base'
<1> DEFINE Rest == /\ TypeOK' /\ nextTx' >= 1 /\ \A q \in Proc : pos'[q] >= 1
                   /\ \A q \in Readers : lockFd'[q] = 0 /\ pc'[q] # "writing"
<1>1. LockHeld'
  BY LockHeldStep DEF LogInv, Base
<1>2. CASE UNCHANGED vars
  <2>1. Rest
    BY <1>2 DEF vars, files, LogInv, Base, TypeOK
  <2>2. QED
    BY <1>1, <2>1 DEF Base
<1>3. ASSUME NEW p \in Proc,
             Locking(p) \/ Progress(p) \/ LateAlarm(p) \/ BeginWrite(p) \/ SkipWrite(p) \/ Crash(p)
      PROVE  Rest
  <2> USE DEF LogInv, Base, TypeOK, PcState, Goto, files
  <2>1. CASE OpenUnlocked(p)
    BY <2>1 DEF OpenUnlocked, StartReading
  <2>2. CASE OpenNewRoot(p)
    BY <2>2 DEF OpenNewRoot, LockHeld
  <2>3. CASE TryLock(p)
    BY <2>3, ProcAssumption DEF TryLock, StartReading
  <2>4. CASE SetAlarm(p)
    BY <2>4 DEF SetAlarm
  <2>5. CASE Block(p)
    BY <2>5 DEF Block
  <2>6. CASE Acquire(p)
    BY <2>6 DEF Acquire, StartReading
  <2>7. CASE TimeOut(p)
    BY <2>7 DEF TimeOut
  <2>8. CASE LateAlarm(p)
    BY <2>8 DEF LateAlarm
  <2>9. ASSUME NEW f \in File, ReadFile(p, f) PROVE Rest
    BY <2>9 DEF ReadFile, Disk
  <2>10. CASE BeginWrite(p)
    BY <2>10, ProcAssumption DEF BeginWrite, MayWrite
  <2>11. CASE SkipWrite(p)
    BY <2>11 DEF SkipWrite
  <2>12. ASSUME NEW f \in File, OpenTmp(p, f) PROVE Rest
    <3>1. stream' \in [Proc -> [File -> StreamState]] /\ err' \in [Proc -> BOOLEAN]
          /\ pos' \in [Proc -> Nat] /\ \A q \in Proc : pos'[q] >= 1
      <4>1. PICK s \in StreamState : SetStream(p, f, s)
        BY <2>12 DEF OpenTmp, StreamState
      <4>2. stream' \in [Proc -> [File -> StreamState]]
        BY <4>1, StreamType
      <4>3. QED
        BY <2>12, <4>2, AdvanceType, Zenon DEF OpenTmp, Fails
    <3>2. temp[f] # None \/ Inode \ InUse(f) # {} => TmpInode(f) \in Inode
      BY DEF TmpInode
    <3>3. EmptyInode \in [{1, 2} -> Piece]
      BY DEF EmptyInode, Piece
    <3>4. /\ temp' \in [File -> Inode \cup {None}] /\ fd' \in [Proc -> [File -> Inode \cup {None}]]
          /\ data' \in [File -> [Inode -> [{1, 2} -> Piece]]]
      <4>1. CASE UNCHANGED <<temp, fd, data>>
        BY <4>1
      <4>2. ASSUME NEW i \in Inode, temp' = [temp EXCEPT ![f] = i], fd' = [fd EXCEPT ![p][f] = i],
                   data' = [data EXCEPT ![f][i] = EmptyInode]
            PROVE  /\ temp' \in [File -> Inode \cup {None}]
                   /\ fd' \in [Proc -> [File -> Inode \cup {None}]]
                   /\ data' \in [File -> [Inode -> [{1, 2} -> Piece]]]
        BY <3>3, <4>2
      <4>3. QED
        BY <2>12, <3>2, <4>1, <4>2 DEF OpenTmp
    <3>5. QED
      BY <2>12, <3>1, <3>4 DEF OpenTmp
  <2>13. ASSUME NEW f \in File, WritePiece(p, f) \/ FlushPiece(p, f) PROVE Rest
    <3>1. stream' \in [Proc -> [File -> StreamState]]
          /\ pos' \in [Proc -> Nat] /\ \A q \in Proc : pos'[q] >= 1
      <4>1. PICK s \in StreamState : SetStream(p, f, s)
        BY <2>13 DEF WritePiece, FlushPiece, PutPiece, StreamState
      <4>2. stream' \in [Proc -> [File -> StreamState]]
        BY <4>1, StreamType
      <4>3. QED
        BY <2>13, <4>2, AdvanceType DEF WritePiece, FlushPiece
    <3>2. stream[p][f] \in Live => NewContent(p, f) \in Piece
      BY DEF Mine, Disk, Live, NewContent, Piece, Log
    <3>3. data' \in [File -> [Inode -> [{1, 2} -> Piece]]]
      <4>1. CASE UNCHANGED data
        BY <4>1
      <4>2. ASSUME NEW k \in {1, 2}, stream[p][f] \in {"empty", "half"},
                   data' = [data EXCEPT ![f][fd[p][f]][k] = NewContent(p, f)]
            PROVE  data' \in [File -> [Inode -> [{1, 2} -> Piece]]]
        <5>1. NewContent(p, f) \in Piece /\ fd[p][f] \in Inode
          BY <3>2, <4>2 DEF Live, Mine
        <5>2. QED
          BY <4>2, <5>1, PieceType, SMTT(60)
      <4>3. QED
        BY <2>13, <4>1, <4>2 DEF WritePiece, FlushPiece, PutPiece
    <3>4. QED
      BY <2>13, <3>1, <3>3 DEF WritePiece, FlushPiece
  <2>14. ASSUME NEW f \in File, Publish(p, f) PROVE Rest
    <3>1. real' \in [File -> Inode \cup {None}] /\ temp' \in [File -> Inode \cup {None}]
          /\ err' \in [Proc -> BOOLEAN]
      BY <2>14, Zenon DEF Publish, Fails
    <3>2. stream' \in [Proc -> [File -> StreamState]] /\ fd' \in [Proc -> [File -> Inode \cup {None}]]
          /\ pos' \in [Proc -> Nat] /\ \A q \in Proc : pos'[q] >= 1
      BY <2>14 DEF Publish, Advance, SetStream, StreamState
    <3>3. data' \in [File -> [Inode -> [{1, 2} -> Piece]]]
      BY <2>14 DEF Publish, EmptyInode, Piece
    <3>4. QED
      BY <2>14, <3>1, <3>2, <3>3 DEF Publish
  <2>15. CASE EndWrite(p)
    BY <2>15 DEF EndWrite
  <2>16. CASE Exit(p)
    BY <2>16 DEF Exit, Release, NothingSeen, NoStreams, NoFds, StreamState, Log
  <2>17. QED
    BY <1>3, <2>1, <2>2, <2>3, <2>4, <2>5, <2>6, <2>7, <2>8, <2>9, <2>10, <2>11, <2>12, <2>13,
       <2>14, <2>15, <2>16, Zenon DEF Locking, Progress, Close, Crash
<1>4. QED
  BY <1>1, <1>2, <1>3 DEF Next, Base
=============================================================================
