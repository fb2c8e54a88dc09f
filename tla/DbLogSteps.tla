----------------------------- MODULE DbLogSteps -----------------------------
(***************************************************************************)
(* The steps of DbPersist that publish nothing: each keeps the invariant   *)
(* and what the database files show.                                       *)
(***************************************************************************)
EXTENDS DbPersistProofs

(* What a step needs to know of the types of what it changes.               *)
LEMMA Types ==
    ASSUME LogInv
    PROVE  /\ pc \in [Proc -> PcState] /\ pos \in [Proc -> Nat] /\ \A p \in Proc : pos[p] >= 1
           /\ tx \in [Proc -> Nat] /\ nextTx \in Nat /\ nextTx >= 1
           /\ stream \in [Proc -> [File -> StreamState]]
           /\ fd \in [Proc -> [File -> Inode \cup {None}]]
           /\ temp \in [File -> Inode \cup {None}]
           /\ data \in [File -> [Inode -> [{1, 2} -> Piece]]]
  BY DEF LogInv, Base, TypeOK

(* A step of p that touches no database file and leaves the others alone.   *)
Alone(p) ==
    /\ UNCHANGED <<files, nextTx>>
    /\ \A q \in Proc \ {p} :
          /\ pc'[q] = pc[q] /\ seen'[q] = seen[q] /\ unread'[q] = unread[q] /\ tx'[q] = tx[q]
          /\ pos'[q] = pos[q] /\ stream'[q] = stream[q] /\ fd'[q] = fd[q]

SameContent == \A f \in File : Content(f)' = Content(f)

(* Such a step changes no content, and what is said of the others stays.     *)
LEMMA AloneKeeps ==
    ASSUME LogInv, NEW p \in Proc, Alone(p)
    PROVE  Disk' /\ SameContent /\ \A q \in Proc \ {p} : Mine(q)'
<1>1. SameContent
  BY DEF SameContent, Alone, files, Content, ContentOf
<1>2. Disk'
  BY <1>1 DEF SameContent, Alone, files, LogInv, Disk
<1>3. ASSUME NEW q \in Proc \ {p} PROVE Mine(q)'
  <2>1. /\ pc'[q] = pc[q] /\ unread'[q] = unread[q] /\ tx'[q] = tx[q] /\ nextTx' = nextTx
        /\ seen'[q] = seen[q] /\ stream'[q] = stream[q] /\ fd'[q] = fd[q]
        /\ temp' = temp /\ data' = data
    BY DEF Alone, files
  <2>2. \A f \in File : /\ Holds(q, f)' = Holds(q, f) /\ NewContent(q, f)' = NewContent(q, f)
                        /\ Content(f)' = Content(f)
    BY <1>1 DEF SameContent, Alone, Holds, NewContent
  <2>3. Mine(q)
    BY DEF LogInv
  <2>4. QED
    BY <2>1, <2>2, <2>3 DEF Mine
<1>4. QED
  BY <1>1, <1>2, <1>3

(* A step of p to somewhere it neither has read the database nor writes it. *)
Quiet(p) ==
    /\ Alone(p)
    /\ pc'[p] \notin {"open", "writing"}
    /\ pc'[p] = "reading" => unread'[p] = File
    /\ \/ stream'[p] = NoStreams
       \/ stream'[p] = stream[p] /\ (pc[p] # "writing" \/ pos[p] > Len(Ops))

(* Nothing is said of p after such a step, and nothing else changes.        *)
LEMMA QuietKeeps ==
    ASSUME LogInv, NEW p \in Proc, Base', Quiet(p)
    PROVE  LogInv' /\ SameContent
<1>1. \A f \in File : stream'[p][f] \notin Live
  <2>1. CASE stream'[p] = NoStreams
    BY <2>1 DEF NoStreams, Live
  <2>2. CASE stream'[p] = stream[p] /\ (pc[p] # "writing" \/ pos[p] > Len(Ops))
    <3> SUFFICES ASSUME NEW f \in File, stream[p][f] \in Live PROVE FALSE
      BY <2>2
    <3>1. pc[p] = "writing" /\ pos[p] <= PublishAt[f]
      BY DEF LogInv, Mine, Holds
    <3>2. pos[p] \in Nat
      BY Types
    <3>3. QED
      BY <2>2, <3>1, <3>2, OpsLength
  <2>3. QED
    BY <2>1, <2>2 DEF Quiet
<1>2. Mine(p)'
  BY <1>1 DEF Quiet, Mine, Holds
<1>3. QED
  BY <1>2, AloneKeeps DEF LogInv, Quiet

(* The steps that open nothing for writing: the lock, giving up, the end.   *)
LEMMA QuietSteps ==
    ASSUME LogInv, NEW p \in Proc,
           \/ Locking(p) \/ Block(p) \/ Acquire(p) \/ TimeOut(p) \/ LateAlarm(p) \/ SkipWrite(p)
           \/ EndWrite(p) \/ Exit(p)
    PROVE  Quiet(p)
<1> USE DEF LogInv, Base, TypeOK, Quiet, Alone, Goto, files
<1>1. CASE OpenUnlocked(p)
  BY <1>1 DEF OpenUnlocked, StartReading
<1>2. CASE OpenNewRoot(p)
  BY <1>2 DEF OpenNewRoot, StartReading
<1>3. CASE TryLock(p)
  BY <1>3 DEF TryLock, StartReading
<1>4. CASE SetAlarm(p)
  BY <1>4 DEF SetAlarm
<1>5. CASE Block(p)
  BY <1>5 DEF Block
<1>6. CASE Acquire(p)
  BY <1>6 DEF Acquire, StartReading
<1>7. CASE TimeOut(p)
  BY <1>7 DEF TimeOut
<1>8. CASE LateAlarm(p)
  BY <1>8 DEF LateAlarm
<1>9. CASE SkipWrite(p)
  BY <1>9 DEF SkipWrite
<1>10. CASE EndWrite(p)
  BY <1>10 DEF EndWrite
<1>11. CASE Exit(p)
  BY <1>11 DEF Exit
<1>12. QED
  BY <1>1, <1>2, <1>3, <1>4, <1>5, <1>6, <1>7, <1>8, <1>9, <1>10, <1>11, Zenon DEF Locking

(* apk_db_read_layer: only the holder of the lock relies on what it reads.  *)
LEMMA ReadKeeps ==
    ASSUME LogInv, NEW p \in Proc, NEW f \in File, ReadFile(p, f), Base'
    PROVE  LogInv' /\ SameContent
<1>1. Alone(p)
  BY DEF ReadFile, Alone, LogInv, Base, TypeOK, files
<1>2. /\ pc[p] = "reading" /\ pc'[p] \in {"reading", "open"}
      /\ unread'[p] = unread[p] \ {f}
      /\ pc'[p] = "open" => unread'[p] = {}
      /\ seen'[p][f] = Content(f)
      /\ \A g \in File \ {f} : seen'[p][g] = seen[p][g]
      /\ stream'[p] = stream[p]
  BY ProcAssumption DEF ReadFile, Readable, LogInv, Base, TypeOK, Disk
<1>3. SameContent
  BY <1>1, AloneKeeps
<1>4. Mine(p)'
  BY <1>2, <1>3 DEF LogInv, Mine, Holds, SameContent
<1>5. QED
  BY <1>1, <1>4, AloneKeeps DEF LogInv

(* apk_db_write_config: nobody else may write, so the transaction is the    *)
(* last one begun.                                                          *)
LEMMA BeginKeeps ==
    ASSUME LogInv, NEW p \in Proc, BeginWrite(p), Base'
    PROVE  LogInv' /\ SameContent
<1>1. /\ p \notin Readers /\ \A q \in Proc \ {p} : ~Writable(q)
  BY ProcAssumption DEF BeginWrite, MayWrite, LogInv, Base, LockHeld, Writable
<1>2. /\ UNCHANGED <<real, temp, data, seen, unread, stream, fd>> /\ nextTx' = nextTx + 1
      /\ \A q \in Proc \ {p} : pc'[q] = pc[q] /\ tx'[q] = tx[q] /\ pos'[q] = pos[q]
      /\ pc[p] = "open" /\ pc'[p] = "writing" /\ tx'[p] = nextTx /\ pos'[p] = 1 /\ nextTx <= MaxTx
  BY DEF BeginWrite, Goto, LogInv, Base, TypeOK
<1>3. SameContent
  BY <1>2 DEF SameContent, Content, ContentOf
<1>4. Disk'
  <2>1. Disk /\ nextTx \in Nat
    BY Types DEF LogInv
  <2>2. \A f \in File : Content(f)' = Content(f) /\ DOMAIN Content(f) \subseteq Nat
                         /\ \A k \in DOMAIN Content(f) : Content(f)[k] \in Nat
    BY <1>3, <2>1, BoundAssumption DEF SameContent, Disk, Log
  <2>3. QED
    BY <1>2, <2>1, <2>2 DEF Disk
<1>5. ASSUME NEW q \in Proc \ {p} PROVE Mine(q)'
  BY <1>1, <1>2, <1>3, <1>5 DEF SameContent, LogInv, Mine, Holds, Writable, Base
<1>6. Mine(p)'
  BY <1>1, <1>2, <1>3, SMTT(60) DEF SameContent, LogInv, Mine, Holds, Disk, Base, TypeOK
<1>7. QED
  BY <1>3, <1>4, <1>5, <1>6 DEF LogInv

(* A step of apk_db_write_layers for f by p.  Nobody else may write, and    *)
(* only a rename is the last operation for a file.                          *)
LEMMA WriterAlone ==
    ASSUME LogInv, NEW p \in Proc, NEW op, NEW f \in File, IsNext(p, op, f)
    PROVE  /\ p \notin Readers /\ pc[p] = "writing"
           /\ \A q \in Proc \ {p} : ~Writable(q)
           /\ pos[p] \in 1..16 /\ Ops[pos[p]] = <<op, f>>
<1>1. pc[p] = "writing" /\ pos[p] \in 1..16 /\ Ops[pos[p]] = <<op, f>>
  <2>1. pos[p] \in Nat /\ pos[p] >= 1
    BY Types
  <2>2. pc[p] = "writing" /\ pos[p] <= Len(Ops) /\ Ops[pos[p]] = <<op, f>>
    BY DEF IsNext
  <2>3. QED
    BY <2>1, <2>2, OpsLength
<1>2. QED
  BY <1>1, ProcAssumption DEF LogInv, Base, LockHeld, Writable

(* What a step for f other than its rename leaves alone.                    *)
Elsewhere(p, f) ==
    /\ UNCHANGED <<pc, seen, unread, tx, real, nextTx>>
    /\ pos' = [pos EXCEPT ![p] = @ + 1]
    /\ \A q \in Proc, g \in File : q # p \/ g # f => stream'[q][g] = stream[q][g] /\ fd'[q][g] = fd[q][g]
    /\ \A g \in File \ {f} : temp'[g] = temp[g] /\ data'[g] = data[g]

(* What such a step does to f: p's stream holds what it says it holds.      *)
Within(p, f) ==
    /\ data'[f][real[f]] = data[f][real[f]]
    /\ temp'[f] # real[f]
    /\ stream'[p][f] \in Live =>
           /\ temp'[f] \in Inode /\ fd'[p][f] = temp'[f]
           /\ stream'[p][f] # "empty" => data'[f][temp'[f]][1] = NewContent(p, f)
           /\ stream'[p][f] = "full" => data'[f][temp'[f]][2] = NewContent(p, f)

(* Such a step keeps the invariant.                                         *)
LEMMA ElsewhereKeeps ==
    ASSUME LogInv, NEW p \in Proc, NEW op \in {"open", "write", "flush"}, NEW f \in File,
           IsNext(p, op, f), Elsewhere(p, f), Within(p, f), Base'
    PROVE  LogInv' /\ SameContent
<1>1. SameContent
  BY DEF SameContent, Elsewhere, Within, Content, ContentOf
<1>2. Disk'
  BY <1>1 DEF SameContent, Elsewhere, Within, LogInv, Disk
<1>3. ASSUME NEW q \in Proc \ {p} PROVE Mine(q)'
  <2>1. ~Writable(q)
    BY WriterAlone
  <2>2. Mine(q) /\ (q \in Readers => pc[q] # "writing")
    BY Zenon DEF LogInv, Base
  <2>3. pc[q] # "writing"
    BY <2>1, <2>2 DEF Writable
  <2>4. \A g \in File : stream[q][g] \notin Live
    BY <2>2, <2>3, Zenon DEF Mine
  <2>5. pc'[q] = pc[q] /\ unread'[q] = unread[q] /\ \A g \in File : stream'[q][g] = stream[q][g]
    BY <1>3 DEF Elsewhere
  <2>6. \A g \in File : ~Holds(q, g)'
    BY <2>1, <2>5 DEF Holds, Writable
  <2>7. QED
    BY <2>2, <2>3, <2>4, <2>5, <2>6 DEF Mine
<1>4. Mine(p)'
  <2>1. /\ pc[p] = "writing" /\ p \notin Readers /\ pos[p] \in 1..16 /\ Ops[pos[p]] = <<op, f>>
        /\ pos'[p] = pos[p] + 1
    <3>1. pc[p] = "writing" /\ p \notin Readers /\ pos[p] \in 1..16 /\ Ops[pos[p]] = <<op, f>>
      BY WriterAlone
    <3>2. pos \in [Proc -> Nat]
      BY DEF LogInv, Base, TypeOK
    <3>3. QED
      BY <3>1, <3>2 DEF Elsewhere
  <2>2. \A g \in File : pos[p] # PublishAt[g] /\ PublishAt[g] \in 1..16
    <3> TAKE g \in File
    <3>1. pos[p] = PublishAt[g] => Ops[pos[p]] # <<op, f>>
      <4> SUFFICES ASSUME pos[p] = PublishAt[g] PROVE Ops[pos[p]] # <<op, f>>
        OBVIOUS
      <4>1. Ops[pos[p]] # <<"open", f>> /\ Ops[pos[p]] # <<"write", f>> /\ Ops[pos[p]] # <<"flush", f>>
        BY <2>1, OpsOrder
      <4>2. QED
        BY <4>1
    <3>2. QED
      BY <2>1, <3>1, OpsLength, Zenon
  <2>3. \A g \in File : /\ Holds(p, g)' = Holds(p, g) /\ NewContent(p, g)' = NewContent(p, g)
                        /\ Content(g)' = Content(g)
    <3> TAKE g \in File
    <3>1. pos'[p] <= PublishAt[g] <=> pos[p] <= PublishAt[g]
      BY <2>1, <2>2
    <3>2. Holds(p, g)' = Holds(p, g)
      BY <2>1, <3>1 DEF Holds, Elsewhere
    <3>3. QED
      BY <1>1, <3>2, Zenon DEF Elsewhere, NewContent, SameContent
  <2>4. Mine(p)
    BY DEF LogInv
  <2>5. Holds(p, f)
    <3>1. pos[p] < PublishAt[f]
      BY <2>1, OpsOrder, SMTT(60)
    <3>2. QED
      BY <2>1, <2>2, <3>1 DEF Holds
  <2>6. pc'[p] = "writing" /\ unread'[p] = unread[p] /\ tx'[p] = tx[p] /\ nextTx' = nextTx
        /\ seen'[p] = seen[p]
    BY <2>1 DEF Elsewhere
  <2>7. ASSUME NEW g \in File, stream'[p][g] \in Live
        PROVE  /\ Holds(p, g)' /\ temp'[g] \in Inode /\ fd'[p][g] = temp'[g]
               /\ stream'[p][g] # "empty" => data'[g][temp'[g]][1] = NewContent(p, g)'
               /\ stream'[p][g] = "full" => data'[g][temp'[g]][2] = NewContent(p, g)'
    <3>1. CASE g = f
      BY <2>3, <2>5, <2>7, <3>1, Zenon DEF Within
    <3>2. CASE g # f
      <4>1. /\ stream'[p][g] = stream[p][g] /\ temp'[g] = temp[g] /\ fd'[p][g] = fd[p][g]
            /\ data'[g] = data[g]
        BY <2>7, <3>2, Zenon DEF Elsewhere
      <4>2. QED
        BY <2>3, <2>4, <2>7, <4>1, Zenon DEF Mine
    <3>3. QED
      BY <3>1, <3>2
  <2>8. QED
    BY <2>1, <2>3, <2>4, <2>6, <2>7, Zenon DEF Mine
<1>5. QED
  BY <1>1, <1>2, <1>3, <1>4 DEF LogInv

(* apk_ostream_to_file: the temporary file is never the published one.      *)
LEMMA OpenTmpKeeps ==
    ASSUME LogInv, NEW p \in Proc, NEW f \in File, OpenTmp(p, f), Base'
    PROVE  LogInv' /\ SameContent
<1>1. IsNext(p, "open", f) /\ pos' = [pos EXCEPT ![p] = @ + 1]
      /\ UNCHANGED <<pc, seen, unread, tx, real, nextTx>>
  BY DEF OpenTmp, Advance
<1>2. CASE /\ temp[f] # None \/ Inode \ InUse(f) # {}
           /\ temp' = [temp EXCEPT ![f] = TmpInode(f)]
           /\ fd' = [fd EXCEPT ![p][f] = TmpInode(f)]
           /\ data' = [data EXCEPT ![f][TmpInode(f)] = EmptyInode]
           /\ SetStream(p, f, "empty")
  <2>1. TmpInode(f) \in Inode /\ TmpInode(f) # real[f]
    <3>1. CASE temp[f] # None
      BY <3>1 DEF TmpInode, LogInv, Disk, Base, TypeOK
    <3>2. CASE temp[f] = None
      <4>1. TmpInode(f) \in Inode \ InUse(f)
        BY <1>2, <3>2 DEF TmpInode
      <4>2. QED
        BY <4>1 DEF InUse
    <3>3. QED
      BY <3>1, <3>2
  <2>2. /\ Elsewhere(p, f) /\ temp'[f] = TmpInode(f) /\ fd'[p][f] = TmpInode(f)
        /\ stream'[p][f] = "empty"
    BY <1>1, <1>2, <2>1, Types DEF Elsewhere, SetStream
  <2>3. data'[f][real[f]] = data[f][real[f]]
    BY <1>2, <2>1, Types
  <2>4. QED
    BY <1>1, <2>1, <2>2, <2>3, ElsewhereKeeps DEF Within
<1>3. CASE SetStream(p, f, "none") /\ UNCHANGED <<temp, fd, data>>
  <2>1. Elsewhere(p, f) /\ stream'[p][f] = "none"
    BY <1>1, <1>3, Types DEF Elsewhere, SetStream
  <2>2. data'[f][real[f]] = data[f][real[f]] /\ temp'[f] # real[f]
    BY <1>3 DEF LogInv, Disk
  <2>3. QED
    BY <1>1, <2>1, <2>2, ElsewhereKeeps DEF Live, Within
<1>4. QED
  BY <1>2, <1>3 DEF OpenTmp

(* fdo_write and fdo_flush: the pieces go to the temporary file.            *)
LEMMA PieceKeeps ==
    ASSUME LogInv, NEW p \in Proc, NEW f \in File, WritePiece(p, f) \/ FlushPiece(p, f), Base'
    PROVE  LogInv' /\ SameContent
<1>1. PICK op \in {"write", "flush"}, k \in {1, 2}, from \in {"empty", "half"}, to \in {"half", "full"} :
          /\ IsNext(p, op, f) /\ pos' = [pos EXCEPT ![p] = @ + 1]
          /\ UNCHANGED <<pc, seen, unread, tx, real, nextTx, fd, temp>>
          /\ PutPiece(p, f, k, from, to)
          /\ (k = 1 /\ from = "empty" /\ to = "half") \/ (k = 2 /\ from = "half" /\ to = "full")
  BY DEF WritePiece, FlushPiece, Advance
<1>2. Mine(p) /\ temp[f] # real[f]
  BY DEF LogInv, Disk
<1>3. CASE /\ stream[p][f] = from
           /\ data' = [data EXCEPT ![f][fd[p][f]][k] = NewContent(p, f)]
           /\ SetStream(p, f, to)
  <2>1. /\ temp[f] \in Inode /\ fd[p][f] = temp[f]
        /\ from = "half" => data[f][temp[f]][1] = NewContent(p, f)
    BY <1>2, <1>3 DEF Mine, Live
  <2>2. Elsewhere(p, f) /\ stream'[p][f] = to
    BY <1>1, <1>3, Types DEF Elsewhere, SetStream
  <2>3. /\ data'[f][real[f]] = data[f][real[f]]
        /\ data'[f][temp[f]][k] = NewContent(p, f)
        /\ k = 2 => data'[f][temp[f]][1] = data[f][temp[f]][1]
    BY <1>2, <1>3, <2>1, Types, SMTT(60)
  <2>4. QED
    <3>1. Within(p, f)
      BY <1>1, <1>2, <2>1, <2>2, <2>3 DEF Within, Live
    <3>2. QED
      BY <1>1, <2>2, <3>1, ElsewhereKeeps, SMTT(60)
<1>4. CASE /\ SetStream(p, f, IF stream[p][f] = "none" THEN "none" ELSE "bad")
           /\ UNCHANGED data
  <2>1. Elsewhere(p, f) /\ stream'[p][f] \notin Live
    BY <1>1, <1>4, Types, SMTT(60) DEF Elsewhere, SetStream, Live
  <2>2. data'[f][real[f]] = data[f][real[f]] /\ temp'[f] # real[f]
    BY <1>1, <1>2, <1>4
  <2>3. QED
    BY <1>1, <2>1, <2>2, ElsewhereKeeps DEF Within
<1>5. QED
  BY <1>1, <1>3, <1>4 DEF PutPiece
=============================================================================
