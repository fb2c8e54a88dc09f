---------------------------- MODULE DbLogProofs ----------------------------
(***************************************************************************)
(* DbPersist implements DbLog in a root that has been set up, for any      *)
(* processes, any kills and any I/O errors: what the database files show   *)
(* is a log of whole transactions to which rename adds one at a time.  A   *)
(* write that reports no error has reached all files, and without I/O      *)
(* errors the files are in the order in which they are renamed.            *)
(***************************************************************************)
EXTENDS DbLogSteps

(* One transaction more at the end of one file.                             *)
Adds(f, t) ==
    /\ Content(f)' = Append(Content(f), t)
    /\ \A k \in 1..Len(Content(f)) : Content(f)[k] < t
    /\ \A g \in File \ {f} : Content(g)' = Content(g)

(* fdo_close: what is renamed is the old log and the transaction.           *)
LEMMA PublishKeeps ==
    ASSUME LogInv, NEW p \in Proc, NEW f \in File, Publish(p, f), Base'
    PROVE  /\ LogInv' /\ tx[p] \in 1..MaxTx
           /\ Adds(f, tx[p]) \/ (SameContent /\ (err'[p] = TRUE \/ stream[p][f] = "none"))
<1>1. /\ IsNext(p, "publish", f) /\ pos' = [pos EXCEPT ![p] = @ + 1]
      /\ UNCHANGED <<pc, seen, unread, tx, nextTx>>
      /\ stream' = [stream EXCEPT ![p][f] = "none"] /\ fd' = [fd EXCEPT ![p][f] = None]
      /\ \A g \in File \ {f} : real'[g] = real[g] /\ temp'[g] = temp[g] /\ data'[g] = data[g]
      /\ \/ stream[p][f] = "full" /\ real'[f] = temp[f] /\ temp'[f] = None
         \/ /\ real'[f] = real[f] /\ temp'[f] \in {None, temp[f]}
            /\ err'[p] = TRUE \/ stream[p][f] = "none"
  BY SMTT(60) DEF Publish, Advance, SetStream, Fails, LogInv, Base, TypeOK
<1>2. real'[f] \in Inode => data'[f][real'[f]] = data[f][real'[f]]
  BY DEF Publish, InUse, LogInv, Base, TypeOK
<1>3. /\ pc[p] = "writing" /\ p \notin Readers /\ pos[p] = PublishAt[f] /\ pos'[p] = pos[p] + 1
      /\ PublishAt[f] \in 1..16 /\ \A q \in Proc \ {p} : ~Writable(q)
  <2>1. /\ pc[p] = "writing" /\ p \notin Readers /\ \A q \in Proc \ {p} : ~Writable(q)
        /\ pos[p] \in 1..16 /\ Ops[pos[p]] = <<"publish", f>>
    BY <1>1, WriterAlone
  <2>2. pos[p] = PublishAt[f]
    BY <2>1, OpsOrder
  <2>3. QED
    BY <1>1, <2>1, <2>2, SMTT(60) DEF LogInv, Base, TypeOK
<1>4. /\ Mine(p) /\ Holds(p, f) /\ real[f] \in Inode /\ Content(f) \in Seq(Nat)
      /\ tx[p] = nextTx - 1 /\ tx[p] \in 1..MaxTx /\ nextTx \in Nat
      /\ \A k \in 1..Len(Content(f)) : Content(f)[k] < tx[p]
  <2>1. Mine(p) /\ real[f] \in Inode /\ Content(f) \in Seq(Nat) /\ nextTx \in Nat
    BY Zenon DEF LogInv, Disk, Log, Base, TypeOK
  <2>2. Holds(p, f)
    BY <1>3 DEF Holds
  <2>3. QED
    BY <1>3, <2>1, <2>2 DEF Mine
<1>5. \A g \in File \ {f} : Content(g)' = Content(g)
  BY <1>1, Zenon DEF Content, ContentOf
<1>6. \/ /\ real'[f] = real[f] /\ Content(f)' = Content(f)
         /\ err'[p] = TRUE \/ stream[p][f] = "none"
      \/ real'[f] = temp[f] /\ temp'[f] = None /\ temp[f] \in Inode
         /\ Content(f)' = Append(Content(f), tx[p])
  <2>1. CASE real'[f] = real[f] /\ (err'[p] = TRUE \/ stream[p][f] = "none")
    BY <1>2, <1>4, <2>1, Zenon DEF Content, ContentOf
  <2>2. CASE stream[p][f] = "full" /\ real'[f] = temp[f] /\ temp'[f] = None
    <3>1. /\ temp[f] \in Inode
          /\ data[f][temp[f]][1] = NewContent(p, f) /\ data[f][temp[f]][2] = NewContent(p, f)
          /\ seen[p][f] = Content(f)
      BY <1>4, <2>2, Zenon DEF Mine, Live
    <3>2. NewContent(p, f) = Append(Content(f), tx[p]) /\ NewContent(p, f) \in Log
      BY <1>4, <3>1 DEF NewContent, Log
    <3>3. Content(f)' = ContentOf(data'[f][real'[f]])
      BY <2>2, <3>1, ProcAssumption, Zenon DEF Content, ContentOf
    <3>4. ContentOf(data[f][temp[f]]) = NewContent(p, f)
      BY <3>1, <3>2, MarkAssumption, Zenon DEF ContentOf
    <3>5. QED
      BY <1>2, <2>2, <3>1, <3>2, <3>3, <3>4, Zenon
  <2>3. QED
    BY <1>1, <2>1, <2>2, Zenon
<1>7. Adds(f, tx[p]) \/ (SameContent /\ (err'[p] = TRUE \/ stream[p][f] = "none"))
  BY <1>4, <1>5, <1>6, Zenon DEF SameContent, Adds
<1>8. Disk'
  <2>1. ASSUME NEW g \in File \ {f}
        PROVE  /\ real'[g] \in Inode /\ temp'[g] # real'[g] /\ Content(g)' \in Log
               /\ \A k \in DOMAIN Content(g)' : Content(g)'[k] < nextTx'
    BY <1>1, <1>5, <2>1, Zenon DEF LogInv, Disk
  <2>2. real'[f] \in Inode /\ temp'[f] # real'[f]
    BY <1>1, <1>4, <1>6, ProcAssumption, Zenon DEF LogInv, Disk
  <2>3. Content(f)' \in Log
    BY <1>4, <1>6 DEF Log
  <2>4. \A k \in DOMAIN Content(f)' : Content(f)'[k] < nextTx'
    <3>1. CASE Content(f)' = Content(f)
      BY <1>1, <3>1, Zenon DEF LogInv, Disk
    <3>2. CASE Content(f)' = Append(Content(f), tx[p])
      BY <1>1, <1>4, <3>2
    <3>3. QED
      BY <1>6, <3>1, <3>2, Zenon
  <2>5. QED
    BY <2>1, <2>2, <2>3, <2>4, Zenon DEF Disk
<1>9. ASSUME NEW q \in Proc \ {p} PROVE Mine(q)'
  <2>1. ~Writable(q) /\ Mine(q) /\ (q \in Readers => pc[q] # "writing")
    BY <1>3, Zenon DEF LogInv, Base
  <2>2. \A g \in File : stream[q][g] \notin Live /\ stream'[q][g] = stream[q][g]
    BY <1>1, <2>1, Zenon DEF Mine, Holds, Writable, LogInv, Base, TypeOK
  <2>3. pc'[q] = pc[q] /\ unread'[q] = unread[q] /\ pc[q] # "writing" /\ \A g \in File : ~Holds(q, g)'
    BY <1>1, <2>1, Zenon DEF Holds, Writable
  <2>4. QED
    BY <2>1, <2>2, <2>3, Zenon DEF Mine
<1>10. Mine(p)'
  <2>1. ~Holds(p, f)' /\ stream'[p][f] \notin Live
    BY <1>1, <1>3, SMTT(60) DEF Holds, Live, LogInv, Base, TypeOK
  <2>2. ASSUME NEW g \in File \ {f}
        PROVE  /\ Holds(p, g)' = Holds(p, g) /\ NewContent(p, g)' = NewContent(p, g)
               /\ stream'[p][g] = stream[p][g] /\ fd'[p][g] = fd[p][g]
    <3>1. pos[p] # PublishAt[g] /\ PublishAt[g] \in 1..16
      BY <1>3, <2>2, OpsLength DEF PublishAt, File
    <3>2. pos'[p] <= PublishAt[g] <=> pos[p] <= PublishAt[g]
      BY <1>3, <3>1
    <3>3. Holds(p, g)' = Holds(p, g)
      BY <1>1, <1>3, <3>2, Zenon DEF Holds
    <3>4. QED
      BY <1>1, <2>2, <3>3, SMTT(60) DEF NewContent, LogInv, Base, TypeOK
  <2>3. ASSUME NEW g \in File
        PROVE  /\ Holds(p, g)' => seen'[p][g] = Content(g)'
               /\ pc'[p] = "writing" /\ Holds(p, g)' =>
                      \A k \in DOMAIN Content(g)' : Content(g)'[k] < tx'[p]
               /\ stream'[p][g] \in Live =>
                      /\ pc'[p] = "writing" /\ Holds(p, g)'
                      /\ temp'[g] \in Inode /\ fd'[p][g] = temp'[g]
                      /\ stream'[p][g] # "empty" => data'[g][temp'[g]][1] = NewContent(p, g)'
                      /\ stream'[p][g] = "full" => data'[g][temp'[g]][2] = NewContent(p, g)'
    <3>1. CASE g = f
      BY <2>1, <3>1, Zenon
    <3>2. CASE g # f
      <4>1. Content(g)' = Content(g) /\ temp'[g] = temp[g] /\ data'[g] = data[g]
            /\ pc' = pc /\ seen' = seen /\ tx' = tx
        BY <1>1, <1>5, <3>2, Zenon
      <4>2. QED
        BY <1>4, <2>2, <3>2, <4>1, Zenon DEF Mine
    <3>3. QED
      BY <3>1, <3>2, Zenon
  <2>4. /\ pc'[p] \in {"open", "writing"} => unread'[p] = {}
        /\ pc'[p] = "writing" => tx'[p] = nextTx' - 1 /\ tx'[p] \in 1..MaxTx
    BY <1>1, <1>4, Zenon DEF Mine
  <2>5. QED
    BY <2>3, <2>4, Zenon DEF Mine
<1>11. QED
  BY <1>4, <1>7, <1>8, <1>9, <1>10, Zenon DEF LogInv

(* p renames the new f into place, which adds p's transaction to it.        *)
PublishAdds(p, f) == Publish(p, f) /\ tx[p] \in 1..MaxTx /\ Adds(f, tx[p])

(* Every step keeps the invariant and is a step of the log or none.         *)
LEMMA LogStep ==
    ASSUME LogInv, [Next]_vars
    PROVE  LogInv' /\ (SameContent \/ \E q \in Proc, f \in File : PublishAdds(q, f))
<1>1. Base'
  BY BaseStep, Zenon
<1>2. CASE UNCHANGED vars
  <2>1. SameContent
    BY <1>2, Zenon DEF vars, files, SameContent, Content, ContentOf
  <2>2. Disk'
    BY <1>2, <2>1, Zenon DEF vars, files, SameContent, LogInv, Disk
  <2>3. ASSUME NEW p \in Proc PROVE Mine(p)'
    <3>1. \A f \in File : (Holds(p, f)' <=> Holds(p, f)) /\ NewContent(p, f)' = NewContent(p, f)
                           /\ Content(f)' = Content(f)
      BY <1>2, <2>1, Zenon DEF vars, files, Holds, NewContent, SameContent
    <3>2. Mine(p)
      BY Zenon DEF LogInv
    <3>3. QED
      BY <1>2, <3>1, <3>2, Zenon DEF vars, files, Mine
  <2>4. QED
    BY <1>1, <2>1, <2>2, <2>3, Zenon DEF LogInv
<1>3. ASSUME NEW p \in Proc,
             Locking(p) \/ Progress(p) \/ LateAlarm(p) \/ BeginWrite(p) \/ SkipWrite(p) \/ Crash(p)
      PROVE  LogInv' /\ (SameContent \/ \E q \in Proc, f \in File : PublishAdds(q, f))
  <2>1. CASE \/ Locking(p) \/ Block(p) \/ Acquire(p) \/ TimeOut(p) \/ LateAlarm(p) \/ SkipWrite(p)
             \/ EndWrite(p) \/ Exit(p)
    BY <1>1, <2>1, QuietSteps, QuietKeeps, Zenon
  <2>2. CASE BeginWrite(p)
    BY <1>1, <2>2, BeginKeeps, Zenon
  <2>3. ASSUME NEW f \in File, ReadFile(p, f) PROVE LogInv' /\ SameContent
    BY <1>1, <2>3, ReadKeeps, Zenon
  <2>4. ASSUME NEW f \in File, OpenTmp(p, f) \/ WritePiece(p, f) \/ FlushPiece(p, f)
        PROVE  LogInv' /\ SameContent
    BY <1>1, <2>4, OpenTmpKeeps, PieceKeeps, Zenon
  <2>5. ASSUME NEW f \in File, Publish(p, f)
        PROVE  LogInv' /\ (SameContent \/ PublishAdds(p, f))
    BY <1>1, <2>5, PublishKeeps, Zenon DEF PublishAdds
  <2>6. QED
    BY <1>3, <2>1, <2>2, <2>3, <2>4, <2>5, Zenon DEF Progress, Close, Crash
<1>4. QED
  BY <1>2, <1>3, Zenon DEF Next

(* A root that has been set up starts with empty logs.                      *)
LEMMA LogInit == ~NewRoot /\ Init => LogInv /\ Files!Init
<1> SUFFICES ASSUME ~NewRoot, Init PROVE LogInv /\ Files!Init
  BY Zenon
<1>1. FirstInode \in Inode
  BY ProcAssumption, Zenon DEF FirstInode
<1>2. \A f \in File : /\ real[f] = FirstInode /\ temp[f] = None
                      /\ Content(f) = <<>>
  <2> TAKE f \in File
  <2>1. real[f] = FirstInode /\ temp[f] = None
    BY Zenon DEF Init
  <2>2. data[f][FirstInode] = [k \in {1, 2} |-> <<>>]
    BY <1>1, Zenon DEF Init
  <2>3. FirstInode # None /\ Hole # <<>>
    <3>1. <<>> \in Seq(Nat)
      OBVIOUS
    <3>2. QED
      BY <1>1, <3>1, MarkAssumption, ProcAssumption, Zenon DEF Log
  <2>4. QED
    BY <2>1, <2>2, <2>3, Zenon DEF Content, ContentOf
<1>3. Disk
  <2>1. <<>> \in Seq(Nat) /\ DOMAIN <<>> = {}
    OBVIOUS
  <2>2. QED
    BY <1>1, <1>2, <2>1, ProcAssumption, Zenon DEF Disk, Log
<1>4. \A p \in Proc : Mine(p)
  BY Zenon DEF Init, Mine, Holds, NoStreams, Live
<1>5. data \in [File -> [Inode -> [{1, 2} -> Piece]]]
  BY DEF Init, EmptyInode, Piece, Log
<1>6. TypeOK
  BY <1>1, <1>5 DEF Init, TypeOK, PcState, NothingSeen, NoStreams, NoFds, StreamState, Log
<1>7. Base
  <2>1. LockHeld
    BY Zenon DEF Init, LockHeld, Writable, PcState
  <2>2. QED
    BY <1>6, <2>1, ProcAssumption DEF Init, Base
<1>8. Files!Init
  BY <1>2, Zenon DEF Files!Init
<1>9. QED
  BY <1>3, <1>4, <1>7, <1>8, Zenon DEF LogInv

(* The database files implement the log: whoever reads them, with or        *)
(* without the lock, at any moment, after any kill or I/O error, finds in   *)
(* each the transactions that reached it, whole and in order                *)
(* (apk_db_write_layers, apk_ostream_to_file, fdo_close).                   *)
THEOREM FilesImplementLog == ~NewRoot /\ Spec => ImplementsDbLog
<1>1. ~NewRoot /\ Init => LogInv /\ Files!Init
  BY LogInit, Zenon
<1>2. LogInv /\ [Next]_vars => LogInv'
  BY LogStep, Zenon
<1>3. LogInv /\ [Next]_vars => [Files!Next]_([f \in File |-> Content(f)])
  <2> SUFFICES ASSUME LogInv, [Next]_vars PROVE [Files!Next]_([f \in File |-> Content(f)])
    BY Zenon
  <2>1. CASE SameContent
    BY <2>1, Zenon DEF SameContent
  <2>2. ASSUME NEW f \in File, NEW t \in 1..MaxTx, Adds(f, t)
        PROVE  Files!Next
    <3>1. Files!Add(f, t)
      BY <2>2, Zenon DEF Adds, Files!Add
    <3>2. QED
      BY <3>1, Zenon DEF Files!Next
  <2>3. QED
    BY <2>1, <2>2, LogStep, Zenon DEF PublishAdds
<1>4. QED
  BY <1>1, <1>2, <1>3, PTL DEF Spec, ImplementsDbLog, Files!Spec

-----------------------------------------------------------------------------
(* Where apk_db_write_layers opens, first writes and last writes a file.    *)
OpenAt == [f \in File |-> CASE f = "installed" -> 1 [] f = "triggers" -> 2
                            [] f = "scripts" -> 3 [] f = "world" -> 4]
WriteAt == [f \in File |-> CASE f = "world" -> 5 [] f = "installed" -> 8
                             [] f = "scripts" -> 9 [] f = "triggers" -> 10]
FlushAt == [f \in File |-> CASE f = "world" -> 6 [] f = "installed" -> 11
                             [] f = "scripts" -> 13 [] f = "triggers" -> 15]

(* The state of the stream of f before operation n, when nothing fails.     *)
Expected(f, n) ==
    IF n <= OpenAt[f] \/ n > PublishAt[f] THEN "none"
    ELSE IF n <= WriteAt[f] THEN "empty" ELSE IF n <= FlushAt[f] THEN "half" ELSE "full"

(* Until p meets an error, every file it has opened has a stream, and every *)
(* file it has renamed shows its transaction.                               *)
Passed(p, f) == pc[p] = "closing" \/ (pc[p] = "writing" /\ pos[p] > PublishAt[f])
Opened(p, f) == pc[p] = "writing" /\ pos[p] > OpenAt[f] /\ pos[p] <= PublishAt[f]
Track(p) ==
    /\ pc[p] \notin {"writing", "closing"} => tx[p] = 0
    /\ tx[p] # 0 /\ ~err[p] =>
           \A f \in File : /\ Passed(p, f) => tx[p] \in Range(Content(f))
                           /\ Opened(p, f) => stream[p][f] # "none"

TrackInv == LogInv /\ \A p \in Proc : Track(p)

(* The steps of apk_db_write_layers for one file.                           *)
LEMMA OpsAt ==
    ASSUME NEW n \in 1..16, NEW f \in File
    PROVE  /\ Ops[n] = <<"open", f>> <=> n = OpenAt[f]
           /\ Ops[n] = <<"write", f>> <=> n = WriteAt[f]
           /\ Ops[n] = <<"flush", f>> <=> n = FlushAt[f]
           /\ Ops[n] = <<"publish", f>> <=> n = PublishAt[f]
  BY DEF Ops, OpenAt, WriteAt, FlushAt, PublishAt, File

(* Open, write, flush, rename, in this order.                               *)
LEMMA AtOrder ==
    ASSUME NEW f \in File
    PROVE  /\ OpenAt[f] \in 1..16 /\ WriteAt[f] \in 1..16 /\ FlushAt[f] \in 1..16 /\ PublishAt[f] \in 1..16
           /\ OpenAt[f] < WriteAt[f] /\ WriteAt[f] < FlushAt[f] /\ FlushAt[f] < PublishAt[f]
           /\ \A g \in File : g # f => /\ OpenAt[g] # OpenAt[f] /\ PublishAt[g] # PublishAt[f]
                                       /\ PublishAt[g] # OpenAt[f]
  BY DEF OpenAt, WriteAt, FlushAt, PublishAt, File

(* No file ever loses a transaction.                                        *)
LEMMA ContentGrows ==
    ASSUME LogInv, [Next]_vars, NEW g \in File
    PROVE  Range(Content(g)) \subseteq Range(Content(g)')
<1>1. Content(g) \in Seq(Nat)
  BY Zenon DEF LogInv, Disk, Log
<1>2. CASE Content(g)' = Content(g)
  BY <1>2, Zenon
<1>3. ASSUME NEW t \in 1..MaxTx, Content(g)' = Append(Content(g), t)
      PROVE  Range(Content(g)) \subseteq Range(Content(g)')
  BY <1>1, <1>3, BoundAssumption DEF Range
<1>4. Content(g)' = Content(g) \/ \E t \in 1..MaxTx : Content(g)' = Append(Content(g), t)
  BY LogStep, Zenon DEF SameContent, PublishAdds, Adds
<1>5. QED
  BY <1>2, <1>3, <1>4, Zenon

(* What is said of a process that does nothing stays true.                  *)
LEMMA TrackStays ==
    ASSUME TrackInv, [Next]_vars, NEW q \in Proc,
           pc'[q] = pc[q], tx'[q] = tx[q], err'[q] = err[q], pos'[q] = pos[q], stream'[q] = stream[q]
    PROVE  Track(q)'
<1>1. Track(q) /\ \A f \in File : Range(Content(f)) \subseteq Range(Content(f)')
  BY ContentGrows, Zenon DEF TrackInv
<1>2. \A f \in File : (Passed(q, f)' <=> Passed(q, f)) /\ (Opened(q, f)' <=> Opened(q, f))
  BY Zenon DEF Passed, Opened
<1>3. QED
  BY <1>1, <1>2, Zenon DEF Track

(* An operation of apk_db_write_layers: one that opens a file leaves a      *)
(* stream, one that renames a file leaves the transaction in it, or there   *)
(* was an error.                                                            *)
LEMMA TrackAdvances ==
    ASSUME TrackInv, [Next]_vars, NEW p \in Proc, pc[p] = "writing", pc'[p] = "writing",
           tx'[p] = tx[p], pos[p] \in 1..16, pos'[p] = pos[p] + 1, err[p] => err'[p],
           \A g \in File : pos[p] = OpenAt[g] => err'[p] \/ stream'[p][g] # "none",
           \A g \in File : pos[p] # OpenAt[g] /\ pos[p] < PublishAt[g] /\ stream[p][g] # "none" =>
               stream'[p][g] # "none",
           \A g \in File : pos[p] = PublishAt[g] => err'[p] \/ tx[p] \in Range(Content(g)')
    PROVE  Track(p)'
<1>1. Track(p) /\ \A f \in File : Range(Content(f)) \subseteq Range(Content(f)')
  BY ContentGrows, Zenon DEF TrackInv
<1>2. ASSUME NEW g \in File, tx[p] # 0, ~err'[p]
      PROVE  /\ Passed(p, g)' => tx[p] \in Range(Content(g)')
             /\ Opened(p, g)' => stream'[p][g] # "none"
  <2>1. OpenAt[g] \in 1..16 /\ PublishAt[g] \in 1..16
    BY AtOrder, Zenon
  <2>2. Passed(p, g)' => pos[p] = PublishAt[g] \/ Passed(p, g)
    BY <2>1 DEF Passed
  <2>3. Opened(p, g)' => pos[p] < PublishAt[g] /\ (pos[p] = OpenAt[g] \/ Opened(p, g))
    BY <2>1 DEF Opened
  <2>4. /\ Passed(p, g) => tx[p] \in Range(Content(g))
        /\ Opened(p, g) => stream[p][g] # "none"
    BY <1>1, <1>2, Zenon DEF Track
  <2>5. Opened(p, g) => pos[p] # OpenAt[g]
    BY <2>1 DEF Opened
  <2>6. QED
    BY <1>1, <1>2, <2>2, <2>3, <2>4, <2>5, Zenon
<1>3. QED
  BY <1>2, Zenon DEF Track

(* What a step of p leaves alone of the other processes.                    *)
Others(p) ==
    \A q \in Proc \ {p} : /\ pc'[q] = pc[q] /\ tx'[q] = tx[q] /\ err'[q] = err[q]
                          /\ pos'[q] = pos[q] /\ stream'[q] = stream[q]

(* Steps that neither begin a write nor belong to one.                      *)
LEMMA TrackQuiet ==
    ASSUME TrackInv, NEW p \in Proc,
           \/ Locking(p) \/ Block(p) \/ Acquire(p) \/ TimeOut(p) \/ LateAlarm(p) \/ SkipWrite(p)
           \/ Exit(p) \/ \E f \in File : ReadFile(p, f)
    PROVE  Others(p) /\ Track(p)'
<1>1. /\ Others(p) /\ tx' \in [Proc -> Nat]
      /\ tx'[p] = 0
  <2> USE DEF Others, TrackInv, Track, LogInv, Base, TypeOK, Goto
  <2>1. CASE OpenUnlocked(p)
    BY <2>1, Zenon DEF OpenUnlocked, StartReading
  <2>2. CASE OpenNewRoot(p)
    BY <2>2, Zenon DEF OpenNewRoot, StartReading
  <2>3. CASE TryLock(p)
    BY <2>3, Zenon DEF TryLock, StartReading
  <2>4. CASE SetAlarm(p)
    BY <2>4, Zenon DEF SetAlarm
  <2>5. CASE Block(p)
    BY <2>5, Zenon DEF Block
  <2>6. CASE Acquire(p)
    BY <2>6, Zenon DEF Acquire, StartReading
  <2>7. CASE TimeOut(p)
    BY <2>7, Zenon DEF TimeOut
  <2>8. CASE LateAlarm(p)
    BY <2>8, Zenon DEF LateAlarm
  <2>9. CASE SkipWrite(p)
    BY <2>9, Zenon DEF SkipWrite
  <2>10. CASE Exit(p)
    BY <2>10, Zenon DEF Exit
  <2>11. ASSUME NEW f \in File, ReadFile(p, f)
         PROVE  Others(p) /\ tx' \in [Proc -> Nat] /\ tx'[p] = 0
    BY <2>11, Zenon DEF ReadFile
  <2>12. QED
    BY <2>1, <2>2, <2>3, <2>4, <2>5, <2>6, <2>7, <2>8, <2>9, <2>10, <2>11, Zenon DEF Locking
<1>2. QED
  BY <1>1, Zenon DEF Track

(* Where p is when it makes an operation for f.                             *)
LEMMA AtOperation ==
    ASSUME LogInv, NEW p \in Proc, NEW f \in File,
           OpenTmp(p, f) \/ WritePiece(p, f) \/ FlushPiece(p, f) \/ Publish(p, f)
    PROVE  /\ pc[p] = "writing" /\ pc'[p] = "writing" /\ pos[p] \in 1..16 /\ pos'[p] = pos[p] + 1
           /\ UNCHANGED tx
           /\ OpenTmp(p, f) => pos[p] = OpenAt[f]
           /\ WritePiece(p, f) => pos[p] = WriteAt[f]
           /\ FlushPiece(p, f) => pos[p] = FlushAt[f]
           /\ Publish(p, f) => pos[p] = PublishAt[f]
           /\ Others(p)
           /\ \A g \in File \ {f} : stream'[p][g] = stream[p][g]
<1>1. /\ \E op \in {"open", "write", "flush", "publish"} : IsNext(p, op, f)
      /\ OpenTmp(p, f) => IsNext(p, "open", f)
      /\ WritePiece(p, f) => IsNext(p, "write", f)
      /\ FlushPiece(p, f) => IsNext(p, "flush", f)
      /\ Publish(p, f) => IsNext(p, "publish", f)
      /\ UNCHANGED <<pc, tx>> /\ Advance(p)
      /\ \E s \in StreamState : SetStream(p, f, s)
      /\ Fails(p) \/ UNCHANGED err
  BY Zenon DEF OpenTmp, WritePiece, FlushPiece, Publish, PutPiece, StreamState
<1>2. /\ pc[p] = "writing" /\ pos[p] \in 1..16
      /\ \A op : IsNext(p, op, f) => Ops[pos[p]] = <<op, f>>
  BY <1>1, WriterAlone, Zenon
<1>3. /\ pos'[p] = pos[p] + 1 /\ Others(p)
      /\ \A g \in File \ {f} : stream'[p][g] = stream[p][g]
  BY <1>1, Types DEF Others, Advance, SetStream, Fails, LogInv, Base, TypeOK
<1>4. QED
  BY <1>1, <1>2, <1>3, OpsAt

(* An operation of apk_db_write_layers keeps track.                         *)
LEMMA TrackWrites ==
    ASSUME TrackInv, NEW p \in Proc, NEW f \in File, [Next]_vars, Base',
           OpenTmp(p, f) \/ WritePiece(p, f) \/ FlushPiece(p, f) \/ Publish(p, f)
    PROVE  Others(p) /\ Track(p)'
<1>0. LogInv /\ Track(p)
  BY Zenon DEF TrackInv
<1>1. /\ pc[p] = "writing" /\ pc'[p] = "writing" /\ pos[p] \in 1..16 /\ pos'[p] = pos[p] + 1
      /\ tx'[p] = tx[p] /\ Others(p) /\ \A g \in File \ {f} : stream'[p][g] = stream[p][g]
  BY <1>0, AtOperation, Zenon
<1>2. /\ OpenAt[f] \in 1..16 /\ OpenAt[f] < WriteAt[f] /\ WriteAt[f] < FlushAt[f]
      /\ WriteAt[f] \in 1..16 /\ FlushAt[f] \in 1..16 /\ PublishAt[f] \in 1..16
      /\ FlushAt[f] < PublishAt[f]
  BY AtOrder, Zenon
<1>3. err[p] => err'[p]
  <2>1. err \in [Proc -> BOOLEAN]
    BY <1>0, Zenon DEF LogInv, Base, TypeOK
  <2>2. err' = err \/ Fails(p)
    BY Zenon DEF OpenTmp, WritePiece, FlushPiece, Publish
  <2>3. QED
    BY <2>1, <2>2, Zenon DEF Fails
<1>4. CASE OpenTmp(p, f)
  <2>1. pos[p] = OpenAt[f]
    BY <1>0, <1>4, AtOperation, Zenon
  <2>2. err'[p] \/ stream'[p][f] # "none"
    <3>1. stream \in [Proc -> [File -> StreamState]] /\ err \in [Proc -> BOOLEAN]
      BY <1>0, Zenon DEF LogInv, Base, TypeOK
    <3>2. CASE Fails(p)
      BY <3>1, <3>2, Zenon DEF Fails
    <3>3. CASE SetStream(p, f, "empty")
      BY <3>1, <3>3, Zenon DEF SetStream
    <3>4. QED
      BY <1>4, <3>2, <3>3, Zenon DEF OpenTmp
  <2>3. \A g \in File \ {f} : pos[p] # OpenAt[g] /\ pos[p] # PublishAt[g]
    BY <2>1, AtOrder, Zenon
  <2>4. pos[p] # PublishAt[f]
    BY <1>2, <2>1
  <2>5. QED
    BY <1>1, <1>3, <2>1, <2>2, <2>3, <2>4, TrackAdvances, Zenon
<1>5. CASE WritePiece(p, f) \/ FlushPiece(p, f)
  <2>1. pos[p] = WriteAt[f] \/ pos[p] = FlushAt[f]
    BY <1>0, <1>5, AtOperation, Zenon
  <2>2. stream[p][f] # "none" => stream'[p][f] # "none"
    <3>1. PICK t \in StreamState : SetStream(p, f, t) /\ (stream[p][f] # "none" => t # "none")
      BY <1>5, Zenon DEF WritePiece, FlushPiece, PutPiece, StreamState
    <3>2. stream \in [Proc -> [File -> StreamState]]
      BY <1>0, Types, Zenon
    <3>3. stream'[p][f] = t
      BY <3>1, <3>2, Zenon DEF SetStream
    <3>4. QED
      BY <3>1, <3>3, Zenon
  <2>3. \A g \in File : pos[p] # OpenAt[g] /\ pos[p] # PublishAt[g]
    BY <2>1 DEF WriteAt, FlushAt, OpenAt, PublishAt, File
  <2>4. QED
    BY <1>1, <1>3, <2>2, <2>3, TrackAdvances, Zenon
<1>6. CASE Publish(p, f)
  <2>1. pos[p] = PublishAt[f]
    BY <1>0, <1>6, AtOperation, Zenon
  <2>2. \A g \in File \ {f} : pos[p] # OpenAt[g] /\ pos[p] # PublishAt[g]
    BY <2>1 DEF OpenAt, PublishAt, File
  <2>3. err'[p] \/ tx[p] \in Range(Content(f)')
    <3>1. CASE Adds(f, tx[p])
      <4>1. Content(f)' = Append(Content(f), tx[p]) /\ Content(f) \in Seq(Nat) /\ tx[p] \in Nat
        BY <1>0, <3>1, Types, Zenon DEF Adds, LogInv, Disk, Log
      <4>2. Len(Content(f)') = Len(Content(f)) + 1 /\ Content(f)'[Len(Content(f)) + 1] = tx[p]
            /\ Len(Content(f)) \in Nat
        BY <4>1
      <4>3. Len(Content(f)) + 1 \in 1..Len(Content(f)')
        BY <4>2
      <4>4. DOMAIN (Content(f)') = 1..Len(Content(f)')
        BY <4>1
      <4>5. QED
        BY <4>2, <4>3, <4>4, Zenon DEF Range
    <3>2. CASE stream[p][f] = "none" /\ ~err[p]
      <4>1. Opened(p, f)
        BY <1>1, <1>2, <2>1 DEF Opened
      <4>2. tx[p] # 0
        <5>1. Mine(p)
          BY <1>0, Zenon DEF LogInv
        <5>2. tx[p] \in 1..MaxTx
          BY <1>1, <5>1, Zenon DEF Mine
        <5>3. QED
          BY <5>2
      <4>3. QED
        BY <1>0, <3>2, <4>1, <4>2, Zenon DEF Track
    <3>3. QED
      BY <1>0, <1>3, <1>6, <3>1, <3>2, PublishKeeps, Zenon
  <2>4. pos[p] # OpenAt[f]
    BY <1>2, <2>1
  <2>5. \A g \in File :
            /\ pos[p] # OpenAt[g]
            /\ pos[p] < PublishAt[g] /\ stream[p][g] # "none" => stream'[p][g] # "none"
            /\ pos[p] = PublishAt[g] => err'[p] \/ tx[p] \in Range(Content(g)')
    <3> TAKE g \in File
    <3>1. CASE g = f
      BY <1>2, <2>1, <2>3, <2>4, <3>1
    <3>2. CASE g # f
      BY <1>1, <2>2, <3>2, Zenon
    <3>3. QED
      BY <3>1, <3>2, Zenon
  <2>6. QED
    BY <1>1, <1>3, <2>5, TrackAdvances, Zenon
<1>7. QED
  BY <1>1, <1>4, <1>5, <1>6, Zenon

(* Every step of every process keeps track.                                 *)
LEMMA TrackStep ==
    ASSUME TrackInv, [Next]_vars
    PROVE  TrackInv'
<1>1. LogInv' /\ Base'
  BY LogStep, Zenon DEF TrackInv, LogInv
<1>2. CASE UNCHANGED vars
  <2>1. \A q \in Proc : Track(q)'
    BY <1>2, TrackStays, Zenon DEF vars
  <2>2. QED
    BY <1>1, <2>1, Zenon DEF TrackInv
<1>3. ASSUME NEW p \in Proc,
             Locking(p) \/ Progress(p) \/ LateAlarm(p) \/ BeginWrite(p) \/ SkipWrite(p) \/ Crash(p)
      PROVE  Others(p) /\ Track(p)'
  <2>1. CASE \/ Locking(p) \/ Block(p) \/ Acquire(p) \/ TimeOut(p) \/ LateAlarm(p) \/ SkipWrite(p)
             \/ Exit(p) \/ \E f \in File : ReadFile(p, f)
    BY <2>1, TrackQuiet, Zenon
  <2>2. CASE BeginWrite(p)
    <3>1. Others(p) /\ pc'[p] = "writing" /\ pos'[p] = 1
      BY <2>2, Zenon DEF BeginWrite, Goto, Others, TrackInv, LogInv, Base, TypeOK
    <3>2. \A f \in File : ~Passed(p, f)' /\ ~Opened(p, f)'
      <4>1. \A f \in File : ~(1 > PublishAt[f]) /\ ~(1 > OpenAt[f])
        BY AtOrder
      <4>2. QED
        BY <3>1, <4>1, Zenon DEF Passed, Opened
    <3>3. QED
      BY <3>1, <3>2, Zenon DEF Track
  <2>3. CASE EndWrite(p)
    <3>1. /\ Others(p) /\ pc[p] = "writing" /\ pc'[p] = "closing" /\ pos[p] > 16
          /\ UNCHANGED <<tx, err>> /\ pos[p] \in Nat
      BY <2>3, OpsLength, Zenon DEF EndWrite, Goto, Others, TrackInv, LogInv, Base, TypeOK
    <3>2. \A f \in File : Passed(p, f) /\ ~Opened(p, f)'
      <4>1. \A f \in File : pos[p] > PublishAt[f]
        BY <3>1, OpsLength
      <4>2. QED
        BY <3>1, <4>1, Zenon DEF Passed, Opened
    <3>3. Track(p) /\ \A f \in File : Range(Content(f)) \subseteq Range(Content(f)')
      BY ContentGrows, Zenon DEF TrackInv
    <3>4. QED
      BY <3>1, <3>2, <3>3, Zenon DEF Track
  <2>4. ASSUME NEW f \in File,
               OpenTmp(p, f) \/ WritePiece(p, f) \/ FlushPiece(p, f) \/ Publish(p, f)
        PROVE  Others(p) /\ Track(p)'
    BY <1>1, <2>4, TrackWrites, Zenon
  <2>5. QED
    BY <1>3, <2>1, <2>2, <2>3, <2>4, Zenon DEF Progress, Close, Crash
<1>4. ASSUME NEW p \in Proc, Others(p), Track(p)' PROVE TrackInv'
  <2>1. \A q \in Proc \ {p} : Track(q)'
    BY <1>4, TrackStays, Zenon DEF Others
  <2>2. QED
    BY <1>1, <1>4, <2>1, Zenon DEF TrackInv
<1>5. QED
  BY <1>2, <1>3, <1>4, Zenon DEF Next

(* A new run of apk has written nothing.                                    *)
LEMMA TrackInit == ~NewRoot /\ Init => TrackInv
  BY LogInit, Zenon DEF TrackInv, Track, Init

(* When apk_db_write_config reports no error, the transaction is in all     *)
(* four files, whatever failed before and whoever else was killed           *)
(* (apk_db_write_layers, fdo_close).                                        *)
THEOREM SilentWritesAreComplete == ~NewRoot /\ Spec => []SilentWriteIsComplete
<1>1. ~NewRoot /\ Init => TrackInv
  BY TrackInit, Zenon
<1>2. TrackInv /\ [Next]_vars => TrackInv'
  BY TrackStep, Zenon
<1>3. TrackInv => SilentWriteIsComplete
  BY Zenon DEF TrackInv, Track, Passed, SilentWriteIsComplete
<1>4. QED
  BY <1>1, <1>2, <1>3, PTL DEF Spec

-----------------------------------------------------------------------------
(* Without I/O errors p's streams are where its position says.              *)
Steady(p) ==
    /\ ~err[p]
    /\ \A f \in File : stream[p][f] = IF pc[p] = "writing" THEN Expected(f, pos[p]) ELSE "none"

OrderInv == TrackInv /\ PublishOrder /\ \A p \in Proc : Steady(p)

(* How a stream goes from operation to operation.                           *)
LEMMA ExpectedSteps ==
    ASSUME NEW n \in 1..16, NEW f \in File
    PROVE  /\ n = OpenAt[f] => Expected(f, n + 1) = "empty"
           /\ n = WriteAt[f] => Expected(f, n) = "empty" /\ Expected(f, n + 1) = "half"
           /\ n = FlushAt[f] => Expected(f, n) = "half" /\ Expected(f, n + 1) = "full"
           /\ n = PublishAt[f] => Expected(f, n) = "full" /\ Expected(f, n + 1) = "none"
           /\ n \notin {OpenAt[f], WriteAt[f], FlushAt[f], PublishAt[f]} =>
                  Expected(f, n + 1) = Expected(f, n)
<1>1. /\ OpenAt[f] \in Nat /\ WriteAt[f] \in Nat /\ FlushAt[f] \in Nat /\ PublishAt[f] \in Nat
      /\ OpenAt[f] < WriteAt[f] /\ WriteAt[f] < FlushAt[f] /\ FlushAt[f] < PublishAt[f]
  BY AtOrder
<1>2. n = OpenAt[f] => Expected(f, n + 1) = "empty"
  BY <1>1 DEF Expected
<1>3. n = WriteAt[f] => Expected(f, n) = "empty" /\ Expected(f, n + 1) = "half"
  BY <1>1 DEF Expected
<1>4. n = FlushAt[f] => Expected(f, n) = "half" /\ Expected(f, n + 1) = "full"
  BY <1>1 DEF Expected
<1>5. n = PublishAt[f] => Expected(f, n) = "full" /\ Expected(f, n + 1) = "none"
  BY <1>1 DEF Expected
<1>6. n \notin {OpenAt[f], WriteAt[f], FlushAt[f], PublishAt[f]} =>
          Expected(f, n + 1) = Expected(f, n)
  BY <1>1 DEF Expected
<1>7. QED
  BY <1>2, <1>3, <1>4, <1>5, <1>6, Zenon

(* The same at the operations of the file.                                  *)
LEMMA ExpectedAt ==
    ASSUME NEW f \in File
    PROVE  /\ Expected(f, 1) = "none" /\ Expected(f, OpenAt[f] + 1) = "empty"
           /\ Expected(f, WriteAt[f]) = "empty" /\ Expected(f, WriteAt[f] + 1) = "half"
           /\ Expected(f, FlushAt[f]) = "half" /\ Expected(f, FlushAt[f] + 1) = "full"
           /\ Expected(f, PublishAt[f]) = "full" /\ Expected(f, PublishAt[f] + 1) = "none"
<1>1. OpenAt[f] \in 1..16 /\ WriteAt[f] \in 1..16 /\ FlushAt[f] \in 1..16 /\ PublishAt[f] \in 1..16
  BY AtOrder, Zenon
<1>2. Expected(f, 1) = "none"
  BY <1>1 DEF Expected
<1>3. QED
  BY <1>1, <1>2, ExpectedSteps, Zenon

(* No operation is for two files.                                           *)
LEMMA OneFile ==
    ASSUME NEW f \in File, NEW g \in File \ {f},
           NEW n \in {OpenAt[f], WriteAt[f], FlushAt[f], PublishAt[f]}
    PROVE  n \notin {OpenAt[g], WriteAt[g], FlushAt[g], PublishAt[g]}
  BY DEF OpenAt, WriteAt, FlushAt, PublishAt, File

(* The process that writes meets no error.                                  *)
LEMMA SteadyWrites ==
    ASSUME OrderInv, "io" \notin Faults, NEW p \in Proc, NEW f \in File,
           OpenTmp(p, f) \/ WritePiece(p, f) \/ FlushPiece(p, f) \/ Publish(p, f)
    PROVE  Steady(p)'
<1>0. LogInv /\ Steady(p)
  BY Zenon DEF OrderInv, TrackInv
<1>1. /\ pc[p] = "writing" /\ pc'[p] = "writing" /\ pos[p] \in 1..16 /\ pos'[p] = pos[p] + 1
      /\ \A g \in File \ {f} : stream'[p][g] = stream[p][g]
      /\ pos[p] \in {OpenAt[f], WriteAt[f], FlushAt[f], PublishAt[f]}
  BY <1>0, AtOperation, Zenon
<1>2. ~err[p] /\ \A g \in File : stream[p][g] = Expected(g, pos[p])
  BY <1>0, <1>1, Zenon DEF Steady
<1>3. \A g \in File \ {f} : stream'[p][g] = Expected(g, pos'[p])
  <2> TAKE g \in File \ {f}
  <2>1. pos[p] \notin {OpenAt[g], WriteAt[g], FlushAt[g], PublishAt[g]}
    BY <1>1, OneFile, Zenon
  <2>2. Expected(g, pos[p] + 1) = Expected(g, pos[p])
    BY <1>1, <2>1, ExpectedSteps
  <2>3. QED
    BY <1>1, <1>2, <2>2, Zenon
<1>4. stream \in [Proc -> [File -> StreamState]] /\ err \in [Proc -> BOOLEAN]
  BY <1>0, Zenon DEF LogInv, Base, TypeOK
<1>5. stream'[p][f] = Expected(f, pos'[p]) /\ ~err'[p]
  <2>1. CASE OpenTmp(p, f)
    <3>1. Expected(f, pos'[p]) = "empty"
      <4>1. pos[p] = OpenAt[f]
        BY <1>0, <2>1, AtOperation, Zenon
      <4>2. pos'[p] = OpenAt[f] + 1
        BY <1>1, <4>1, Zenon
      <4>3. QED
        BY <4>2, ExpectedAt, Zenon
    <3>2. QED
      <4>1. SetStream(p, f, "empty") /\ UNCHANGED err
        BY <2>1, Zenon DEF OpenTmp
      <4>2. QED
        BY <1>2, <1>4, <3>1, <4>1, Zenon DEF SetStream
  <2>2. CASE WritePiece(p, f)
    <3>1. stream[p][f] = "empty" /\ Expected(f, pos'[p]) = "half"
      <4>1. pos[p] = WriteAt[f]
        BY <1>0, <2>2, AtOperation, Zenon
      <4>2. pos'[p] = WriteAt[f] + 1
        BY <1>1, <4>1, Zenon
      <4>3. QED
        BY <1>2, <4>1, <4>2, ExpectedAt, Zenon
    <3>2. QED
      <4>1. SetStream(p, f, "half") /\ UNCHANGED err
        BY <2>2, <3>1, Zenon DEF WritePiece, PutPiece
      <4>2. QED
        BY <1>2, <1>4, <3>1, <4>1, Zenon DEF SetStream
  <2>3. CASE FlushPiece(p, f)
    <3>1. stream[p][f] = "half" /\ Expected(f, pos'[p]) = "full"
      <4>1. pos[p] = FlushAt[f]
        BY <1>0, <2>3, AtOperation, Zenon
      <4>2. pos'[p] = FlushAt[f] + 1
        BY <1>1, <4>1, Zenon
      <4>3. QED
        BY <1>2, <4>1, <4>2, ExpectedAt, Zenon
    <3>2. QED
      <4>1. SetStream(p, f, "full") /\ UNCHANGED err
        BY <2>3, <3>1, Zenon DEF FlushPiece, PutPiece
      <4>2. QED
        BY <1>2, <1>4, <3>1, <4>1, Zenon DEF SetStream
  <2>4. CASE Publish(p, f)
    <3>1. stream[p][f] = "full" /\ Expected(f, pos'[p]) = "none"
      <4>1. pos[p] = PublishAt[f]
        BY <1>0, <2>4, AtOperation, Zenon
      <4>2. pos'[p] = PublishAt[f] + 1
        BY <1>1, <4>1, Zenon
      <4>3. QED
        BY <1>2, <4>1, <4>2, ExpectedAt, Zenon
    <3>2. temp[f] # None
      BY <1>0, <3>1, ProcAssumption, Zenon DEF LogInv, Mine, Live
    <3>3. QED
      BY <1>2, <1>4, <2>4, <3>1, <3>2, Zenon DEF Publish, SetStream
  <2>5. QED
    BY <2>1, <2>2, <2>3, <2>4, Zenon
<1>6. QED
  BY <1>1, <1>3, <1>5, Zenon DEF Steady

(* The other steps leave streams and errors as they are, or drop them.      *)
LEMMA SteadyElse ==
    ASSUME OrderInv, NEW p \in Proc,
           \/ Locking(p) \/ Block(p) \/ Acquire(p) \/ TimeOut(p) \/ LateAlarm(p) \/ SkipWrite(p)
           \/ Exit(p) \/ BeginWrite(p) \/ EndWrite(p) \/ \E f \in File : ReadFile(p, f)
    PROVE  Others(p) /\ Steady(p)'
<1>0. LogInv /\ TrackInv /\ Steady(p) /\ pc \in [Proc -> PcState]
  BY Types, Zenon DEF OrderInv, TrackInv
<1>1. CASE Exit(p)
  <2>1. err'[p] = FALSE /\ stream'[p] = NoStreams /\ pc'[p] = "closed" /\ Others(p)
    BY <1>0, <1>1, Zenon DEF Exit, Goto, Others, LogInv, Base, TypeOK
  <2>2. QED
    BY <2>1, Zenon DEF Steady, NoStreams
<1>2. CASE BeginWrite(p)
  <2>1. /\ err'[p] = err[p] /\ stream'[p] = stream[p] /\ pc[p] = "open" /\ pc'[p] = "writing"
        /\ pos'[p] = 1 /\ Others(p)
    BY <1>0, <1>2, Zenon DEF BeginWrite, Goto, Others, LogInv, Base, TypeOK
  <2>2. \A f \in File : Expected(f, 1) = "none"
    BY ExpectedAt, Zenon
  <2>3. Steady(p)
    BY <1>0, Zenon
  <2>4. \A f \in File : stream'[p][f] = "none" /\ Expected(f, pos'[p]) = "none"
    BY <2>1, <2>2, <2>3, Zenon DEF Steady
  <2>5. QED
    BY <2>1, <2>3, <2>4, Zenon DEF Steady
<1>3. CASE EndWrite(p)
  <2>1. /\ err'[p] = err[p] /\ stream'[p] = stream[p] /\ pc[p] = "writing" /\ pc'[p] = "closing"
        /\ pos[p] \in Nat /\ pos[p] > 16 /\ Others(p)
    BY <1>0, <1>3, OpsLength, Zenon DEF EndWrite, Goto, Others, LogInv, Base, TypeOK
  <2>2. \A f \in File : Expected(f, pos[p]) = "none"
    <3> TAKE f \in File
    <3>1. PublishAt[f] \in 1..16
      BY OpsLength, Zenon
    <3>2. pos[p] > PublishAt[f]
      BY <2>1, <3>1
    <3>3. QED
      BY <3>2, Zenon DEF Expected
  <2>3. QED
    BY <1>0, <2>1, <2>2, Zenon DEF Steady
<1>4. CASE \/ Locking(p) \/ Block(p) \/ Acquire(p) \/ TimeOut(p) \/ LateAlarm(p) \/ SkipWrite(p)
           \/ \E f \in File : ReadFile(p, f)
  <2>0. UNCHANGED <<err, stream>> /\ pc[p] # "writing"
    BY <1>4, Zenon DEF Locking, OpenUnlocked, OpenNewRoot, TryLock, SetAlarm, Block, Acquire, TimeOut,
                LateAlarm, SkipWrite, ReadFile
  <2>1. pc'[p] # "writing"
    BY <1>0, <1>4, <2>0, Zenon DEF Locking, OpenUnlocked, OpenNewRoot, TryLock, SetAlarm, Block,
                Acquire, TimeOut, LateAlarm, SkipWrite, ReadFile, StartReading, Goto
  <2>2. Others(p)
    BY <1>0, <1>4, TrackQuiet, Zenon
  <2>3. QED
    BY <1>0, <2>0, <2>1, <2>2, Zenon DEF Steady
<1>5. QED
  BY <1>1, <1>2, <1>3, <1>4, Zenon

(* A transaction reaches a file only after the files before it.             *)
LEMMA OrderKeeps ==
    ASSUME OrderInv, [Next]_vars
    PROVE  PublishOrder'
<1>1. CASE SameContent
  BY <1>1, Zenon DEF SameContent, OrderInv, PublishOrder, File
<1>2. ASSUME NEW p \in Proc, NEW f \in File, PublishAdds(p, f)
      PROVE  PublishOrder'
  <2>1. /\ Content(f) \in Seq(Nat) /\ Content(f)' = Append(Content(f), tx[p])
        /\ tx[p] \in Nat /\ tx[p] # 0 /\ \A g \in File \ {f} : Content(g)' = Content(g)
    BY <1>2, BoundAssumption DEF PublishAdds, Adds, OrderInv, TrackInv, LogInv, Disk, Log
  <2>2. Range(Content(f)') = Range(Content(f)) \cup {tx[p]}
    BY <2>1 DEF Range
  <2>3. pc[p] = "writing" /\ pos[p] = PublishAt[f] /\ ~err[p] /\ Track(p)
    BY <1>2, AtOperation, Zenon DEF PublishAdds, OrderInv, TrackInv, Steady
  <2>4. \A g \in File : PublishAt[g] < PublishAt[f] => tx[p] \in Range(Content(g))
    BY <2>1, <2>3, OpsLength, Zenon DEF Track, Passed
  <2>5. /\ PublishAt["world"] = 7 /\ PublishAt["installed"] = 12
        /\ PublishAt["scripts"] = 14 /\ PublishAt["triggers"] = 16
    BY Zenon DEF PublishAt, File
  <2>6. \A g \in File \ {f} : Range(Content(g)') = Range(Content(g))
    BY <2>1, Zenon
  <2>7. ASSUME NEW g \in File, NEW h \in File, PublishAt[g] < PublishAt[h],
               Range(Content(h)) \subseteq Range(Content(g))
        PROVE  Range(Content(h)') \subseteq Range(Content(g)')
    <3>1. CASE h = f
      BY <2>2, <2>4, <2>6, <2>7, <3>1, Zenon
    <3>2. CASE h # f
      BY <2>2, <2>6, <2>7, <3>2, Zenon
    <3>3. QED
      BY <3>1, <3>2, Zenon
  <2>8. QED
    BY <2>5, <2>7 DEF OrderInv, PublishOrder, File
<1>3. QED
  BY <1>1, <1>2, LogStep, Zenon DEF OrderInv, TrackInv

(* Every step keeps the order of the files.                                 *)
LEMMA OrderStep ==
    ASSUME OrderInv, "io" \notin Faults, [Next]_vars
    PROVE  OrderInv'
<1>1. TrackInv' /\ PublishOrder'
  BY TrackStep, OrderKeeps, Zenon DEF OrderInv
<1>2. CASE UNCHANGED vars
  <2>1. \A q \in Proc : Steady(q)'
    BY <1>2, Zenon DEF vars, OrderInv, Steady
  <2>2. QED
    BY <1>1, <2>1, Zenon DEF OrderInv
<1>3. ASSUME NEW p \in Proc,
             Locking(p) \/ Progress(p) \/ LateAlarm(p) \/ BeginWrite(p) \/ SkipWrite(p) \/ Crash(p)
      PROVE  Others(p) /\ Steady(p)'
  <2>1. CASE \/ Locking(p) \/ Block(p) \/ Acquire(p) \/ TimeOut(p) \/ LateAlarm(p) \/ SkipWrite(p)
             \/ Exit(p) \/ BeginWrite(p) \/ EndWrite(p) \/ \E f \in File : ReadFile(p, f)
    BY <2>1, SteadyElse, Zenon
  <2>2. ASSUME NEW f \in File,
               OpenTmp(p, f) \/ WritePiece(p, f) \/ FlushPiece(p, f) \/ Publish(p, f)
        PROVE  Others(p) /\ Steady(p)'
    BY <2>2, SteadyWrites, AtOperation, Zenon DEF OrderInv, TrackInv
  <2>3. QED
    BY <1>3, <2>1, <2>2, Zenon DEF Progress, Close, Crash
<1>4. ASSUME NEW p \in Proc, Others(p), Steady(p)' PROVE OrderInv'
  <2>1. \A q \in Proc \ {p} : Steady(q)'
    <3> TAKE q \in Proc \ {p}
    <3>1. Steady(q)
      BY Zenon DEF OrderInv
    <3>2. pc'[q] = pc[q] /\ err'[q] = err[q] /\ pos'[q] = pos[q] /\ stream'[q] = stream[q]
      BY <1>4, Zenon DEF Others
    <3>3. QED
      BY <3>1, <3>2, Zenon DEF Steady
  <2>2. QED
    BY <1>1, <1>4, <2>1, Zenon DEF OrderInv
<1>5. QED
  BY <1>2, <1>3, <1>4, Zenon DEF Next

(* What a process that is killed anywhere leaves on disk is whole, and      *)
(* world, installed, scripts and triggers are each at least as new as the   *)
(* next one (the order of apk_db_write_layers).  An I/O error may break the *)
(* order, because a file that cannot be written does not stop the others.   *)
THEOREM KillsLeaveOrder == ~NewRoot /\ "io" \notin Faults /\ Spec => []DatabaseIntact
<1> SUFFICES ASSUME ~NewRoot, "io" \notin Faults PROVE Spec => []DatabaseIntact
  BY Zenon
<1>1. Init => OrderInv
  <2> SUFFICES ASSUME Init PROVE OrderInv
    BY Zenon
  <2>1. TrackInv
    BY TrackInit, Zenon
  <2>2. \A p \in Proc : Steady(p)
    BY Zenon DEF Init, Steady, NoStreams
  <2>3. \A f \in File : Content(f) = <<>>
    BY LogInit, Zenon DEF Files!Init
  <2>4. PublishOrder
    BY <2>3, Zenon DEF PublishOrder, File
  <2>5. QED
    BY <2>1, <2>2, <2>4, Zenon DEF OrderInv
<1>2. OrderInv /\ [Next]_vars => OrderInv'
  BY OrderStep, Zenon
<1>3. OrderInv => DatabaseIntact
  <2> SUFFICES ASSUME OrderInv PROVE FilesWhole
    BY Zenon DEF OrderInv, DatabaseIntact
  <2>1. \A f \in File : Content(f) \in Log
    BY Zenon DEF OrderInv, TrackInv, LogInv, Disk
  <2>2. QED
    BY <2>1, MarkAssumption, Zenon DEF FilesWhole
<1>4. QED
  BY <1>1, <1>2, <1>3, PTL DEF Spec
=============================================================================
