------------------------------ MODULE Process ------------------------------
(***************************************************************************)
(* Child processes (process.c): maintainer scripts and commit hooks        *)
(* (apk_db_run_script), external commands (run_cmd), uvol with a package   *)
(* file on its stdin (_uvol_run), and wget read as an input stream         *)
(* (apk_process_istream).  apk and the child run concurrently and share    *)
(* three bounded pipes; one poll() loop, apk_process_handle, feeds and     *)
(* drains them.                                                            *)
(*                                                                         *)
(* A child is a program: a sequence of operations on its three descriptors *)
(* that ends with an exit.  It may leave a background process that keeps   *)
(* the descriptors open.  apk ignores SIGPIPE (apk.c:544) and a child      *)
(* inherits that, so writing to a closed pipe is an error the child sees.  *)
(***************************************************************************)
EXTENDS Integers, Sequences, SequencesExt, FiniteSets

CONSTANTS Programs,   \* the children: sequences of operations
          Inputs,     \* lengths of the stream for stdin; NoInput for none
          PipeSize,   \* capacity of a pipe
          BufSize,    \* sizeof buf in struct buf
          Faults      \* the failures that may happen

VARIABLES mode,    \* "run": apk_process_run; "stream": apk_process_istream
          pc, p, pipe, ends, kid, shown, got, res,
          wrote    \* history: what the child tried to write

pvars == <<mode, pc, p, pipe, ends, kid, shown, got, res, wrote>>

NoInput == -1
LF == "\n"
Running == [exited |-> FALSE, code |-> 0]

(***************************************************************************)
(* The pipes, as the kernel presents them.                                 *)
(***************************************************************************)

Readable(f) == pipe[f] # <<>> \/ ends[f].writers = {}

Writable == Len(pipe.in) < PipeSize /\ ends.in.readers # {}

Broken == ends.in.readers = {}

\* close() of apk's end of pipe f.
CloseOwn(e, f) ==
    IF f = "in" THEN [e EXCEPT !.in.writers = @ \ {"apk"}]
                ELSE [e EXCEPT ![f].readers = @ \ {"apk"}]

\* Every end that the process who holds is closed when it ends.
CloseAll(e, who) ==
    [f \in DOMAIN e |-> [readers |-> e[f].readers \ {who},
                         writers |-> e[f].writers \ {who}]]

(***************************************************************************)
(* Setting up: apk_process_init, apk_process_fork, apk_process_spawn.      *)
(***************************************************************************)

NewProcess(n) ==
    [is |-> n, blob |-> 0, is_eof |-> FALSE, is_err |-> FALSE,
     fds |-> {}, revents |-> {}, bufs |-> [out |-> <<>>, err |-> <<>>]]

NewPipes ==
    [in  |-> [readers |-> {"kid"}, writers |-> {"apk"}],
     out |-> [readers |-> {"apk"}, writers |-> {"kid"}],
     err |-> [readers |-> {"apk"}, writers |-> {"kid"}]]

\* The descriptors poll() watches when apk_process_handle is entered: the
\* ends apk still has open.
Watched(e, n) ==
    {f \in {"out", "err"} : "apk" \in e[f].readers}
        \cup {f \in {"in"} : n # NoInput /\ "apk" \in e[f].writers}

\* pipe2, fork or posix_spawn fails: the caller gets the error, no child runs.
StartFails ==
    /\ pc = "start" /\ "start" \in Faults
    /\ pc' = "done" /\ res' = "nostart"
    /\ UNCHANGED <<mode, p, pipe, ends, kid, shown, got, wrote>>

Start ==
    /\ pc = "start"
    /\ pc' = IF mode = "run" THEN "poll" ELSE "user"
    /\ kid' = [kid EXCEPT !.started = TRUE]
    /\ p' = [p EXCEPT !.fds = Watched(ends, p.is)]
    /\ UNCHANGED <<mode, pipe, ends, shown, got, res, wrote>>

(***************************************************************************)
(* The loop of apk_process_handle.  poll() notes what is ready; the three  *)
(* handlers then run in turn on that note, while the child goes on.        *)
(***************************************************************************)

Revents ==
    {f \in p.fds \cap {"out", "err"} : Readable(f)}
        \cup {f \in p.fds \cap {"in"} : Writable \/ Broken}
        \cup {r \in {"error"} : "in" \in p.fds /\ Broken}

Poll ==
    /\ pc = "poll" /\ Revents # {}
    /\ p' = [p EXCEPT !.revents = Revents]
    /\ pc' = "out"
    /\ UNCHANGED <<mode, pipe, ends, kid, shown, got, res, wrote>>

RECURSIVE Split(_)
\* The complete lines of s and the unfinished rest.
Split(s) ==
    IF ~Contains(s, LF) THEN [lines |-> <<>>, rest |-> s]
    ELSE LET i == SelectInSeq(s, LAMBDA c : c = LF)
             t == Split(SubSeq(s, i + 1, Len(s)))
         IN [lines |-> <<SubSeq(s, 1, i - 1)>> \o t.lines, rest |-> t.rest]

\* Faulty: the unfinished rest of the buffer is dropped with its lines.
BufferKeptNone(s) == <<>>

\* What buf_process leaves in the buffer for the next read.
BufferKept(s) == Split(s).rest

\* buf_process on pipe f.  A read of nothing (end of file, or no room in the
\* buffer for more) shows what is left and ends with the descriptor closed.
BufProcess(f) ==
    LET room == BufSize - Len(p.bufs[f])
        n == IF Len(pipe[f]) < room THEN Len(pipe[f]) ELSE room
        s == p.bufs[f] \o SubSeq(pipe[f], 1, n)
    IN IF n = 0
       THEN /\ shown' = [shown EXCEPT ![f] =
                             IF p.bufs[f] = <<>> THEN @ ELSE Append(@, p.bufs[f])]
            /\ p' = [p EXCEPT !.bufs[f] = <<>>, !.fds = @ \ {f}]
            /\ ends' = CloseOwn(ends, f)
            /\ UNCHANGED pipe
       ELSE /\ shown' = [shown EXCEPT ![f] = @ \o Split(s).lines]
            /\ p' = [p EXCEPT !.bufs[f] = BufferKept(s)]
            /\ pipe' = [pipe EXCEPT ![f] = SubSeq(@, n + 1, Len(@))]
            /\ UNCHANGED ends

HandleOut ==
    /\ pc = "out" /\ pc' = "err"
    /\ IF "out" \in p.revents /\ mode = "run"
       THEN BufProcess("out")
       ELSE UNCHANGED <<p, pipe, ends, shown>>
    /\ UNCHANGED <<mode, kid, got, res, wrote>>

\* Faulty: stderr is left alone until stdout has ended.
ErrReadyLast == "err" \in p.revents /\ "out" \notin p.fds

ErrReady == "err" \in p.revents

HandleErr ==
    /\ pc = "err" /\ pc' = "in"
    /\ IF ErrReady THEN BufProcess("err")
       ELSE UNCHANGED <<p, pipe, ends, shown>>
    /\ UNCHANGED <<mode, kid, got, res, wrote>>

\* The end of a turn: a stream's reader is told that there is something to
\* read, and the loop ends when nothing is left to watch.
EndOfTurn(q) ==
    IF mode = "stream" /\ "out" \in q.revents THEN "read"
    ELSE IF q.fds = {} THEN "reap" ELSE "poll"

StdinClose(q) ==
    /\ p' = [q EXCEPT !.fds = @ \ {"in"}]
    /\ ends' = CloseOwn(ends, "in")
    /\ pc' = EndOfTurn(p')
    /\ UNCHANGED pipe

\* Only -APKE_EOF is noted as the end of the input.
AtInputEnd(failed) == [p EXCEPT !.is_eof = ~failed, !.is_err = failed]

\* write() of the blob: as much as fits; EPIPE when nobody can read it.
WriteBlob(q) ==
    LET room == PipeSize - Len(pipe.in)
        n == IF q.blob < room THEN q.blob ELSE room
    IN \/ /\ Broken
          /\ StdinClose(q)
       \/ /\ ~Broken
          /\ p' = [q EXCEPT !.blob = @ - n]
          /\ pipe' = [pipe EXCEPT !.in = @ \o [i \in 1 .. n |-> "d"]]
          /\ pc' = EndOfTurn(p')
          /\ UNCHANGED ends

\* apk_istream_get_all: some of what the stream still has.
HandleIn ==
    /\ pc = "in"
    /\ \/ /\ "in" \notin p.revents
          /\ pc' = EndOfTurn(p)
          /\ UNCHANGED <<p, pipe, ends>>
       \/ /\ "error" \in p.revents
          /\ StdinClose(p)
       \/ /\ "in" \in p.revents /\ "error" \notin p.revents
          /\ \/ /\ p.blob > 0
                /\ WriteBlob(p)
             \/ /\ p.blob = 0 /\ p.is = 0
                /\ StdinClose(AtInputEnd(FALSE))
             \/ /\ p.blob = 0 /\ "input" \in Faults
                /\ StdinClose(AtInputEnd(TRUE))
             \/ /\ p.blob = 0
                /\ \E n \in 1 .. p.is :
                       WriteBlob([p EXCEPT !.is = @ - n, !.blob = n])
    /\ UNCHANGED <<mode, kid, shown, got, res, wrote>>

(***************************************************************************)
(* apk_process_cleanup: close what is still open, wait for the child.      *)
(***************************************************************************)

ExitedWell == kid.status.exited /\ kid.status.code = 0

CleanupResult ==
    IF ~ExitedWell THEN "failed"
    ELSE IF p.is # NoInput /\ ~p.is_eof THEN "unread"
    ELSE "ok"

\* process_close and process_translate_status.
StreamResult == IF CleanupResult = "ok" THEN "ok" ELSE "failed"

CloseEnds ==
    /\ pc = "reap"
    /\ ends' = CloseAll(ends, "apk")
    /\ pc' = "wait"
    /\ UNCHANGED <<mode, p, pipe, kid, shown, got, res, wrote>>

Wait ==
    /\ pc = "wait" /\ kid.status # Running
    /\ pc' = "done"
    /\ res' = IF mode = "run" THEN CleanupResult ELSE StreamResult
    /\ UNCHANGED <<mode, p, pipe, ends, kid, shown, got, wrote>>

(***************************************************************************)
(* The stream: process_read and process_close, called by the stream's user *)
(* until the end of file, or until it has read enough.                     *)
(***************************************************************************)

ReadMore ==
    /\ pc = "user" /\ ~got.eof
    /\ p' = [p EXCEPT !.fds = Watched(ends, p.is)]
    /\ pc' = "poll"
    /\ UNCHANGED <<mode, pipe, ends, kid, shown, got, res, wrote>>

StreamRead ==
    /\ pc = "read" /\ pc' = "user"
    /\ got' = [data |-> got.data \o pipe.out, eof |-> pipe.out = <<>>]
    /\ pipe' = [pipe EXCEPT !.out = <<>>]
    /\ UNCHANGED <<mode, p, ends, kid, shown, res, wrote>>

StreamClose ==
    /\ pc = "user" /\ pc' = "reap"
    /\ UNCHANGED <<mode, p, pipe, ends, kid, shown, got, res, wrote>>

(***************************************************************************)
(* The child, and what it may leave behind.                                *)
(***************************************************************************)

\* The child ends: its descriptors are closed and its status is kept.
Exits(status) ==
    /\ kid' = [kid EXCEPT !.prog = <<>>, !.status = status]
    /\ ends' = CloseAll(ends, "kid")

Goes == kid' = [kid EXCEPT !.prog = Tail(@)]

\* It writes c: blocked by a full pipe, refused by a closed one, and then it
\* goes on or gives up.
KidWrites(f, c) ==
    /\ wrote' = [wrote EXCEPT ![f] = Append(@, c)]
    /\ \/ /\ ends[f].readers # {} /\ Len(pipe[f]) < PipeSize
          /\ pipe' = [pipe EXCEPT ![f] = Append(@, c)]
          /\ Goes /\ UNCHANGED ends
       \/ /\ ends[f].readers = {}
          /\ \/ Goes /\ UNCHANGED ends
             \/ Exits([exited |-> TRUE, code |-> 1])
          /\ UNCHANGED pipe

\* It reads one byte; at the end of the input it notes that.
KidReads(again) ==
    /\ \/ /\ pipe.in # <<>>
          /\ pipe' = [pipe EXCEPT !.in = Tail(@)]
          /\ kid' = IF again THEN kid ELSE [kid EXCEPT !.prog = Tail(@)]
       \/ /\ pipe.in = <<>> /\ ends.in.writers = {}
          /\ kid' = [kid EXCEPT !.prog = Tail(@), !.sawEof = TRUE]
          /\ UNCHANGED pipe
    /\ UNCHANGED <<ends, wrote>>

Kid ==
    /\ kid.started /\ kid.prog # <<>>
    /\ LET o == Head(kid.prog) IN
       \/ o.op \in {"out", "err"} /\ KidWrites(o.op, o.c)
       \/ o.op = "read" /\ KidReads(FALSE)
       \/ o.op = "readall" /\ KidReads(TRUE)
       \/ /\ o.op = "close"
          /\ ends' = [ends EXCEPT !.out.writers = @ \ {"kid"}]
          /\ Goes /\ UNCHANGED <<pipe, wrote>>
       \/ /\ o.op = "daemon"
          /\ ends' = [ends EXCEPT !.in.readers = @ \cup {"daemon"},
                                  !.out.writers = @ \cup {"daemon"},
                                  !.err.writers = @ \cup {"daemon"}]
          /\ Goes /\ UNCHANGED <<pipe, wrote>>
       \/ /\ o.op = "exit"
          /\ Exits([exited |-> TRUE, code |-> o.code])
          /\ UNCHANGED <<pipe, wrote>>
    /\ UNCHANGED <<mode, pc, p, shown, got, res>>

KidKilled ==
    /\ "kill" \in Faults /\ kid.started /\ kid.prog # <<>>
    /\ Exits([exited |-> FALSE, code |-> 1])
    /\ UNCHANGED <<mode, pc, p, pipe, shown, got, res, wrote>>

DaemonHolds == \E f \in DOMAIN ends : "daemon" \in ends[f].readers \cup ends[f].writers

DaemonEnds ==
    /\ DaemonHolds
    /\ ends' = CloseAll(ends, "daemon")
    /\ UNCHANGED <<mode, pc, p, pipe, kid, shown, got, res, wrote>>

(***************************************************************************)
(* The specification.                                                      *)
(***************************************************************************)

Init ==
    /\ mode \in {"run", "stream"}
    /\ pc = "start"
    /\ \E n \in Inputs : /\ mode = "stream" => n = NoInput
                         /\ p = NewProcess(n)
                         /\ ends = IF n = NoInput
                                   THEN [NewPipes EXCEPT !.in.writers = {}]
                                   ELSE NewPipes
    /\ pipe = [in |-> <<>>, out |-> <<>>, err |-> <<>>]
    /\ \E prog \in Programs :
           kid = [prog |-> prog, started |-> FALSE, status |-> Running, sawEof |-> FALSE]
    /\ shown = [out |-> <<>>, err |-> <<>>]
    /\ got = [data |-> <<>>, eof |-> FALSE]
    /\ res = "none"
    /\ wrote = [out |-> <<>>, err |-> <<>>]

Handle == Poll \/ HandleOut \/ HandleErr \/ HandleIn
Apk == Start \/ Handle \/ CloseEnds \/ Wait \/ ReadMore \/ StreamRead \/ StreamClose

Finished == pc = "done" /\ UNCHANGED pvars

Next == Apk \/ StartFails \/ Kid \/ KidKilled \/ DaemonEnds \/ Finished

\* apk and the child are scheduled.  Nothing makes a background process end.
Spec == Init /\ [][Next]_pvars /\ WF_pvars(Apk) /\ WF_pvars(Kid)

(***************************************************************************)
(* Properties.                                                             *)
(***************************************************************************)

\* The lines that a reader of all of s sees, a last one without its newline
\* included.
LinesOf(s) == Split(s).lines \o (IF Split(s).rest = <<>> THEN <<>> ELSE <<Split(s).rest>>)

Fits(s) == \A i \in 1 .. Len(LinesOf(s)) : Len(LinesOf(s)[i]) < BufSize

Ran == pc = "done" /\ res # "nostart" /\ ~DaemonHolds

\* Every line a script writes is shown, once, whole and in order, and nothing
\* else is, however the script's writes and apk's reads interleave and
\* whatever the script does with its other descriptors; provided no line is
\* as long as the buffer (buf_process takes a full buffer for end of file).
OutputExact ==
    Ran /\ mode = "run" =>
        \A f \in {"out", "err"} :
            Fits(wrote.out) /\ Fits(wrote.err) => shown[f] = LinesOf(wrote[f])

\* apk_process_run succeeds only when the child exited with 0 and the whole
\* input was handed to it, and fails only when the child failed, its input
\* could not be read, or it ended without having read its input to the end.
ResultExact ==
    pc = "done" /\ mode = "run" /\ res # "nostart" =>
        /\ res = "ok" => ExitedWell /\ (p.is # NoInput => p.is = 0 /\ p.blob = 0 /\ ~p.is_err)
        /\ res # "ok" => ~ExitedWell \/ p.is_err \/ (p.is # NoInput /\ ~kid.sawEof)

\* A stream that was read to its end and closed without an error carried all
\* that a successful child wrote, in order: a child that failed is reported
\* by the close, even though its output ended like any other.
StreamHonest ==
    pc = "done" /\ mode = "stream" /\ res = "ok" =>
        /\ ExitedWell
        /\ got.eof /\ ~DaemonHolds => got.data = wrote.out

\* What apk shows and tells about a child is what the child did and what
\* became of it.
ReportsHonest == OutputExact /\ ResultExact /\ StreamHonest

\* apk_process_run and the stream's user are never stuck on a child that is
\* itself waiting for apk (full pipes both ways, a child that closes one
\* descriptor, an input nobody reads): once no background process holds the
\* descriptors, the call returns.
RunEnds == <>[]~DaemonHolds => <>(pc = "done")
============================================================================
