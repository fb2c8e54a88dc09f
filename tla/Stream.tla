------------------------------- MODULE Stream -------------------------------
(***************************************************************************)
(* Buffered input streams (io.c): the operations that read through the     *)
(* buffer, past it, or up to a separator, from a source that delivers its  *)
(* bytes in pieces of any size and then ends or fails; and segments, the   *)
(* streams that a tar entry or a block is read through, which share the    *)
(* buffer of their parent.                                                 *)
(*                                                                         *)
(* One step is one turn of an operation's loop, with at most one read of   *)
(* the source.                                                             *)
(***************************************************************************)
EXTENDS Integers, Sequences, FiniteSets, FiniteSetsExt

CONSTANTS
    Sources,    \* byte sequences; 0 is the separator
    BufSize,
    Sizes,      \* sizes that callers ask for
    MaxCalls

ASSUME BufSizeAssumption == BufSize \in Nat \ {0}

VARIABLES
    orig, fault,    \* what the source holds, and whether it fails at its end
    src,            \* what it still holds
    buf,            \* the buffer, shared
    is, seg,        \* stream and segment: ptr, end, err, bytes left, length
    op,             \* the operation in progress
    ret,            \* what the last operation returned
    calls
svars == <<orig, fault, src, buf, is, seg, op, ret, calls>>

Streams == {"is", "seg"}
Closed == [p |-> 0, e |-> 0, err |-> 0, left |-> 0, len |-> 0, out |-> 0, open |-> FALSE]
NoOp == [on |-> "is", kind |-> "none", n |-> 0, got |-> <<>>]

Cur(on) == IF on = "is" THEN is ELSE seg
SetCur(on, x) ==
    IF on = "is" THEN is' = x /\ UNCHANGED seg ELSE seg' = x /\ UNCHANGED is
Window(x) == [i \in 1 .. x.e - x.p |-> buf[x.p + i - 1]]

(* ops->read of the source, and segment_read on top of it: the bytes and r. *)
Outcomes(on, max) ==
    LET lim == IF on = "seg" THEN Min({max, seg.left}) ELSE max
    IN  IF lim = 0 THEN {[bytes |-> <<>>, r |-> 0]}
        ELSE IF src = <<>>
        THEN {[bytes |-> <<>>, r |-> IF fault \/ on = "seg" THEN -1 ELSE 0]}
        ELSE {[bytes |-> SubSeq(src, 1, k), r |-> k] : k \in 1 .. Min({lim, Len(src)})}

Consume(o) == src' = SubSeq(src, Len(o.bytes) + 1, Len(src))
Left(on, x, o) == IF on = "seg" THEN [x EXCEPT !.left = @ - Len(o.bytes)] ELSE x
Store(at, bytes) ==
    buf' = [i \in 0 .. BufSize - 1 |->
              IF i \in at .. at + Len(bytes) - 1 THEN bytes[i - at + 1] ELSE buf[i]]

(* apk_istream_error *)
Err(x, r) == [x EXCEPT !.err = IF @ >= 0 /\ r # 0 THEN r ELSE @]

(* The operation returns r, and data to its caller.                         *)
Return(x, r, data) ==
    /\ SetCur(op.on, [x EXCEPT !.out = IF op.kind = "peek" THEN @ ELSE @ + Len(data)])
    /\ ret' = [on |-> op.on, kind |-> op.kind, n |-> op.n, r |-> r, data |-> data]
    /\ op' = NoOp

-----------------------------------------------------------------------------
(* apk_istream_read_max *)
ReadMax ==
    LET x == Cur(op.on)
        left == op.n - Len(op.got)
        w == Window(x)
        finish(y, r) ==
            IF r < 0 THEN Return(Err(y, r), r, <<>>)
            ELSE IF op.got = <<>>
            THEN Return(Err(y, IF op.n > 0 /\ y.err = 0 THEN 1 ELSE 0), 0, <<>>)
            ELSE Return(y, Len(op.got), op.got)
    IN  /\ op.kind = "max"
        /\ \/ /\ x.err < 0 /\ op.got = <<>> /\ Return(x, x.err, <<>>)
              /\ UNCHANGED <<src, buf>>
           \/ /\ x.err >= 0 /\ left > 0 /\ w # <<>>
              /\ LET k == Min({left, Len(w)})
                 IN  /\ op' = [op EXCEPT !.got = @ \o SubSeq(w, 1, k)]
                     /\ SetCur(op.on, [x EXCEPT !.p = @ + k])
              /\ UNCHANGED <<src, buf, ret>>
           \/ /\ x.err >= 0 /\ (left = 0 \/ (w = <<>> /\ x.err # 0))
              /\ finish(x, 0) /\ UNCHANGED <<src, buf>>
           \/ /\ x.err = 0 /\ left > BufSize \div 4 /\ w = <<>>
              /\ \E o \in Outcomes(op.on, left) :
                    /\ Consume(o) /\ UNCHANGED buf
                    /\ IF o.r <= 0 THEN finish(x, o.r)
                       ELSE /\ op' = [op EXCEPT !.got = @ \o o.bytes]
                            /\ SetCur(op.on, Left(op.on, x, o)) /\ UNCHANGED ret
           \/ /\ x.err = 0 /\ left > 0 /\ left <= BufSize \div 4 /\ w = <<>>
              /\ \E o \in Outcomes(op.on, BufSize) :
                    /\ Consume(o)
                    /\ IF o.r <= 0 THEN finish(x, o.r) /\ UNCHANGED buf
                       ELSE /\ Store(0, o.bytes) /\ UNCHANGED <<op, ret>>
                            /\ SetCur(op.on, [Left(op.on, x, o) EXCEPT !.p = 0, !.e = o.r])
        /\ UNCHANGED <<orig, fault, calls>>

(* What each operation does with the result of filling the buffer: it goes  *)
(* on, or it returns.                                                       *)
Again(x) == SetCur(op.on, x) /\ UNCHANGED <<op, ret>>
PeekMore(x, r) ==
    LET code == IF r > 0 THEN -3 ELSE r
    IN  IF r = 0 THEN Again(x)
        ELSE Return(IF op.kind = "get" THEN Err(x, code) ELSE x, code, <<>>)
GetMaxMore(x, r) ==
    IF r = 0 THEN Again(x) ELSE Return(x, IF x.err < 0 THEN x.err ELSE -3, <<>>)
DelimMore(x, r) ==
    IF r = 0 THEN Again(x)
    ELSE IF r < 0 THEN Return(Err(x, r), r, <<>>)
    ELSE Return([x EXCEPT !.p = 0, !.e = 0], 0, [i \in 1 .. x.e - x.p |-> buf'[x.p + i - 1]])
SkipMore(x, r) ==
    IF r = 0 THEN Again(x)
    ELSE is' = x /\ seg' = [Closed EXCEPT !.err = r] /\ op' = NoOp /\ UNCHANGED ret
More(x, r) ==
    CASE op.kind \in {"peek", "get"} -> PeekMore(x, r)
      [] op.kind = "getmax"          -> GetMaxMore(x, r)
      [] op.kind = "delim"           -> DelimMore(x, r)
      [] op.kind = "skip"            -> SkipMore(x, r)

(* __apk_istream_fill: what is kept moves to the start of the buffer.       *)
Fill ==
    LET x == Cur(op.on)
        w == Window(x)
        moved == [x EXCEPT !.p = 0, !.e = Len(w)]
    IN  IF x.err # 0 THEN UNCHANGED <<src, buf>> /\ More(x, x.err)
        ELSE IF x.p = 0 /\ Len(w) = BufSize THEN UNCHANGED <<src, buf>> /\ More(x, -2)
        ELSE \E o \in Outcomes(op.on, BufSize - Len(w)) :
                /\ Consume(o) /\ Store(0, w \o o.bytes)
                /\ IF o.r <= 0
                   THEN More(Err(moved, IF o.r = 0 THEN 1 ELSE o.r), IF o.r = 0 THEN 1 ELSE o.r)
                   ELSE More([Left(op.on, moved, o) EXCEPT !.e = Len(w) + o.r], 0)

(* apk_istream_peek and apk_istream_get: -3 is APKE_EOF                     *)
Peek ==
    LET x == Cur(op.on)
        w == Window(x)
    IN  /\ op.kind \in {"peek", "get"}
        /\ IF x.err < 0 THEN Return(x, x.err, <<>>) /\ UNCHANGED <<src, buf>>
           ELSE IF Len(w) >= op.n
           THEN /\ Return(IF op.kind = "get" THEN [x EXCEPT !.p = @ + op.n] ELSE x,
                          0, SubSeq(w, 1, op.n))
                /\ UNCHANGED <<src, buf>>
           ELSE Fill
        /\ UNCHANGED <<orig, fault, calls>>

(* apk_istream_get_max; apk_istream_skip and apk_stream_copy repeat it.     *)
Some(x, w) ==
    LET k == Min({op.n, Len(w)})
    IN  Return([x EXCEPT !.p = @ + k], 0, SubSeq(w, 1, k))
GetMax ==
    LET x == Cur(op.on)
        w == Window(x)
    IN  /\ op.kind = "getmax"
        /\ IF w # <<>> THEN Some(x, w) /\ UNCHANGED <<src, buf>> ELSE Fill
        /\ UNCHANGED <<orig, fault, calls>>

(* apk_istream_get_delim *)
GetDelim ==
    LET x == Cur(op.on)
        w == Window(x)
        seps == {i \in DOMAIN w : w[i] = 0}
    IN  /\ op.kind = "delim"
        /\ IF x.err # 0 /\ w = <<>>
           THEN Return(x, IF x.err < 0 THEN x.err ELSE -3, <<>>) /\ UNCHANGED <<src, buf>>
           ELSE IF seps # {}
           THEN /\ Return([x EXCEPT !.p = @ + Min(seps)], 0, SubSeq(w, 1, Min(seps)))
                /\ UNCHANGED <<src, buf>>
           ELSE Fill
        /\ UNCHANGED <<orig, fault, calls>>

-----------------------------------------------------------------------------
(* Faulty: the parent keeps its window when the segment takes all of it.    *)
SegmentKeeping(len) ==
    /\ op.kind = "none" /\ ~seg.open /\ is.err >= 0 /\ calls < MaxCalls
    /\ LET w == is.e - is.p
           take == Min({w, len})
       IN  /\ seg' = [Closed EXCEPT !.p = is.p, !.e = is.p + take, !.left = len - take,
                                    !.len = len, !.open = TRUE]
           /\ is' = [is EXCEPT !.out = @ + len, !.p = IF w > len THEN @ + len ELSE @]
    /\ calls' = calls + 1 /\ UNCHANGED <<orig, fault, src, buf, op, ret>>

(* apk_istream_segment *)
Segment(len) ==
    /\ op.kind = "none" /\ ~seg.open /\ is.err >= 0 /\ calls < MaxCalls
    /\ LET w == is.e - is.p
           take == Min({w, len})
       IN  /\ seg' = [Closed EXCEPT !.p = is.p, !.e = is.p + take, !.left = len - take,
                                    !.len = len, !.open = TRUE]
           /\ is' = IF w > len THEN [is EXCEPT !.out = @ + len, !.p = @ + len]
                    ELSE [is EXCEPT !.out = @ + len, !.p = 0, !.e = 0]
    /\ calls' = calls + 1 /\ UNCHANGED <<orig, fault, src, buf, op, ret>>

(* Faulty: what is not read stays in the source.                            *)
CloseSegmentEarly ==
    /\ op.kind = "none" /\ seg.open /\ seg' = Closed
    /\ UNCHANGED <<orig, fault, src, buf, is, op, ret, calls>>

(* segment_close: what the segment has not read is skipped in the parent.   *)
CloseSegment ==
    /\ op.kind = "none" /\ seg.open
    /\ IF seg.left = 0 THEN seg' = Closed /\ UNCHANGED <<op, is>>
       ELSE /\ op' = [NoOp EXCEPT !.kind = "skip", !.n = seg.left] /\ UNCHANGED <<seg, is>>
    /\ UNCHANGED <<orig, fault, src, buf, ret, calls>>

Skip ==
    LET w == Window(is)
        k == Min({op.n, Len(w)})
    IN  /\ op.kind = "skip"
        /\ IF w # <<>>
           THEN /\ is' = [is EXCEPT !.p = @ + k]
                /\ IF k = op.n THEN seg' = Closed /\ op' = NoOp
                   ELSE op' = [op EXCEPT !.n = @ - k] /\ UNCHANGED seg
                /\ UNCHANGED <<src, buf, ret>>
           ELSE Fill
        /\ UNCHANGED <<orig, fault, calls>>

Call(on, kind, n) ==
    /\ op.kind = "none" /\ calls < MaxCalls /\ (on = "seg") = seg.open
    /\ op' = [on |-> on, kind |-> kind, n |-> n, got |-> <<>>] /\ calls' = calls + 1
    /\ UNCHANGED <<orig, fault, src, buf, is, seg, ret>>

StreamInit ==
    /\ orig \in Sources /\ fault \in BOOLEAN /\ src = orig
    /\ buf = [i \in 0 .. BufSize - 1 |-> 0]
    /\ is = [Closed EXCEPT !.open = TRUE] /\ seg = Closed /\ op = NoOp /\ calls = 0
    /\ ret = [on |-> "is", kind |-> "none", n |-> 0, r |-> 0, data |-> <<>>]

StreamNext ==
    \/ \E on \in Streams, kind \in {"max", "get", "peek", "getmax"}, n \in Sizes :
          Call(on, kind, n)
    \/ \E on \in Streams : Call(on, "delim", 0)
    \/ ReadMax \/ Peek \/ GetMax \/ GetDelim \/ CloseSegment \/ Skip
    \/ \E len \in Sizes : Segment(len)


-----------------------------------------------------------------------------
(* Where the stream and the open segment are in the source.                 *)
Behind(x) == Len(orig) - Len(src) - (x.e - x.p)

(* Whatever mixture of operations and segments, in whatever pieces the      *)
(* source delivers: the bytes in the buffer window are the ones that come   *)
(* next in the source, so that nothing is lost, repeated or overwritten.    *)
Matches(x, at) ==
    \A i \in 1 .. x.e - x.p : at + i \in DOMAIN orig /\ buf[x.p + i - 1] = orig[at + i]
WindowExact ==
    /\ ~seg.open \/ op.kind = "skip" \/ seg.left = 0 => Matches(is, Behind(is))
    /\ seg.open /\ op.kind # "skip" =>
        Matches(seg, IF seg.left > 0 THEN Behind(seg) ELSE Behind(is) - (seg.e - seg.p))

(* A line that apk_istream_get_delim returns is the line at that place in   *)
(* the source: it ends with the first separator, or with the source.        *)
LineExact ==
    op.kind = "none" /\ ret.kind = "delim" /\ ret.r = 0 =>
        LET n == Len(ret.data)
        IN  /\ \A i \in 1 .. n - 1 : ret.data[i] # 0
            /\ n > 0 /\ ret.data[n] # 0 /\ ret.on = "is" => src = <<>> /\ ~fault

(* A segment hands out exactly its bytes: when it reports its end, all of   *)
(* them, and when its source ends before, an error.                         *)
SegmentExact ==
    seg.open => /\ seg.out + (seg.e - seg.p) + seg.left + (IF op.on = "seg" THEN Len(op.got) ELSE 0)
                     = seg.len \/ seg.err < 0
                /\ seg.err = 1 => seg.left = 0

(* What a reader is given is what the source holds, byte by byte, line by   *)
(* line and segment by segment.                                             *)
StreamExact == WindowExact /\ LineExact /\ SegmentExact

(* Closing a segment leaves the stream right behind it.                     *)
Resumes ==
    [][seg.open /\ ~seg'.open /\ seg'.err = 0 =>
          Behind(is)' = is.out]_svars
=============================================================================
