-------------------------------- MODULE Http --------------------------------
(***************************************************************************)
(* The HTTP client of libfetch and the stream apk puts on top of it:       *)
(* http_request with its loop over redirects, authentication and dead      *)
(* kept-alive connections, the connection cache, the decoding of a reply's *)
(* body, and the way apk_io_url_istream turns the outcome into a stream or *)
(* an error.                                                               *)
(*                                                                         *)
(* A connection carries a sequence of tokens: the status line, the header  *)
(* block, units of body data (tagged with the request they answer), chunk  *)
(* size lines and the line ends after chunks.  The server is external: it  *)
(* answers with one of Replies, may be cut off after any token, and may    *)
(* drop an idle connection.  Proxies, TLS and name lookup are the          *)
(* success or failure of Connect; ranges, which apk never asks for, are    *)
(* left out.                                                               *)
(***************************************************************************)
EXTENDS Integers, FiniteSets, SequencesExt

CONSTANTS
    Urls,           \* what apk asks for: a server's host and port, a user name (""
                    \* for none), and whether there is a local copy (If-Modified-Since)
    Replies,        \* what a server may answer
    Netrc,          \* the hosts the user's .netrc has a login for
    MaxRedirect,    \* requests made for one URL (MAX_REDIRECT)
    GlobalLimit,    \* the cache's limits (fetchConnectionCacheInit)
    HostLimit,
    ReadSizes,      \* what the reader asks for at a time
    MaxRequests,
    MaxFaults,      \* answers that may be cut off
    Faults          \* some of "connect", "cut", "reset", "idle"

VARIABLES
    conns,      \* connections: slot -> what they are and what is on the wire
    head,       \* the connection cache's list head (connection_cache)
    pc,         \* where http_request and its reader are
    rq,         \* the request: its locals in http_request
    io,         \* struct httpio of the open body
    got,        \* what the reader has been given
    res,        \* how the last request ended
    served,     \* the answer the server gave last, and whether it was cut
    faults      \* answers cut off so far

hvars == <<conns, head, pc, rq, io, got, res, served, faults>>

Slot == 1 .. 4
Elsewhere(what) == [host |-> what, port |-> 0]  \* a Location that names no server
NoUrl == [site |-> Elsewhere("none"), user |-> "", ims |-> FALSE]
Key(url) == [site |-> url.site, user |-> url.user]
NoHeaders == [code |-> 0, conn |-> "none", frame |-> "close", body |-> <<>>,
              loc |-> Elsewhere("none")]
NoBody == [chunked |-> FALSE, clen |-> -1, chunk |-> 0, buf |-> <<>>, pos |-> 0,
           error |-> FALSE, eof |-> FALSE, keep |-> FALSE, torn |-> FALSE]
CutOff == [r |-> NoHeaders, cut |-> TRUE]
Free == [state |-> "free", key |-> Key(NoUrl), wire |-> <<>>, end |-> "eof", next |-> 0]
Small(a, b) == IF a < b THEN a ELSE b

(* The cache's list, as far as it can be followed without meeting a slot   *)
(* twice.                                                                  *)
RECURSIVE ListFrom(_, _)
ListFrom(c, seen) ==
    IF c = 0 \/ c \in seen THEN <<>> ELSE <<c>> \o ListFrom(conns[c].next, seen \cup {c})
Cached == ListFrom(head, {})

(* A slot for a new connection: one that neither is open nor hangs in the  *)
(* list.                                                                   *)
NewSlot == Min({c \in Slot : conns[c].state = "free"} \ ToSet(Cached))

Closed(cs, c) == [cs EXCEPT ![c] = [Free EXCEPT !.next = cs[c].next]]

-----------------------------------------------------------------------------
(* The connection cache (common.c).                                        *)

(* fetch_cache_get: the first entry for this server and login.             *)
Matches(c, url) == conns[c].key = Key(url)

Unlinked(cs, prev, c) ==
    IF prev = 0 THEN cs ELSE [cs EXCEPT ![prev].next = cs[c].next]

CacheGet(url) ==
    LET L == Cached
        hits == SelectInSeq(L, LAMBDA c : Matches(c, url))
        prev == IF hits > 1 THEN L[hits - 1] ELSE 0
    IN  IF hits = 0 THEN [c |-> 0, cs |-> conns, h |-> head]
        ELSE [c |-> L[hits],
              cs |-> [Unlinked(conns, prev, L[hits]) EXCEPT ![L[hits]].state = "used"],
              h |-> IF prev = 0 THEN conns[L[hits]].next ELSE head]

(* One turn of fetch_cache_put's loop.  An entry past either limit is      *)
(* closed and unlinked from the entry visited before it, which may itself  *)
(* have been closed; the host's count is not taken back.                   *)
PutStep(x, c, host) ==
    LET hosts == x.hosts + IF x.cs[c].key.site.host = host THEN 1 ELSE 0
        over == x.count + 1 >= GlobalLimit \/ hosts >= HostLimit
    IN  [cs |-> IF over THEN Closed(Unlinked(x.cs, x.last, c), c) ELSE x.cs,
         h |-> IF over /\ x.last = 0 THEN x.cs[c].next ELSE x.h,
         count |-> x.count + IF over THEN 0 ELSE 1,
         hosts |-> hosts, last |-> c]

(* Faulty: nothing is evicted.                                             *)
CachePutAll(cs, c) ==
    [cs |-> [cs EXCEPT ![c].state = "cached", ![c].next = head], h |-> c]

CachePut(cs, c) ==
    IF GlobalLimit = 0 THEN [cs |-> Closed(cs, c), h |-> head]
    ELSE LET host == cs[c].key.site.host
             x == FoldLeft(LAMBDA a, k : PutStep(a, k, host),
                           [cs |-> cs, h |-> head, count |-> 0, hosts |-> 0, last |-> 0], Cached)
         IN  [cs |-> [x.cs EXCEPT ![c].state = "cached", ![c].next = x.h], h |-> c]

-----------------------------------------------------------------------------
(* External: what the server puts on the wire for request a.                *)
Data(a, from, n) == [j \in 1 .. n |-> [k |-> "data", id |-> <<a, from + j - 1>>]]
RECURSIVE Chunks(_, _, _)
Chunks(a, from, sizes) ==
    IF sizes = <<>> THEN <<[k |-> "size", n |-> 0], [k |-> "crlf"]>>
    ELSE <<[k |-> "size", n |-> sizes[1]]>> \o Data(a, from, sizes[1])
         \o <<[k |-> "crlf"]>> \o Chunks(a, from + sizes[1], Tail(sizes))
Length(r) == FoldLeft(+, 0, r.body)
Answer(r, a) ==
    <<[k |-> "status", code |-> r.code], [k |-> "headers", r |-> r]>>
    \o (IF r.code # 200 THEN <<>>
        ELSE IF r.frame = "chunked" THEN Chunks(a, 1, r.body) ELSE Data(a, 1, Length(r)))
ServerKeeps(r) == r.conn # "close" /\ r.frame # "close"

(* A request was written to c: a dead connection takes it without an error *)
(* (http_cmd's result is not looked at), a live one carries the answer, or *)
(* the part of it that gets through.                                       *)
Lost(r, cut, end) == /\ cut < Len(Answer(r, 0)) /\ faults < MaxFaults
                     /\ \/ "cut" \in Faults /\ end = "eof"
                        \/ "reset" \in Faults /\ end = "reset"
Answered(cs, c, q) ==
    IF cs[c].end # "open" THEN conns' = cs /\ UNCHANGED <<served, faults>>
    ELSE \E r \in Replies, end \in {"open", "eof", "reset"} :
         LET whole == Answer(r, q.n)
         IN  \E cut \in 0 .. Len(whole) :
                /\ r.code = 304 => q.url.ims
                /\ \/ cut = Len(whole) /\ end = IF ServerKeeps(r) THEN "open" ELSE "eof"
                   \/ Lost(r, cut, end)
                /\ conns' = [cs EXCEPT ![c].wire = @ \o SubSeq(whole, 1, cut), ![c].end = end]
                /\ served' = IF cut < Len(whole) THEN CutOff ELSE [r |-> r, cut |-> FALSE]
                /\ faults' = faults + IF cut < Len(whole) THEN 1 ELSE 0

-----------------------------------------------------------------------------
(* http_request.                                                           *)

NewRequest(url) ==
    [n |-> 0, c |-> 0, asked |-> url, url |-> url, i |-> 0, code |-> 0,
     auth |-> FALSE, keep |-> FALSE, cached |-> FALSE]
End(q, cs, h, outcome) ==
    /\ conns' = cs /\ head' = h
    /\ pc' = "idle" /\ res' = outcome
    /\ rq' = [NewRequest(NoUrl) EXCEPT !.n = rq.n, !.code = q.code, !.cached = q.cached]
    /\ io' = NoBody /\ got' = <<>> /\ served' = CutOff /\ UNCHANGED faults
Ouch(outcome) == End(rq, Closed(conns, rq.c), head, outcome)

(* fetch_maperror, as apk_io_url_istream uses it: a recorded errno of 0    *)
(* becomes the null pointer, which IS_ERR does not take for an error, and  *)
(* a 304 the news that the local copy is current.                          *)
MapError(category, code) ==
    IF category = "errno" /\ code = 0 THEN "null"
    ELSE IF category = "http" /\ code = 304 THEN "unchanged"
    ELSE "error"

Request(url) ==
    /\ pc = "idle" /\ rq.n < MaxRequests
    /\ rq' = [NewRequest(url) EXCEPT !.n = rq.n + 1]
    /\ pc' = "connect" /\ got' = <<>> /\ res' = "none"
    /\ UNCHANGED <<conns, head, io, served, faults>>

(* http_connect fails: fetch_connect or fetch_ssl has set an error code.   *)
ConnectFails ==
    /\ pc = "connect" /\ CacheGet(rq.url).c = 0
    /\ "connect" \in Faults
    /\ End([rq EXCEPT !.cached = FALSE], conns, head, MapError("netdb", 1))

(* http_connect: a connection kept from an earlier request, or a new one.  *)
Connected(url) ==
    LET g == CacheGet(url)
    IN  IF g.c # 0 THEN g
        ELSE [g EXCEPT !.c = NewSlot,
                       !.cs[NewSlot] = [state |-> "used", key |-> Key(url), wire |-> <<>>,
                                        end |-> "open", next |-> 0]]

(* fetch_netrc_auth: the login the user's .netrc has for this host.        *)
NetrcAuth(url) ==
    IF url.site.host \in Netrc THEN [url EXCEPT !.user = url.site.host] ELSE url

(* A connection, the request and its credentials.  When the server asked   *)
(* for a login the .netrc may have one; without any the request ends.      *)
Send ==
    /\ pc = "connect"
    /\ LET g == Connected(rq.url)
           url == IF rq.auth /\ rq.url.user = "" THEN NetrcAuth(rq.url) ELSE rq.url
       IN  IF rq.auth /\ url.user = ""
           THEN End(rq, Closed(g.cs, g.c), g.h, MapError("http", 401))
           ELSE /\ pc' = "reply" /\ head' = g.h
                /\ rq' = [rq EXCEPT !.c = g.c, !.url = url, !.code = 0,
                                    !.cached = CacheGet(rq.url).c # 0]
                /\ Answered(g.cs, g.c, rq')
                /\ UNCHANGED <<io, got, res>>

(* The first line the connection yields, as fetch_getln and fetch_read     *)
(* see it: a line of something, the end (poll cleared errno), an error.    *)
Next1 == LET c == conns[rq.c] IN IF c.wire # <<>> THEN c.wire[1].k ELSE c.end
Taken == [conns EXCEPT ![rq.c].wire = Tail(@)]

Followed == {301, 302, 303}

(* http_get_reply and the switch on it.  Anything but a status line on a   *)
(* reused connection means try again, without counting an attempt; the     *)
(* dead connection is dropped as it is.                                    *)
(* Faulty: a dead kept-alive connection fails the request.                 *)
NoReplyFatal == Ouch(MapError("errno", IF Next1 = "reset" THEN 1 ELSE 0))
NoReply ==
    IF rq.cached
    THEN /\ pc' = "connect"
         /\ conns' = [conns EXCEPT ![rq.c] = Free]
         /\ rq' = [rq EXCEPT !.c = 0]
         /\ UNCHANGED <<head, io, got, res, served, faults>>
    ELSE Ouch(MapError("errno", IF Next1 = "reset" THEN 1 ELSE 0))

GetReply ==
    /\ pc = "reply"
    /\ IF Next1 # "status" THEN NoReply
       ELSE LET code == conns[rq.c].wire[1].code
            IN  IF code \in {200, 304} \cup Followed \/ (code = 401 /\ ~rq.auth)
                THEN /\ pc' = "headers"
                     /\ conns' = Taken
                     /\ rq' = [rq EXCEPT !.code = code]
                     /\ UNCHANGED <<head, io, got, res, served, faults>>
                ELSE End([rq EXCEPT !.code = code], Closed(conns, rq.c), head,
                         MapError("http", code))

(* The header block; a connection that ends inside it looks like its end.  *)
Headers == IF Next1 = "headers" THEN conns[rq.c].wire[1].r ELSE NoHeaders
KeepAlive(hd) == IF hd.conn = "none" THEN rq.keep ELSE hd.conn = "keep"

(* fetchParseURL and fetchMakeURL: the URL a Location names.  A location   *)
(* relative to the current document has no scheme and is not understood.   *)
ParseURL(loc) ==
    IF loc = Elsewhere("relative") THEN NoUrl ELSE [NoUrl EXCEPT !.site = loc]
MakeURL(url) == [url EXCEPT !.ims = FALSE]

(* Where a redirect leads.  The login stays when the server does; the time *)
(* of the local copy is not carried over.                                  *)
Redirected(loc) ==
    LET new == IF loc = Elsewhere("path") THEN MakeURL(rq.url) ELSE ParseURL(loc)
    IN  IF new.user = "" /\ new.site = rq.url.site
        THEN [new EXCEPT !.user = rq.url.user] ELSE new

(* Faulty: a challenge or a redirect does not count as an attempt.         *)
AgainUncounted(url, auth) ==
    /\ pc' = "connect"
    /\ conns' = Closed(conns, rq.c)
    /\ rq' = [rq EXCEPT !.c = 0, !.url = url, !.auth = auth, !.keep = KeepAlive(Headers)]
    /\ UNCHANGED <<head, io, got, res, served, faults>>

(* fetch_close and the next turn of the loop, or the end of the attempts.  *)
Again(url, auth) ==
    IF rq.i + 1 < MaxRedirect
    THEN /\ pc' = "connect"
         /\ conns' = Closed(conns, rq.c)
         /\ rq' = [rq EXCEPT !.c = 0, !.i = @ + 1, !.url = url, !.auth = auth,
                             !.keep = KeepAlive(Headers)]
         /\ UNCHANGED <<head, io, got, res, served, faults>>
    ELSE Ouch(MapError("http", rq.code))

(* A 304 has no body: the connection goes back to the cache if its framing *)
(* was announced and the server keeps it.                                  *)
Unchanged(keep) ==
    LET outcome == MapError("http", 304)
    IN  IF keep THEN LET x == CachePut(Taken, rq.c) IN End(rq, x.cs, x.h, outcome)
        ELSE Ouch(outcome)

(* http_funopen.                                                           *)
OpenBody(hd, keep) ==
    /\ pc' = "body"
    /\ conns' = IF Next1 = "headers" THEN Taken ELSE conns
    /\ io' = [NoBody EXCEPT !.chunked = hd.frame = "chunked", !.keep = keep,
                            !.clen = IF hd.frame = "length" THEN Length(hd) ELSE -1]
    /\ res' = "stream"
    /\ UNCHANGED <<head, rq, got, served, faults>>

GetHeaders ==
    /\ pc = "headers"
    /\ LET hd == Headers
           keep == KeepAlive(hd) /\ hd.frame # "close"
       IN  CASE Next1 = "reset" -> Ouch(MapError("errno", 1))
             [] Next1 # "reset" /\ rq.code = 401 -> Again(rq.url, TRUE)
             [] Next1 # "reset" /\ rq.code \in Followed ->
                   IF hd.loc = Elsewhere("none") THEN Ouch(MapError("http", rq.code))
                   ELSE IF Redirected(hd.loc) = NoUrl THEN Ouch(MapError("url", 1))
                   ELSE Again(Redirected(hd.loc), FALSE)
             [] Next1 # "reset" /\ rq.code = 304 -> Unchanged(keep)
             [] Next1 # "reset" /\ rq.code = 200 -> OpenBody(hd, keep)

-----------------------------------------------------------------------------
(* The body (struct httpio).  x is an io with the wire still to read.      *)

(* fetch_read: up to n units of whatever comes next; nothing at the end;   *)
(* -1 on an error.                                                         *)
Read(x, n) ==
    LET k == Small(n, Len(x.w))
    IN  [r |-> IF n > 0 /\ x.w = <<>> /\ x.end = "reset" THEN -1 ELSE k,
         bytes |-> SubSeq(x.w, 1, k), w |-> SubSeq(x.w, k + 1, Len(x.w))]

Wire1(x) == IF x.w # <<>> THEN x.w[1].k ELSE x.end

(* Faulty: the chunk's end does not bound the read.                        *)
WantedPlain(x, len) == IF x.clen >= 0 THEN Small(len, x.clen) ELSE len
Wanted(x, len) ==
    LET l == IF x.clen >= 0 THEN Small(len, x.clen) ELSE len
    IN  IF x.chunked THEN Small(l, x.chunk) ELSE l

(* The read both framings share: the buffer holds what came.               *)
Filled(x, len) ==
    LET rd == Read(x, Wanted(x, len))
    IN  IF rd.r = -1 THEN [x EXCEPT !.error = TRUE, !.r = -1]
        ELSE [x EXCEPT !.buf = rd.bytes, !.w = rd.w, !.r = rd.r,
                       !.clen = IF @ > 0 THEN @ - rd.r ELSE @,
                       !.chunk = IF x.chunked THEN @ - rd.r ELSE @]

(* The line end after a chunk.  At the end of the connection the two bytes *)
(* compared are uninitialized: luck says what they hold.  When they do not *)
(* match, the buffer is left filled and its position is left behind.       *)
ChunkEnd(x, luck) ==
    IF x.chunk # 0 THEN [x EXCEPT !.pos = 0]
    ELSE IF Wire1(x) = "crlf" THEN [x EXCEPT !.pos = 0, !.w = Tail(@)]
    ELSE IF Wire1(x) = "eof" /\ luck THEN [x EXCEPT !.pos = 0]
    ELSE [x EXCEPT !.r = -1, !.torn = TRUE]

Decoded(x, len, luck) ==
    LET f == Filled(x, len) IN IF f.error THEN f ELSE ChunkEnd(f, luck)

(* http_fillbuf.                                                           *)
FillBuf(x, len, luck) ==
    IF x.error THEN [x EXCEPT !.r = -1]
    ELSE IF x.eof THEN [x EXCEPT !.r = 0]
    ELSE IF ~x.chunked THEN LET f == Filled(x, len) IN IF f.error THEN f ELSE [f EXCEPT !.pos = 0]
    ELSE IF x.chunk > 0 THEN Decoded(x, len, luck)
    ELSE IF Wire1(x) # "size" THEN [x EXCEPT !.error = TRUE, !.r = -1]
    ELSE LET y == [x EXCEPT !.w = Tail(@), !.chunk = x.w[1].n]
         IN  IF y.chunk > 0 THEN Decoded(y, len, luck)
             ELSE [y EXCEPT !.eof = TRUE, !.w = IF Wire1(y) = "crlf" THEN Tail(@) ELSE @,
                            !.r = IF Wire1(y) = "reset" THEN -1 ELSE 0]

(* http_readfn: until len is satisfied or nothing more comes.  A position  *)
(* past the buffer makes the length wrap around: whatever memory holds is  *)
(* handed out.                                                             *)
Junk(n) == [j \in 1 .. n |-> [k |-> "junk"]]
RECURSIVE ReadFn(_, _, _)
ReadFn(x, len, luck) ==
    IF len = 0 THEN x
    ELSE LET y == IF x.pos = Len(x.buf) THEN FillBuf(x, len, luck) ELSE [x EXCEPT !.r = 1]
         IN  IF y.r < 1 THEN y
             ELSE IF y.pos > Len(y.buf)
             THEN [y EXCEPT !.out = @ \o Junk(len), !.pos = @ + len]
             ELSE LET l == Small(len, Len(y.buf) - y.pos)
                  IN  ReadFn([y EXCEPT !.out = @ \o SubSeq(y.buf, y.pos + 1, y.pos + l),
                                       !.pos = @ + l], len - l, luck)

(* The reader asks for more: fetchIO_read, and apk's error for a failure.  *)
ReadBody(len, luck) ==
    /\ pc = "body" /\ res = "stream"
    /\ \A j \in DOMAIN got : got[j].k # "junk"       \* reading stray memory ends the run
    /\ LET c == conns[rq.c]
           x == ReadFn(io @@ [w |-> c.wire, end |-> c.end, out |-> <<>>, r |-> 0],
                       len, luck)
       IN  /\ io' = [f \in DOMAIN io |-> x[f]]
           /\ conns' = [conns EXCEPT ![rq.c].wire = x.w]
           /\ got' = got \o x.out
           /\ res' = IF x.out # <<>> THEN "stream" ELSE IF x.error THEN "failed" ELSE "eof"
    /\ UNCHANGED <<head, pc, rq, served, faults>>

(* http_closefn, which the reader may call at any time.                    *)
CloseBody ==
    /\ pc = "body"
    /\ IF io.keep THEN LET x == CachePut(conns, rq.c) IN End(rq, x.cs, x.h, res) ELSE Ouch(res)

(* External: the server drops a connection nobody is using.                *)
IdleClose(c) ==
    /\ "idle" \in Faults
    /\ conns[c].state = "cached" /\ conns[c].end = "open"
    /\ conns' = [conns EXCEPT ![c].end = "eof"]
    /\ UNCHANGED <<head, pc, rq, io, got, res, served, faults>>

(* fetchConnectionCacheClose, at exit.                                     *)
Exit ==
    /\ pc = "idle" /\ rq.n = MaxRequests
    /\ pc' = "exit" /\ head' = 0
    /\ conns' = [c \in Slot |-> IF c \in ToSet(Cached) THEN Free ELSE conns[c]]
    /\ UNCHANGED <<rq, io, got, res, served, faults>>

-----------------------------------------------------------------------------
Init ==
    /\ conns = [c \in Slot |-> Free] /\ head = 0
    /\ pc = "idle" /\ got = <<>> /\ res = "none"
    /\ served = CutOff /\ faults = 0
    /\ rq = NewRequest(NoUrl)
    /\ io = NoBody

Client ==
    \/ ConnectFails \/ Send \/ GetReply \/ GetHeaders
    \/ \E n \in ReadSizes, luck \in BOOLEAN : ReadBody(n, luck)
    \/ CloseBody

Next ==
    \/ \E url \in Urls : Request(url)
    \/ Client
    \/ \E c \in Slot : IdleClose(c)
    \/ Exit

(* The process goes on as long as it runs; every read and write has a      *)
(* timeout (fetchTimeout), and the reader reads to the end or closes.      *)
(* Client is enabled exactly in these states.                              *)
Running == pc \in {"connect", "reply", "headers", "body"}
Fairness == []<>~Running \/ []<><<Running>>_hvars
Spec == Init /\ [][Next]_hvars /\ Fairness

-----------------------------------------------------------------------------
(* What the reader gets is the body of the answer to its own request, in   *)
(* order and without a gap, whatever was left unread on the connection by  *)
(* earlier requests and however the body is framed; a clean end of an      *)
(* answer that was not cut off means all of it (http_readfn,               *)
(* http_fillbuf, http_get_reply).  The one exception is a chunk whose line *)
(* end never arrives (torn).                                               *)
BodyExact ==
    ~io.torn =>
        /\ \A j \in DOMAIN got : got[j] = [k |-> "data", id |-> <<rq.n, j>>]
        /\ pc = "body" /\ res = "eof" /\ ~served.cut => Len(got) = Length(served.r)

(* A request never fails because the server dropped an idle connection or  *)
(* because an earlier reader left data on it: without any answer it fails  *)
(* only on a connection opened for it (http_request's retry).              *)
IdleCloseHarmless ==
    pc = "idle" /\ res \in {"null", "error"} => rq.code # 0 \/ ~rq.cached

(* A request goes out on a connection to its own server, and a login is    *)
(* sent only to the server it was given for, through any chain of          *)
(* redirects and challenges (fetch_cache_get, http_request).               *)
RightServer ==
    pc \in {"reply", "headers", "body"} =>
        /\ conns[rq.c].state = "used" /\ conns[rq.c].key.site = rq.url.site
        /\ \/ rq.url.user \in {"", rq.url.site.host}
           \/ rq.url.user = rq.asked.user /\ rq.url.site = rq.asked.site

(* The cache's list holds exactly the connections put back and not yet     *)
(* taken or closed, within its limits (fetch_cache_get, fetch_cache_put).  *)
CacheSound ==
    LET L == Cached
    IN  /\ ToSet(L) = {c \in Slot : conns[c].state = "cached"}
        /\ Len(L) <= GlobalLimit
        /\ \A k \in ToSet(L) :
              Cardinality({c \in ToSet(L) : conns[c].key.site.host = conns[k].key.site.host})
                  <= HostLimit

(* Connections are kept and used as the cache promises.                    *)
ConnectionsSound == RightServer /\ CacheSound

(* Every request comes to an end: redirects and challenges are counted,    *)
(* and a retry uses up a cached connection (http_request's loop).          *)
RequestEnds == pc \notin {"idle", "exit"} ~> pc = "idle"
=============================================================================
