------------------------------- MODULE Cache -------------------------------
(***************************************************************************)
(* The cache directory: repository indexes and package files that apk      *)
(* downloads through a temporary file and renames, that later commands     *)
(* load and install from, and that apk cache cleans (database.c, commit.c, *)
(* app_cache.c, app_update.c, and the tee and file streams of io.c).       *)
(*                                                                         *)
(* Two processes share the directory.  "apk" runs update, add and upgrade  *)
(* and holds the database lock; "cache" runs apk cache, which takes no     *)
(* lock.  A file is downloaded in two parts, so that the other process,    *)
(* the network and a crash can come between them.                          *)
(*                                                                         *)
(* One remote repository; the server publishes index version after         *)
(* version, each with the date at which it was built.  A mirror shows a    *)
(* version up to MaxLag after it was built.                                *)
(***************************************************************************)
EXTENDS Integers, FiniteSets, Sequences

CONSTANTS
    Pkgs, Index,    \* package files; the index file
    Offers,         \* Offers[v]: the packages of index version v
    Locals,         \* packages that a local repository also has
    Permanent,      \* the root is not a RAM disk (db->permanent)
    MaxAge,         \* --cache-max-age
    Pauses,         \* how far the clock may move at once
    MaxLag, MaxTime, MaxCommands,
    Faults,         \* subset of {"net", "disk", "crash"}
    Verbs           \* what the processes may run

ASSUME CacheAssumption ==
    /\ IsFiniteSet(Pkgs) /\ Locals \subseteq Pkgs /\ Index \notin Pkgs
    /\ Offers \in Seq(SUBSET Pkgs) /\ Offers # <<>> /\ Pauses \subseteq Nat

VARIABLES
    now, served, dated, \* the clock; the version served; its Last-Modified
    dir,            \* names in the cache directory, each with its inode
    data,           \* inodes: the two parts (0: nothing written) and mtime
    proc,           \* the two processes
    installed,      \* installed packages, with the content they came from
    runs,           \* commands started
    meddled         \* history: "shared" when both processes downloaded one file
                    \* at the same time, "removed" when apk cache deleted under apk
cvars == <<now, served, dated, dir, data, proc, installed, runs, meddled>>

Proc == {"apk", "cache"}
CacheVerbs == {"clean", "purge", "sync", "download"}
File == Pkgs \cup {Index}
Final(f) == <<f, "">>
Tmp(f) == <<f, ".tmp">>
Inode == 1 .. 2 * Cardinality(File) + 2
Blank == [part |-> <<0, 0>>, mtime |-> 0]
Whole(part) == part[1] # 0 /\ part[1] = part[2]
Exists(f) == Final(f) \in DOMAIN dir
Content(f) == data[dir[Final(f)]]

Idle ==
    [pc |-> "idle", verb |-> "none", asked |-> 0, since |-> 0, refreshed |-> FALSE,
     failed |-> FALSE, view |-> 0, known |-> {}, cached |-> {}, plan |-> {}, todo |-> {},
     pre |-> FALSE, bad |-> FALSE, file |-> Index, fd |-> 0, ver |-> 0, got |-> 0,
     res |-> "none"]

Set(p, r) == proc' = [proc EXCEPT ![p] = r]
Over(x) == [x EXCEPT !.file = Index, !.since = 0, !.res = "none"]  \* the download is
Bad(res) == res \in {"error", "nofile"}
With(g, x, v) == [y \in DOMAIN g \cup {x} |-> IF y = x THEN v ELSE g[y]]
Without(name) == [x \in DOMAIN dir \ {name} |-> dir[x]]

-----------------------------------------------------------------------------
(* Streams.  apk_ostream_to_file opens NAME.tmp with O_CREAT | O_TRUNC: a   *)
(* temporary file that exists, left by a crash or open in another process,  *)
(* is the same inode.                                                       *)
Opened(f) ==
    IF Tmp(f) \in DOMAIN dir THEN dir[Tmp(f)]
    ELSE CHOOSE i \in Inode : /\ i \notin {dir[x] : x \in DOMAIN dir}
                              /\ \A p \in Proc : proc[p].fd # i
Stamp(f) == IF f = Index THEN now ELSE 0  \* no one asks for a package's mtime
Sharing(p, f) ==
    {"shared" : q \in {x \in Proc \ {p} : proc[x].pc = "transfer" /\ proc[x].file = f}}
OpenTmp(p, f) ==
    /\ dir' = With(dir, Tmp(f), Opened(f))
    /\ data' = [data EXCEPT ![Opened(f)] = [Blank EXCEPT !.mtime = Stamp(f)]]
    /\ meddled' = meddled \cup Sharing(p, f)

(* What the server answers (external): an index that is not newer than      *)
(* If-Modified-Since is not sent again.                                     *)
Answers(f, since) ==
    (IF f = Index THEN IF since > 0 /\ dated[served] <= since THEN {"unchanged"} ELSE {"ok"}
     ELSE IF f \in Offers[served] THEN {"ok"} ELSE {"error"})
    \cup (IF "net" \in Faults THEN {"error"} ELSE {})

(* apk_istream_tee: what is read from the server also goes to fd; 0 when    *)
(* the copy is optional and could not be begun.                             *)
Teed(x, fd) ==
    [x EXCEPT !.pc = "transfer", !.fd = fd, !.got = 0,
              !.ver = IF x.file = Index THEN served ELSE 1]

(* apk_cache_download, and apk_db_unpack_pkg with a copy to the cache: the  *)
(* first opens the temporary file before it asks the server, the second     *)
(* only when the server answers, and goes on without when it cannot.        *)
Fetch(p) ==
    LET x == proc[p]
        f == x.file
        copy == x.pre = FALSE /\ f # Index /\ p = "apk"
        ended(r) == Set(p, [x EXCEPT !.pc = "fetched", !.res = r])
    IN  /\ x.pc = "fetch"
        /\ \/ \E r \in Answers(f, x.since) :
                 \/ r = "ok" /\ OpenTmp(p, f) /\ Set(p, Teed(x, Opened(f)))
                 \/ r # "ok" /\ copy /\ ended(r) /\ UNCHANGED <<dir, data, meddled>>
                 \/ /\ r # "ok" /\ ~copy /\ ended(r) /\ dir' = Without(Tmp(f))
                    /\ data' = IF Tmp(f) \in DOMAIN dir
                               THEN [data EXCEPT ![Opened(f)].part = <<0, 0>>] ELSE data
                    /\ meddled' = meddled \cup Sharing(p, f)
           \/ /\ "disk" \in Faults /\ UNCHANGED <<dir, data, meddled>>
              /\ IF copy /\ "ok" \in Answers(f, 0) THEN Set(p, Teed(x, 0)) ELSE ended("nofile")
        /\ UNCHANGED <<now, served, dated, installed, runs>>

(* tee_read and fdo_write; an error ends in tee_close and fdo_close, which  *)
(* unlink the temporary name.                                               *)
Transfer(p) ==
    LET x == proc[p]
    IN  /\ x.pc = "transfer" /\ x.got < 2
        /\ \/ /\ Set(p, [x EXCEPT !.got = @ + 1])
              /\ data' = IF x.fd = 0 THEN data
                         ELSE [data EXCEPT ![x.fd].part[x.got + 1] = x.ver,
                                           ![x.fd].mtime = Stamp(x.file)]
              /\ UNCHANGED dir
           \/ /\ Faults \cap {"net", "disk"} # {}
              /\ Set(p, [x EXCEPT !.pc = "fetched", !.res = "error", !.fd = 0, !.got = 0, !.ver = 0])
              /\ dir' = IF x.fd = 0 THEN dir ELSE Without(Tmp(x.file))
              /\ UNCHANGED data
        /\ UNCHANGED <<now, served, dated, installed, runs, meddled>>

(* Faulty: the file gets its name when its last part is still to come.      *)
RenameEarly(p) ==
    LET x == proc[p]
    IN  /\ x.pc = "transfer" /\ x.got = 1 /\ x.fd # 0 /\ Tmp(x.file) \in DOMAIN dir
        /\ dir' = With(Without(Tmp(x.file)), Final(x.file), dir[Tmp(x.file)])
        /\ Set(p, [x EXCEPT !.pc = "fetched", !.res = "ok", !.fd = 0])
        /\ UNCHANGED <<now, served, dated, data, installed, runs, meddled>>

(* tee_close, fdo_close: the name goes to whatever NAME.tmp is now.         *)
Rename(p) ==
    LET x == proc[p]
        there == Tmp(x.file) \in DOMAIN dir
    IN  /\ x.pc = "transfer" /\ x.got = 2
        /\ dir' = IF x.fd = 0 \/ ~there THEN dir
                  ELSE With(Without(Tmp(x.file)), Final(x.file), dir[Tmp(x.file)])
        /\ Set(p, [x EXCEPT !.pc = "fetched", !.fd = 0, !.got = 0, !.ver = 0,
                            !.res = IF x.fd = 0 \/ there THEN "ok" ELSE "error"])
        /\ UNCHANGED <<now, served, dated, data, installed, runs, meddled>>

-----------------------------------------------------------------------------
(* Opening the database.                                                    *)
(* Faulty: apk update, too, asks only for an index newer than its copy.     *)
SinceAlways(verb) == IF Exists(Index) THEN Content(Index).mtime ELSE 0

(* repo->mtime is read after the test for a maximum age of zero.            *)
Since(verb) == IF verb # "update" /\ Exists(Index) THEN Content(Index).mtime ELSE 0

(* is_index_stale                                                           *)
IsIndexStale(verb) ==
    verb = "update" \/ ~Exists(Index) \/ now - Content(Index).mtime > MaxAge

Begin(verb, pre) ==
    LET stale == IsIndexStale(verb)
    IN  /\ proc["apk"].pc = "idle" /\ runs < MaxCommands /\ runs' = runs + 1
        /\ Set("apk", [Idle EXCEPT !.verb = verb, !.pre = pre /\ verb # "update", !.asked = served,
                         !.since = Since(verb), !.refreshed = stale,
                         !.pc = IF stale THEN "fetch" ELSE "load"])
        /\ UNCHANGED <<now, served, dated, dir, data, installed, meddled>>

(* apk cache opens without a lock and without autoupdate.                   *)
BeginCache(verb) ==
    /\ proc["cache"].pc = "idle" /\ runs < MaxCommands /\ runs' = runs + 1
    /\ Set("cache", [Idle EXCEPT !.verb = verb, !.pre = TRUE, !.pc = "load"])
    /\ UNCHANGED <<now, served, dated, dir, data, installed, meddled>>

(* open_repository, after the download of the index                         *)
IndexFetched ==
    LET x == proc["apk"]
    IN  /\ x.pc = "fetched" /\ x.file = Index
        /\ Set("apk", [Over(x) EXCEPT !.failed = Bad(x.res), !.pc = "load"])
        /\ data' = IF x.res = "unchanged" /\ Exists(Index)
                   THEN [data EXCEPT ![dir[Final(Index)]].mtime = now] ELSE data
        /\ UNCHANGED <<now, served, dated, dir, installed, runs, meddled>>

(* load_index and mark_in_cache: a cached package is recognised by its name *)
(* and size.                                                                *)
InCache(q) == Exists(q) /\ Content(q).part[2] # 0
View == IF Exists(Index) /\ Whole(Content(Index).part) THEN Content(Index).part[1] ELSE 0
Seen(v) == DOMAIN installed \cup (IF v = 0 THEN {} ELSE Offers[v])

(* An upgrade stops when the index is stale or missing.                     *)
RepositoryCheck(x) == View # 0 /\ ~x.failed

Load(p) ==
    LET x == proc[p]
        cleans == x.verb \in {"clean", "purge", "sync"}
        stop == x.verb = "update" \/ (x.verb = "upgrade" /\ ~RepositoryCheck(x))
    IN  /\ x.pc = "load"
        /\ Set(p, IF stop THEN Idle
                  ELSE [x EXCEPT !.asked = 0, !.since = 0, !.refreshed = FALSE, !.failed = FALSE,
                                 !.view = View, !.known = DOMAIN installed,
                                 !.cached = {q \in Seen(View) : InCache(q)},
                                 !.todo = IF cleans THEN DOMAIN dir ELSE {},
                                 !.pc = IF cleans THEN "clean" ELSE "plan"])
        /\ UNCHANGED <<now, served, dated, dir, data, installed, runs, meddled>>

-----------------------------------------------------------------------------
(* Committing: packages to get, chosen by the solver.                       *)
Plan(p) ==
    LET x == proc[p]
        offered == IF x.view = 0 THEN {} ELSE Offers[x.view]
    IN  /\ x.pc = "plan"
        /\ \E S \in SUBSET (IF p = "apk" THEN offered \ x.known ELSE offered) :
              Set(p, [x EXCEPT !.verb = "none", !.view = 0, !.known = {},
                               !.plan = IF x.pre THEN S ELSE {}, !.todo = S,
                               !.pc = IF x.pre THEN "precache" ELSE "install"])
        /\ UNCHANGED <<now, served, dated, dir, data, installed, runs, meddled>>

Pick(S) == CHOOSE q \in S : TRUE
ToFetch(x) == x.todo \ (x.cached \cup Locals)

(* apk_solver_precache_changeset; a download that failed ends the command   *)
(* after the others have been tried.                                        *)
Precache(p) ==
    LET x == proc[p]
        q == Pick(ToFetch(x))
    IN  /\ x.pc = "precache"
        /\ Set(p, IF ToFetch(x) # {}
                  THEN [x EXCEPT !.file = q, !.since = 0, !.todo = @ \ {q}, !.pc = "fetch"]
                  ELSE IF x.bad \/ p = "cache" THEN Idle
                  ELSE [x EXCEPT !.todo = x.plan, !.plan = {}, !.pre = FALSE, !.pc = "install"])
        /\ UNCHANGED <<now, served, dated, dir, data, installed, runs, meddled>>

(* The end of apk_cache_download: pkg->cached is set whatever the result,   *)
(* once the temporary file could be created.                                *)
Precached(p) ==
    LET x == proc[p]
    IN  /\ x.pc = "fetched" /\ x.file # Index /\ x.pre
        /\ Set(p, [Over(x) EXCEPT !.cached = IF x.res = "nofile" THEN @ ELSE @ \cup {x.file},
                                  !.bad = @ \/ Bad(x.res), !.pc = "precache"])
        /\ UNCHANGED <<now, served, dated, dir, data, installed, runs, meddled>>

(* Faulty: what is in the cache is trusted.                                 *)
VerifyIdentityNever(part) == TRUE

(* apk_extract_verify_identity on what the stream delivered                 *)
VerifyIdentity(part) == part = <<1, 1>>

(* Where a package comes from: the cache, a local repository, the network.  *)
SelectRepo(x, q) ==
    IF q \in x.cached THEN "cache" ELSE IF q \in Locals THEN "local" ELSE "net"

(* apk_db_unpack_pkg; from the network with a copy to the cache.  An error  *)
(* leaves the package out and the next change follows.                      *)
Install ==
    LET x == proc["apk"]
        q == Pick(x.todo)
        repo == SelectRepo(x, q)
        part == IF repo = "cache" THEN Content(q).part ELSE <<1, 1>>
        opens == repo = "cache" => Exists(q)
    IN  /\ x.pc = "install"
        /\ \/ /\ x.todo = {} /\ Set("apk", Idle) /\ UNCHANGED installed
           \/ /\ x.todo # {} /\ repo # "net"
              /\ Set("apk", [x EXCEPT !.todo = @ \ {q}])
              /\ installed' = IF opens /\ VerifyIdentity(part)
                              THEN With(installed, q, part) ELSE installed
           \/ /\ x.todo # {} /\ repo = "net"
              /\ Set("apk", [x EXCEPT !.file = q, !.since = 0, !.todo = @ \ {q}, !.pc = "fetch"])
              /\ UNCHANGED installed
        /\ UNCHANGED <<now, served, dated, dir, data, runs, meddled>>

InstallFetched ==
    LET x == proc["apk"]
        ok == x.res = "ok"
    IN  /\ x.pc = "fetched" /\ x.file # Index /\ ~x.pre
        /\ Set("apk", [Over(x) EXCEPT !.pc = "install",
                                      !.cached = IF ok THEN @ \cup {x.file} ELSE @])
        /\ installed' = IF ok THEN With(installed, x.file, <<1, 1>>) ELSE installed
        /\ UNCHANGED <<now, served, dated, dir, data, runs, meddled>>

-----------------------------------------------------------------------------
(* apk_db_get_pkg_by_name, for a file with the size of the package          *)
IsPkgFile(x, name) ==
    /\ name[2] = "" /\ name[1] \in Pkgs /\ data[dir[name]].part[2] # 0
    /\ name[1] \in x.known \cup (IF x.view = 0 THEN {} ELSE Offers[x.view])

(* Faulty: installed packages of no repository go, too.                     *)
KeepsOffered(x, name) ==
    IF IsPkgFile(x, name)
    THEN name[1] \notin Locals /\ x.view # 0 /\ name[1] \in Offers[x.view]
    ELSE name = Final(Index)

(* cache_clean_item *)
Keeps(x, name) ==
    IF IsPkgFile(x, name)
    THEN /\ name[1] \notin Locals
         /\ x.verb = "purge" => ~Permanent /\ name[1] \in x.known
    ELSE name = Final(Index)

(* cache_clean: one file after the other                                    *)
Clean ==
    LET x == proc["cache"]
        name == Pick(x.todo)
        gone == x.todo # {} /\ name \in DOMAIN dir /\ ~Keeps(x, name)
    IN  /\ x.pc = "clean"
        /\ Set("cache", IF x.todo # {} THEN [x EXCEPT !.todo = @ \ {name}]
                        ELSE IF x.verb = "sync" THEN [x EXCEPT !.pc = "plan"] ELSE Idle)
        /\ dir' = IF gone THEN Without(name) ELSE dir
        /\ meddled' = meddled \cup (IF gone /\ proc["apk"].pc # "idle" THEN {"removed"} ELSE {})
        /\ UNCHANGED <<now, served, dated, data, installed, runs>>

-----------------------------------------------------------------------------
Publish ==
    /\ served + 1 \in DOMAIN Offers /\ served' = served + 1
    /\ \E t \in {x \in now - MaxLag .. now : x >= dated[served]} :
          dated' = [dated EXCEPT ![served + 1] = t]
    /\ UNCHANGED <<now, dir, data, proc, installed, runs, meddled>>

Tick ==
    /\ \E d \in Pauses : now + d <= MaxTime /\ now' = now + d
    /\ UNCHANGED <<served, dated, dir, data, proc, installed, runs, meddled>>

Crash(p) ==
    /\ "crash" \in Faults /\ proc[p].pc # "idle" /\ Set(p, Idle)
    /\ UNCHANGED <<now, served, dated, dir, data, installed, runs, meddled>>

Init ==
    /\ now = 1 /\ served = 1 /\ dated = [v \in DOMAIN Offers |-> IF v = 1 THEN 1 ELSE 0]
    /\ dir = [x \in {} |-> 0] /\ data = [i \in Inode |-> Blank]
    /\ proc = [p \in Proc |-> Idle] /\ installed = [q \in {} |-> <<1, 1>>]
    /\ runs = 0 /\ meddled = {}

Next ==
    \/ \E verb \in Verbs \ CacheVerbs, pre \in BOOLEAN : Begin(verb, pre)
    \/ \E verb \in Verbs \cap CacheVerbs : BeginCache(verb)
    \/ \E p \in Proc : \/ Fetch(p) \/ Transfer(p) \/ Rename(p) \/ Load(p) \/ Plan(p)
                       \/ Precache(p) \/ Precached(p) \/ Crash(p)
    \/ IndexFetched \/ Install \/ InstallFetched \/ Clean \/ Publish \/ Tick

Spec == Init /\ [][Next]_cvars

-----------------------------------------------------------------------------
(* A file under its final name is whole, through failed and interrupted     *)
(* downloads; only two processes that download one file at the same time    *)
(* break this (apk_ostream_to_file has no O_EXCL, apk cache no lock).       *)
CachedComplete ==
    "shared" \notin meddled => \A f \in File : Exists(f) => Whole(Content(f).part)

(* What is installed has been verified, whatever is in the cache            *)
(* (apk_extract_verify_identity).                                           *)
InstalledVerified == \A q \in DOMAIN installed : installed[q] = <<1, 1>>

(* When apk update has opened the repository without an error, the cached   *)
(* index is no older than the one served when the command began             *)
(* (apk_cache_download, is_index_stale).                                    *)
Loaded(x) == x.pc = "load" /\ x.refreshed /\ ~x.failed
UpdateIsFresh ==
    Loaded(proc["apk"]) /\ proc["apk"].verb = "update" => View >= proc["apk"].asked

(* A package that is about to be installed from the cache is there and      *)
(* whole, unless apk cache has interfered: pkg->cached, which               *)
(* apk_cache_download sets for failed downloads too, is then not used.      *)
CachedFlagSound ==
    proc["apk"].pc = "install" /\ meddled = {} =>
        \A q \in proc["apk"].todo \cap proc["apk"].cached :
            Exists(q) /\ Whole(Content(q).part)

(* What the cache has is whole, and what apk believes it has is there.      *)
CacheIntact == CachedComplete /\ CachedFlagSound

(* While apk cache clean runs, the file of a package that it has seen       *)
(* installed stays, also when no index offers the package any more, unless  *)
(* a local repository has it (cache_clean_item).                            *)
CleanKeepsInstalled ==
    [][\A q \in (Pkgs \cap proc["cache"].known) \ Locals :
          (proc["cache"].pc = "clean" /\ proc["cache"].verb # "purge"
             /\ Exists(q) /\ Whole(Content(q).part))
          => Exists(q)']_cvars
=============================================================================
