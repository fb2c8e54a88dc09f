------------------------------- MODULE Index -------------------------------
(***************************************************************************)
(* Making repository indexes: apk mkndx (app_mkndx.c, version 3) and apk   *)
(* index (app_index.c, version 2).  Both can take what they need from the  *)
(* previous index instead of reading a package again, when the package     *)
(* file is not newer than that index.  Packages are rebuilt while indexes  *)
(* are made.                                                               *)
(*                                                                         *)
(* A file name is the sequence of its pieces between dashes; a package's   *)
(* file name is its name's pieces followed by its version's, so one file   *)
(* name may belong to several names.                                       *)
(***************************************************************************)
EXTENDS Adb

CONSTANTS Files,      \* the repository's file names, with the name's length
          ArgLists,   \* the files a command may be given
          Contents,   \* what a package file may hold: [id, size]
          Modes,      \* the commands given: mkndx without and with -x, with
                      \* --filter-spec; index -x without and with --merge
          MaxTime,    \* the clock stops here
          MaxRebuilds

VARIABLE maker   \* the repository, its index, and the run at work

\* ADBI_PI_HASHES: the fields that identify a package.
PiHashes == 3

Package(f, c) ==
    [name |-> SubSeq(f.file, 1, f.split), version |-> SubSeq(f.file, f.split + 1, Len(f.file)),
     hash |-> <<c.id>>, size |-> c.size]

FileOf(p) == p.name \o p.version

\* The package as an object of schema_pkginfo; fields not set are null.
PkgInfo(p) == TObj(<<TBlob(p.name), TBlob(p.version), TBlob(p.hash), TInt(p.size)>>)
Template(name, size) == TObj(<<TBlob(name), TNull, TNull, TInt(size)>>)

(***************************************************************************)
(* find_package: every name the file name may start with, every entry the  *)
(* search gives for that name.                                             *)
(***************************************************************************)

RECURSIVE FindFrom(_, _, _, _)
FindFrom(pkgs, file, tmpl, cur) ==
    LET i == RaFind([k \in 1 .. Len(pkgs) |-> PkgInfo(pkgs[k])], cur, tmpl, PiHashes)
    IN IF i = 0 \/ FileOf(pkgs[i]) = file THEN i ELSE FindFrom(pkgs, file, tmpl, i)

FindPackage(pkgs, file, size) ==
    LET hits == [n \in 1 .. Len(file) - 1 |->
                    FindFrom(pkgs, file, Template(SubSeq(file, 1, n), size), 0)]
        n == SelectInSeq(hits, LAMBDA i : i > 0)
    IN IF n = 0 THEN 0 ELSE hits[n]

\* apk_db_get_pkg_by_name of apk index: any package of the old index with
\* that file name and size.
ByName(pkgs, file, size) ==
    SelectInSeq(pkgs, LAMBDA p : FileOf(p) = file /\ p.size = size)

(***************************************************************************)
(* The run: mkndx_main and index_main.                                     *)
(***************************************************************************)

NoRun == [mode |-> "idle", old |-> <<>>, mtime |-> 0, todo |-> <<>>, took |-> <<>>,
          args |-> {}, errors |-> FALSE]

\* apk index keeps what it does not mark only with --merge.
Kept(job) == IF job.mode = "merge" THEN Range(job.old) ELSE {}

SortPkgs(s) == SortSeq(s, LAMBDA p, q : CmpObj(PkgInfo(p).c, PkgInfo(q).c, 1, "EXACT", 0) = Less)

\* The previous index: read with -x, its time taken from the file.
Previous(mode) == IF mode = "fresh" THEN [pkgs |-> <<>>, mtime |-> 0] ELSE maker.ndx

Begin(mode, args) ==
    /\ maker.job = NoRun
    /\ mode \in {"update", "filter", "index", "merge"} => maker.ndx.mtime > 0
    /\ maker' = [maker EXCEPT !.job =
           [NoRun EXCEPT !.mode = mode, !.args = Range(args), !.todo = args,
                         !.old = Previous(mode).pkgs, !.mtime = Previous(mode).mtime]]

\* Faulty: a package of the old index is taken however old the index is.
UsePreviousAlways(job, file) == TRUE

\* use_previous; the repository's files have a modification time above 0.
UsePrevious(job, file) == job.mode = "filter" \/ job.mtime >= maker.repo[file].mtime

Next1(job) == [job EXCEPT !.todo = Tail(@)]
Took(job, p) == [Next1(job) EXCEPT !.took = Append(@, p)]
Read1(job, f) == Took(job, Package(f, maker.repo[f].content))
Failed(job) == [Next1(job) EXCEPT !.errors = TRUE]

\* An argument of mkndx: taken from the old index, or read from the file,
\* which may fail, or (when filtering) left out.
ScanMkndx ==
    LET job == maker.job
        f == Head(job.todo)
        size == IF job.mode = "filter" THEN 0 ELSE maker.repo[f].content.size
        i == IF UsePrevious(job, f) THEN FindPackage(job.old, f.file, size) ELSE 0
    IN /\ job.todo # <<>> /\ job.mode \in {"fresh", "update", "filter"}
       /\ \/ i > 0 /\ maker' = [maker EXCEPT !.job = Took(job, job.old[i])]
          \/ i = 0 /\ job.mode = "filter" /\ maker' = [maker EXCEPT !.job = Next1(job)]
          \/ i = 0 /\ job.mode # "filter" /\ maker' = [maker EXCEPT !.job = Read1(job, f)]
          \/ job.mode # "filter" /\ maker' = [maker EXCEPT !.job = Failed(job)]

\* An argument of apk index.  A file that is not there is passed over with a
\* warning.
ScanIndex ==
    LET job == maker.job
        f == Head(job.todo)
        i == IF UsePrevious(job, f) THEN ByName(job.old, f.file, maker.repo[f].content.size) ELSE 0
    IN /\ job.todo # <<>> /\ job.mode \in {"index", "merge"}
       /\ \/ maker' = [maker EXCEPT !.job = [Next1(job) EXCEPT !.args = @ \ {f}]]
          \/ i > 0 /\ maker' = [maker EXCEPT !.job = Took(job, job.old[i])]
          \/ i = 0 /\ maker' = [maker EXCEPT !.job = Read1(job, f)]
          \/ i = 0 /\ maker' = [maker EXCEPT !.job = Failed(job)]

\* After an error nothing is written.  The new index replaces the old one.
\* doubt: the files whose change a later run cannot see, because they were
\* replaced during a run or at the time of the index, or because --merge or
\* --filter-spec gave an old entry a new index's time.
Written(job, set) ==
    LET pkgs == SortPkgs(SetToSeq(set))
        stale == {f \in Files : \E p \in set :
                     FileOf(p) = f.file /\ p # Package(f, maker.repo[f].content)}
    IN IF job.errors THEN [maker EXCEPT !.job = NoRun]
       ELSE [maker EXCEPT !.job = NoRun, !.ndx = [pkgs |-> pkgs, mtime |-> maker.clock],
                          !.doubt = IF job.mode \in {"merge", "filter"} THEN @ \cup stale ELSE @]

FinishMkndx ==
    /\ maker.job.mode \in {"fresh", "update", "filter"} /\ maker.job.todo = <<>>
    /\ maker' = Written(maker.job, Range(maker.job.took))

FinishIndex ==
    /\ maker.job.mode \in {"index", "merge"} /\ maker.job.todo = <<>>
    /\ maker' = Written(maker.job, Range(maker.job.took) \cup Kept(maker.job))

\* A package is built again.
Rebuild(f, c) ==
    /\ maker.repo[f].content # c /\ maker.rebuilds > 0
    /\ maker' = [maker EXCEPT !.repo[f] = [content |-> c, mtime |-> maker.clock],
                              !.rebuilds = @ - 1,
                              !.doubt = IF maker.job # NoRun \/ maker.ndx.mtime = maker.clock
                                        THEN @ \cup {f} ELSE @ \ {f}]

Tick ==
    /\ maker.clock < MaxTime
    /\ maker' = [maker EXCEPT !.clock = @ + 1]

Repository == [f \in Files |-> [content |-> CHOOSE c \in Contents : c.id = 1, mtime |-> 1]]

IdleMaker == [repo |-> Repository, ndx |-> [pkgs |-> <<>>, mtime |-> 0], job |-> NoRun,
              clock |-> 1, rebuilds |-> MaxRebuilds, doubt |-> {}]

IndexNext ==
    \/ \E mode \in Modes, args \in ArgLists : Begin(mode, args)
    \/ ScanMkndx
    \/ ScanIndex
    \/ FinishMkndx
    \/ FinishIndex
    \/ \E f \in Files, c \in Contents : Rebuild(f, c)
    \/ Tick

(***************************************************************************)
(* Properties.                                                             *)
(***************************************************************************)

\* A run in one of the modes has just replaced the index.
Made(modes) ==
    maker.job.mode \in modes /\ maker'.job = NoRun /\ ~maker.job.errors

\* An index made from package files describes each of them as it is, and
\* nothing else, although most of it was taken from the index before it, by
\* a search for the file's name: no stale entry is carried from index to
\* index.  Excepted are the files in doubt, which look older than the index.
IndexCurrent ==
    [][Made({"fresh", "update", "index"}) =>
           /\ Len(maker'.ndx.pkgs) = Cardinality(maker.job.args)
           /\ \A f \in maker.job.args \ maker.doubt :
                  Package(f, maker.repo[f].content) \in Range(maker'.ndx.pkgs)]_maker
============================================================================
