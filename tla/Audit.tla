------------------------------- MODULE Audit -------------------------------
(***************************************************************************)
(* apk audit: a walk over the file system that compares what it meets with *)
(* the installed database, and a pass over the database for the files that *)
(* the walk did not meet.  What is expected of a path depends on the rules *)
(* in protected_paths.d, which every directory of the database receives    *)
(* from its parent, a component shorter.  The administrator may change     *)
(* files while the walk is under way.                                      *)
(*                                                                         *)
(* A path is the sequence of its names, the root directory the empty one.  *)
(***************************************************************************)
EXTENDS Naturals, FiniteSets, SequencesExt

CONSTANTS
    DirPaths,   \* directories there may be, the root not among them
    FilePaths,  \* files there may be
    PkgDirs,    \* directories with an instance in the installed database
    PkgFiles,   \* files in the installed database
    PkgOf,      \* PkgOf[f]: the package of f, for f in PkgFiles
    NewNames,   \* names that end in the suffix .apk-new
    RuleLines,  \* the lines of protected_paths.d: a mark, if any, and a pattern
    AuditOpts,  \* the options the command may be given
    AuditArgs,  \* the sequences of directories it may be given
    MaxEdits    \* changes the administrator makes, one of them during the walk

VARIABLE audit

Anything == "*"    \* the pattern that every name matches

FileKinds == {"none", "same", "edited", "meta", "xattr", "link", "busybox", "unreadable"}
DirKinds  == {"none", "dir", "meta"}

IsDir(path)  == path = <<>> \/ path \in DirPaths
Below(path)  == {q \in DirPaths \cup FilePaths : q # path /\ IsPrefix(path, q)}
Above(path)  == {q \in DirPaths : q # path /\ IsPrefix(q, path)}
Inside(path) == {q \in Below(path) : Len(q) = Len(path) + 1}
Listed(disk, path) == {q \in Inside(path) : disk[q] # "none"}

(***************************************************************************)
(* Protected paths.                                                        *)
(***************************************************************************)
fnmatch(pattern, name) == pattern \in {Anything, name}

\* apk_db_add_protected_path: the rule a line adds, after those before it.
AddProtectedPath(rules, line) ==
    LET Added(protect) == Append(rules, [pattern |-> line.pattern, protect |-> protect])
    IN  CASE line.mark = "#" -> rules
          [] line.mark = "-" -> Added("ignore")
          [] line.mark \in {"+", ""} -> Added("changed")
          [] line.mark = "@" -> Added("symlinks")
          [] line.mark = "!" -> Added("all")

Rules == FoldLeft(AddProtectedPath, <<>>, RuleLines)

ProtectModeNone(protect) == protect \in {"none", "ignore"}

\* Faulty: a rule for something further down does not make it worth entering.
DirRuleShallow(dir, rule, name) ==
    IF ~fnmatch(Head(rule.pattern), name) THEN dir
    ELSE IF Len(rule.pattern) > 1
    THEN [dir EXCEPT !.rules = Append(@, [rule EXCEPT !.pattern = Tail(@)])]
    ELSE [dir EXCEPT !.protect = rule.protect, !.children = @ \/ ~ProtectModeNone(rule.protect)]

\* What a directory named name gets from a rule that its parent hands down.
DirRule(dir, rule, name) ==
    LET reached == [dir EXCEPT !.children = @ \/ ~ProtectModeNone(rule.protect)]
    IN  IF ~fnmatch(Head(rule.pattern), name) THEN dir
        ELSE IF Len(rule.pattern) > 1
        THEN [reached EXCEPT !.rules = Append(@, [rule EXCEPT !.pattern = Tail(@)])]
        ELSE [reached EXCEPT !.protect = rule.protect]

RootDir == [protect |-> "none", children |-> TRUE, rules |-> <<>>]

RECURSIVE DirGet(_)
\* The fields of struct apk_db_dir that protected_paths decides about.
DirGet(path) ==
    IF path = <<>> THEN RootDir
    ELSE LET parent == DirGet(Front(path))
             rules  == IF Len(path) = 1 THEN Rules ELSE parent.rules
             fresh  == [protect  |-> parent.protect,
                        children |-> ~ProtectModeNone(parent.protect),
                        rules    |-> <<>>]
             Step(dir, rule) == DirRule(dir, rule, Last(path))
         IN  FoldLeft(Step, fresh, rules)

Dirs == [path \in DirPaths \cup {<<>>} |-> DirGet(path)]

DetermineFileProtectMode(path) ==
    LET dir == Dirs[Front(path)]
        Step(protect, rule) ==
            IF Len(rule.pattern) = 1 /\ fnmatch(Head(rule.pattern), Last(path))
            THEN rule.protect ELSE protect
    IN  FoldLeft(Step, dir.protect, dir.rules)

(***************************************************************************)
(* What is wrong with one file or directory.  "" stands for nothing.       *)
(***************************************************************************)

\* apk_fileinfo_get cannot tell about a file that is gone, nor, when it is to
\* compute digests, about one that it cannot open.
FileinfoFails(kind, digests) ==
    kind = "none" \/ (digests /\ kind = "unreadable")

AuditFile(opt, path, kind) ==
    IF path \notin PkgFiles THEN IF opt.details /\ FileinfoFails(kind, TRUE) THEN "e" ELSE "A"
    ELSE CASE FileinfoFails(kind, TRUE) -> "e"
           [] kind \in {"edited", "link", "busybox"} -> "U"
           [] kind = "xattr" -> "x"
           [] kind = "meta" /\ opt.perms -> "M"
           [] OTHER -> ""

AuditDirectory(opt, path, kind) ==
    IF path \notin PkgDirs THEN IF opt.recursive THEN "d" ELSE "D"
    ELSE IF opt.perms /\ kind = "meta" THEN "m" ELSE ""

\* report_audit: a line, or the package when only packages are asked for.
Report(a, why, path) ==
    IF why = "" THEN a
    ELSE IF ~a.opt.packages THEN [a EXCEPT !.out = @ \cup {[why |-> why, path |-> path]}]
    ELSE IF path \notin PkgFiles THEN a
    ELSE [a EXCEPT !.out = @ \cup {[why |-> "package", path |-> <<PkgOf[path]>>]}]

(***************************************************************************)
(* The walk.  frames holds the directories being read, the innermost last. *)
(***************************************************************************)
RECURSIVE Settled(_)
Settled(a) ==
    IF a.frames # <<>> /\ Last(a.frames) = {}
    THEN Settled([a EXCEPT !.frames = Front(@)]) ELSE a

Enter(a, path) == [a EXCEPT !.frames = Append(@, Listed(a.disk, path))]

DirItem(a, path) ==
    LET dir      == Dirs[path]
        audited  == \/ a.opt.mode = "backup" /\ ~ProtectModeNone(dir.protect)
                    \/ a.opt.mode = "full" /\ dir.protect = "none"
                    \/ a.opt.mode = "system"
        reason   == IF audited THEN AuditDirectory(a.opt, path, a.disk[path]) ELSE ""
        marked   == [a EXCEPT !.modified = IF audited THEN @ \cup {path} ELSE @]
        reported == Report(marked, reason, path)
        recurse  == a.opt.mode # "backup" \/ dir.children
    IN  IF a.opt.mode = "system" /\ path \notin PkgDirs THEN a
        ELSE IF reason # "D" /\ recurse THEN Enter(reported, path) ELSE reported

\* Does the mode of the audit look at a file with this protection?
Concerns(a, path, protect, islink) ==
    CASE a.opt.mode = "full" ->
             protect = "none" \/ (protect = "symlinks" /\ ~islink)
      [] a.opt.mode = "backup" ->
             /\ protect \in {"changed", "all"} \/ (protect = "symlinks" /\ islink)
             /\ ~((path \notin PkgFiles \/ protect = "all") /\ Last(path) \in NewNames)
      [] a.opt.mode = "system" ->
             path \in PkgFiles /\ ProtectModeNone(protect)

FileItem(a, path) ==
    LET kind    == a.disk[path]
        protect == DetermineFileProtectMode(path)
        met     == [a EXCEPT !.audited = @ \cup ({path} \cap PkgFiles)]
        skipped == path \notin PkgFiles /\ a.opt.nobusybox /\ kind = "busybox"
        reason  == IF a.opt.mode = "backup" /\ protect = "all" THEN "A"
                   ELSE AuditFile(a.opt, path, kind)
    IN  IF Concerns(a, path, protect, kind \in {"link", "busybox"}) /\ ~skipped
        THEN Report(met, reason, path) ELSE met

GoneItem(a, path) ==
    Report([a EXCEPT !.audited = @ \cup ({path} \cap PkgFiles)], "e", path)

\* audit_directory_tree_item, for a name that was read from the directory.
AuditItem ==
    /\ audit.phase = "walk" /\ audit.frames # <<>>
    /\ \E path \in Last(audit.frames) :
           LET a == [audit EXCEPT !.frames[Len(audit.frames)] = @ \ {path}]
           IN  audit' = Settled(IF FileinfoFails(a.disk[path], FALSE) THEN GoneItem(a, path)
                                ELSE IF IsDir(path) THEN DirItem(a, path)
                                ELSE FileItem(a, path))

\* audit_directory_tree, for the next argument.
AuditTree ==
    /\ audit.phase = "walk" /\ audit.frames = <<>> /\ audit.args # <<>>
    /\ LET path == Head(audit.args)
           a    == [audit EXCEPT !.args = Tail(@), !.modified = @ \cup {path}]
       IN  audit' = IF path # <<>> /\ a.disk[path] = "none"
                    THEN [a EXCEPT !.failed = TRUE]
                    ELSE Settled(Enter(a, path))

\* audit_missing_files, over the hash of installed files.
Missing(a) ==
    {f \in PkgFiles \ a.audited :
         Front(f) \in a.modified /\ DetermineFileProtectMode(f) # "ignore"}

AuditMissing ==
    /\ audit.phase = "walk" /\ audit.frames = <<>> /\ audit.args = <<>>
    /\ LET a == [audit EXCEPT !.phase = "done"]
           Gone(b, f) == Report(b, "X", f)
       IN  audit' = IF a.opt.mode = "backup" THEN a
                    ELSE FoldLeft(Gone, a, SetToSeq(Missing(a)))

(***************************************************************************)
(* The command, and the administrator.                                     *)
(***************************************************************************)
AuditStart ==
    /\ audit.phase = "idle"
    /\ \E opt \in AuditOpts, args \in AuditArgs :
           LET dirs == IF args = <<>> THEN << <<>> >> ELSE args
           IN  audit' = [audit EXCEPT !.phase = "walk", !.opt = opt, !.args = dirs,
                                      !.asked = Range(dirs)]

\* A directory goes with what is in it, and a file needs its directory.
AuditEdit ==
    /\ audit.edits > 0 /\ audit.phase # "done" /\ audit.moved = {}
    /\ \E path \in DirPaths \cup FilePaths, kind \in FileKinds \cup DirKinds :
           /\ kind \in IF IsDir(path) THEN DirKinds ELSE FileKinds
           /\ kind = "same" => path \in PkgFiles
           /\ kind # audit.disk[path]
           /\ \A d \in Above(path) : audit.disk[d] # "none"
           /\ audit' = [audit EXCEPT
                  !.edits = @ - 1,
                  !.disk  = [q \in DOMAIN @ |->
                                IF q = path THEN kind
                                ELSE IF kind = "none" /\ q \in Below(path) THEN "none"
                                ELSE @[q]],
                  !.moved = IF audit.phase = "idle" THEN @ ELSE @ \cup {path} \cup Below(path)]

Pristine ==
    [path \in DirPaths \cup FilePaths |->
        IF path \in PkgDirs THEN "dir" ELSE IF path \in PkgFiles THEN "same" ELSE "none"]

NoOpt == [mode |-> "none"]

Unaudited ==
    [phase |-> "idle", opt |-> NoOpt, args |-> <<>>, disk |-> Pristine, frames |-> <<>>,
     out |-> {}, audited |-> {}, modified |-> {}, failed |-> FALSE,
     edits |-> MaxEdits, moved |-> {}, asked |-> {}]

AuditNext == AuditStart \/ AuditTree \/ AuditItem \/ AuditMissing \/ AuditEdit

(***************************************************************************)
(* Properties.                                                             *)
(***************************************************************************)

\* The rule that speaks for a path: of those whose pattern matches the path
\* or a directory above it, the longest, and of several that long the last.
Speaks(i, path) ==
    /\ Len(Rules[i].pattern) <= Len(path)
    /\ \A k \in 1..Len(Rules[i].pattern) : fnmatch(Rules[i].pattern[k], path[k])

RuleFor(path) ==
    LET speaking == {i \in 1..Len(Rules) : Speaks(i, path)}
        Weight(i) == <<Len(Rules[i].pattern), i>>
        Weaker(i, j) == \/ Weight(i)[1] < Weight(j)[1]
                        \/ Weight(i)[1] = Weight(j)[1] /\ i <= j
        best == CHOOSE i \in speaking : \A j \in speaking : Weaker(j, i)
    IN  IF speaking = {} THEN "none" ELSE Rules[best].protect

\* The rules are handed to the directories in the root directory, and a file
\* directly in the root directory is reached by none.
FileRule(f) == IF Len(f) = 1 THEN "none" ELSE RuleFor(f)

\* Should a file, as it is on disk, be in the output of the audit?
Deserves(a, f) ==
    LET rule    == FileRule(f)
        islink  == a.disk[f] \in {"link", "busybox"}
        differs == \/ f \notin PkgFiles
                   \/ a.disk[f] \notin {"same", "meta"}
                   \/ a.disk[f] = "meta" /\ a.opt.perms
        busybox == f \notin PkgFiles /\ a.disk[f] = "busybox" /\ a.opt.nobusybox
        apknew  == Last(f) \in NewNames /\ (f \notin PkgFiles \/ rule = "all")
    IN  IF a.disk[f] = "none"
        THEN /\ a.opt.mode # "backup" /\ f \in PkgFiles /\ rule # "ignore"
             /\ a.opt.mode = "full" => Front(f) \in a.asked \/ RuleFor(Front(f)) = "none"
        ELSE /\ ~busybox /\ (differs \/ rule = "all")
             /\ CASE a.opt.mode = "system" -> f \in PkgFiles /\ ProtectModeNone(rule)
                  [] a.opt.mode = "full"   -> rule = "none" \/ (rule = "symlinks" /\ ~islink)
                  [] a.opt.mode = "backup" ->
                         ~apknew /\ (rule \in {"changed", "all"} \/ (rule = "symlinks" /\ islink))

InOutput(a, f) == \E line \in a.out : line.path = f
InNewDir(a, f) == \E line \in a.out : line.why = "D" /\ line.path \in Above(f)

\* Nobody touched the file or a directory above it while the audit ran.
AtRest(a, f) == ({f} \cup Above(f)) \cap a.moved = {}
Reachable(a, f) ==
    /\ \E d \in a.asked : IsPrefix(d, f)
    /\ \A d \in Above(f) : a.disk[d] # "none"

\* The audit lists exactly the files it should, in each of its modes: the
\* protection handed down from directory to directory comes to what the
\* longest matching rule says, no file that counts lies behind a directory
\* that is not entered, and a file is missing only if the walk passed where
\* it should be.  Changes made elsewhere during the walk do not disturb that.
AuditExact ==
    audit.phase = "done" /\ ~audit.opt.packages =>
        \A f \in FilePaths : AtRest(audit, f) /\ Reachable(audit, f) =>
            /\ Deserves(audit, f) => InOutput(audit, f) \/ InNewDir(audit, f)
            /\ InOutput(audit, f) => Deserves(audit, f)
============================================================================
