-------------------------------- MODULE Shim --------------------------------
(***************************************************************************)
(* Starting a command under $HOME/.hapkg/sysroot, and the shims: scripts,  *)
(* one per name, that run the ELF programs of packages.  Installing and    *)
(* deleting files keeps the staged shims up to date (apk_shim_install,     *)
(* apk_shim_remove); at the end of the command, after the database lock is *)
(* gone, they are packed and handed to the system (apk_shim_pack), and an  *)
(* add that fails in this is undone by another apk (main).                 *)
(*                                                                         *)
(* What is packed is abstracted to the number of changes to the staged     *)
(* shims it reflects.                                                      *)
(***************************************************************************)
EXTENDS Integers, FiniteSets

CONSTANTS
    Cmds,        \* processes that run commands, one after the other
    Uids,        \* who runs them: "root" or "user"
    ShimPaths,   \* paths of the files that packages install
    Targets,     \* those under bin/, sbin/, usr/bin/, usr/sbin/, usr/local/bin/
    BaseName,    \* the name of each path
    MaxStarts,   \* bound: commands in a behaviour
    MaxFileOps,  \* bound: files a command installs or deletes
    MaxMishaps,  \* bound: failures and kills in a behaviour
    ShimFaults   \* some of "io" and "kill"

ASSUME ShimAssumption ==
    /\ Uids \subseteq {"root", "user"}
    /\ Targets \subseteq ShimPaths /\ DOMAIN BaseName = ShimPaths
    /\ {"no shim", "truncated"} \cap ShimPaths = {}

VARIABLES
    sys,     \* what is at each path: "none", "elf" (executable) or "other"
    staged,  \* the program that each name's shim runs
    changes, \* changes to the staged shims so far; 0 as long as there are none
    made,    \* the archives, the unpacked hap and the installed runtime
    init,    \* what apk_auto_init and apk_db_open have created
    locker,  \* who holds the database lock
    cmd,     \* the commands
    cut,     \* history: paths deleted by a process killed before it removed their shim
    starts,
    mishaps

shimvars == <<sys, staged, changes, made, init, locker, cmd, cut, starts, mishaps>>

Names == {BaseName[f] : f \in ShimPaths}

NoShim    == "no shim"
Truncated == "truncated"
Nobody    == "nobody"
Gone      == -1

NoFlags == [create |-> FALSE, user |-> FALSE]
IdleCmd == [pc |-> "idle", flags |-> NoFlags, usermode |-> FALSE, dirty |-> FALSE, own |-> 0,
            done |-> {}, ops |-> 0, file |-> NoShim, r |-> 0, alone |-> TRUE]

(* A root that has never been used ...                                      *)
Fresh ==
    /\ sys = [f \in ShimPaths |-> "none"]
    /\ staged = [n \in Names |-> NoShim]
    /\ changes = 0
    /\ made = [hnp |-> Gone, dir |-> Gone, hap |-> Gone, runtime |-> 0]
    /\ init \in [uid : Uids, owner : {Nobody}, lock : {FALSE}, db : {FALSE}]

(* ... or one in which a command has installed a program.                   *)
InUse ==
    /\ \E f \in Targets :
           /\ sys = [g \in ShimPaths |-> IF g = f THEN "elf" ELSE "none"]
           /\ staged = [n \in Names |->
                           IF n = BaseName[f] THEN f ELSE NoShim]
    /\ changes = 1
    /\ made = [hnp |-> 1, dir |-> 1, hap |-> 1, runtime |-> 1]
    /\ \E uid \in Uids : init = [uid |-> uid, owner |-> uid, lock |-> TRUE, db |-> TRUE]

ShimRest ==
    /\ locker = Nobody /\ cmd = [c \in Cmds |-> IdleCmd]
    /\ cut = {} /\ starts = 0 /\ mishaps = 0

ShimInit == (Fresh \/ InUse) /\ ShimRest

Changed(c, fields) ==
    [x \in DOMAIN IdleCmd |-> IF x \in DOMAIN fields THEN fields[x] ELSE cmd[c][x]]
Set(c, fields) == cmd' = [cmd EXCEPT ![c] = Changed(c, fields)]
Goto(c, pc) == Set(c, [pc |-> pc])
At(c, pc) == cmd[c].pc = pc

Mishap(kind) == kind \in ShimFaults /\ mishaps < MaxMishaps /\ mishaps' = mishaps + 1
NoMishap == UNCHANGED mishaps

-----------------------------------------------------------------------------
(* main: the start of a command *)

(* apk_auto_init: lib/apk/db is made if it is missing, and without a lock   *)
(* file the command creates the database, in user mode unless run by root.  *)
(* --initdb and --usermode ask for the same.                                *)
AutoInit(asked) ==
    [create |-> asked.create \/ ~init.lock,
     user |-> asked.user \/ (~init.lock /\ init.uid # "root")]

StartCmd(c, asked) ==
    /\ At(c, "idle") /\ starts < MaxStarts
    /\ starts' = starts + 1
    /\ init' = [init EXCEPT !.owner = IF @ = Nobody THEN init.uid ELSE @]
    /\ Set(c, [pc |-> "prepare", flags |-> AutoInit(asked)])
    /\ UNCHANGED <<sys, staged, changes, made, locker, cut, mishaps>>

(* apk_ctx_prepare: only root creates a database that is not in user mode,  *)
(* and only others one that is.                                             *)
Refused(c) == cmd[c].flags.create /\ (cmd[c].flags.user <=> init.uid = "root")

Refuse(c) ==
    /\ At(c, "prepare") /\ Refused(c)
    /\ Set(c, [pc |-> "ended", flags |-> NoFlags, r |-> 1])
    /\ UNCHANGED <<sys, staged, changes, made, init, locker, cut, starts, mishaps>>

(* apk_db_open takes the mode of an existing database from the owner of its *)
(* directory.  Faulty: it does not look.                                    *)
UsermodeGiven(c) == cmd[c].flags.user
Usermode(c) == cmd[c].flags.user \/ (~cmd[c].flags.create /\ init.owner = "user")

(* apk_db_open: the lock, and the database, which may be missing only if it *)
(* is to be created.                                                        *)
Open(c) ==
    /\ At(c, "prepare") /\ ~Refused(c)
    /\ init' = [init EXCEPT !.lock = TRUE]
    /\ IF locker = Nobody /\ (init.db \/ cmd[c].flags.create)
       THEN locker' = c /\ Set(c, [pc |-> "running", flags |-> NoFlags, usermode |-> Usermode(c)])
       ELSE UNCHANGED locker /\ Set(c, [pc |-> "ended", flags |-> NoFlags, r |-> 1])
    /\ UNCHANGED <<sys, staged, changes, made, cut, starts, mishaps>>

-----------------------------------------------------------------------------
(* fsys_file_control: the files of packages, and their shims *)

(* APK_FS_CTRL_COMMIT renames the file into place ...                       *)
Commit(c, f, kind) ==
    /\ At(c, "running") /\ cmd[c].ops < MaxFileOps /\ f \notin cmd[c].done
    /\ sys' = [sys EXCEPT ![f] = kind]
    /\ cut' = cut \ {f}
    /\ Set(c, [pc |-> "committed", file |-> f, ops |-> cmd[c].ops + 1, done |-> cmd[c].done \cup {f}])
    /\ UNCHANGED <<staged, changes, made, init, locker, starts, mishaps>>

(* is_shim_target and is_executable_elf.                                    *)
NeedsShim(f) == f \in Targets /\ sys[f] = "elf"

(* ... and apk_shim_install writes the shim of its name, whatever the shim  *)
(* ran before.  If it cannot be written the file counts as failed.          *)
ShimInstall(c) ==
    /\ At(c, "committed")
    /\ LET f == cmd[c].file n == BaseName[f]
       IN  \/ /\ ~NeedsShim(f) /\ NoMishap
              /\ Set(c, [pc |-> "running", file |-> NoShim]) /\ UNCHANGED <<staged, changes>>
           \/ /\ NeedsShim(f) /\ NoMishap
              /\ staged' = [staged EXCEPT ![n] = f]
              /\ changes' = changes + 1
              /\ Set(c, [pc |-> "running", file |-> NoShim, dirty |-> TRUE, own |-> changes + 1])
           \/ /\ NeedsShim(f) /\ Mishap("io")
              /\ staged' = [staged EXCEPT ![n] = Truncated]
              /\ changes' = changes + 1
              /\ Set(c, [pc |-> "running", file |-> NoShim, r |-> 1])
    /\ UNCHANGED <<sys, made, init, locker, cut, starts>>

(* APK_FS_CTRL_DELETE unlinks the file.  A file that the transaction has    *)
(* installed is not deleted by it; the apk that undoes an add deletes some  *)
(* of the files the add installed.                                          *)
Delete(c, f) ==
    /\ sys[f] # "none"
    /\ \/ At(c, "running") /\ cmd[c].ops < MaxFileOps /\ f \notin cmd[c].done
       \/ At(c, "undoing") /\ f \in cmd[c].done
    /\ sys' = [sys EXCEPT ![f] = "none"]
    /\ Set(c, [pc |-> IF At(c, "running") THEN "deleted" ELSE "undone", file |-> f,
               ops |-> cmd[c].ops + 1])
    /\ UNCHANGED <<staged, changes, made, init, locker, cut, starts, mishaps>>

(* Faulty: only the shim of a program is removed, but the file has gone.    *)
ShimRemoveTested(c, n) == [staged EXCEPT ![n] = IF NeedsShim(cmd[c].file) THEN NoShim ELSE @]

(* apk_shim_remove unlinks the shim of that name, whatever it runs.         *)
Unstaged(c, n) == [staged EXCEPT ![n] = NoShim]

ShimRemove(c) ==
    /\ cmd[c].pc \in {"deleted", "undone"}
    /\ LET n == BaseName[cmd[c].file]
           gone == staged[n] # NoShim
       IN  /\ staged' = Unstaged(c, n)
           /\ changes' = IF gone THEN changes + 1 ELSE changes
           /\ Set(c, [pc |-> IF At(c, "deleted") THEN "running" ELSE "undoing", file |-> NoShim,
                      dirty |-> TRUE, own |-> IF gone THEN changes + 1 ELSE cmd[c].own])
    /\ UNCHANGED <<sys, made, init, locker, cut, starts, mishaps>>

(* The applet has written the database, unless there was nothing it could   *)
(* do, and apk_db_close gives up the lock.                                  *)
Finish(c) ==
    /\ At(c, "running")
    /\ locker' = Nobody
    /\ \E r \in {cmd[c].r, 1} :
           /\ Set(c, [pc |-> IF r = 0 THEN "closed" ELSE "ended", ops |-> 0, usermode |-> FALSE,
                      r |-> r])
           /\ init' = [init EXCEPT !.db = @ \/ r = 0 \/ cmd[c].ops > 0]
    /\ UNCHANGED <<sys, staged, changes, made, cut, starts, mishaps>>

-----------------------------------------------------------------------------
(* apk_shim_pack, after the lock is gone *)

Packing(c) == cmd[c].pc \in {"reset", "unzip", "copy", "zip", "install"}

(* Nothing has changed, or nothing has ever been staged.                    *)
NoPack(c) ==
    /\ At(c, "closed") /\ (~cmd[c].dirty \/ changes = 0)
    /\ Set(c, [pc |-> "ended", done |-> {}])
    /\ UNCHANGED <<sys, staged, changes, made, init, locker, cut, starts, mishaps>>

(* hnpcli packs what is staged.                                             *)
PackHnp(c) ==
    /\ At(c, "closed") /\ cmd[c].dirty /\ changes > 0
    /\ made' = [made EXCEPT !.hnp = changes]
    /\ LET alone == \A d \in Cmds : ~Packing(d)
       IN  cmd' = [d \in Cmds |-> IF d = c THEN Changed(c, [pc |-> "reset", alone |-> alone])
                                 ELSE Changed(d, [alone |-> cmd[d].alone /\ ~Packing(d)])]
    /\ UNCHANGED <<sys, staged, changes, init, locker, cut, starts, mishaps>>

(* One step from pc to the next that makes target.                          *)
Step(c, pc, next, target, value) ==
    /\ At(c, pc)
    /\ made' = [made EXCEPT ![target] = value]
    /\ Goto(c, next)
    /\ UNCHANGED <<sys, staged, changes, init, locker, cut, starts, mishaps>>

(* reset_dir, whose rm may fail unnoticed; unzip, which puts the runtime    *)
(* without shims there; copy_file; zip; and "horpkg install".               *)
ResetDir(c) == \E left \in {0, made.dir} \ {Gone} : Step(c, "reset", "unzip", "dir", left)
Unzip(c) == Step(c, "unzip", "copy", "dir", 0)
CopyHnp(c) == made.hnp # Gone /\ Step(c, "copy", "zip", "dir", made.hnp)
ZipHap(c) == made.dir # Gone /\ Step(c, "zip", "install", "hap", made.dir)
InstallHap(c) == made.hap # Gone /\ Step(c, "install", "ended", "runtime", made.hap)

(* What a step that fails was making is as it was or gone; what runs is     *)
(* left alone.  An add with arguments is undone, anything else just fails.  *)
Making(c) ==
    CASE cmd[c].pc = "closed" -> "hnp"
      [] cmd[c].pc \in {"reset", "unzip", "copy"} -> "dir"
      [] OTHER -> "hap"

(* Faulty: the result of a failing step is lost.                            *)
PackFailedUnnoticed(c) == [pc |-> "ended"]
PackFailed(c) == [pc |-> "failed", r |-> 1]

InputMissing(c) ==
    \/ At(c, "copy") /\ made.hnp = Gone
    \/ At(c, "zip") /\ made.dir = Gone
    \/ At(c, "install") /\ made.hap = Gone

PackFails(c) ==
    /\ Packing(c) \/ (At(c, "closed") /\ cmd[c].dirty /\ changes > 0)
    /\ \/ Mishap("io")
       \/ InputMissing(c) /\ NoMishap
    /\ \/ UNCHANGED made
       \/ ~At(c, "install") /\ made' = [made EXCEPT ![Making(c)] = Gone]
    /\ Set(c, PackFailed(c))
    /\ UNCHANGED <<sys, staged, changes, init, locker, cut, starts>>

(* main: "apk del" with the arguments of the add, which does not pack and   *)
(* which does nothing if somebody else has the lock by now.                 *)
Undo(c) ==
    /\ At(c, "failed")
    /\ \/ locker = Nobody /\ locker' = c /\ Goto(c, "undoing")
       \/ UNCHANGED locker /\ Goto(c, "ended")
    /\ UNCHANGED <<sys, staged, changes, made, init, cut, starts, mishaps>>

Undone(c) ==
    /\ At(c, "undoing")
    /\ locker' = Nobody /\ Goto(c, "ended")
    /\ UNCHANGED <<sys, staged, changes, made, init, cut, starts, mishaps>>

Exit(c) ==
    /\ cmd' = [cmd EXCEPT ![c] = IdleCmd]
    /\ locker' = IF locker = c THEN Nobody ELSE locker

Ends(c) ==
    /\ At(c, "ended") /\ Exit(c)
    /\ UNCHANGED <<sys, staged, changes, made, init, cut, starts, mishaps>>

(* The process is killed; what it was making may be left half made.         *)
Killed(c) ==
    /\ ~At(c, "idle") /\ Mishap("kill") /\ Exit(c)
    /\ cut' = IF cmd[c].pc \in {"deleted", "undone"} THEN cut \cup {cmd[c].file} ELSE cut
    /\ \/ UNCHANGED made
       \/ Packing(c) /\ ~At(c, "install") /\ made' = [made EXCEPT ![Making(c)] = Gone]
    /\ UNCHANGED <<sys, staged, changes, init, starts>>

(* Without options, or with --initdb.                                       *)
Asked == {NoFlags, [create |-> TRUE, user |-> FALSE]}

Begins(c) == (\E asked \in Asked : StartCmd(c, asked)) \/ Refuse(c) \/ Open(c)

FileOps(c) ==
    \/ \E f \in ShimPaths : Delete(c, f) \/ \E kind \in {"elf", "other"} : Commit(c, f, kind)
    \/ ShimInstall(c) \/ ShimRemove(c) \/ Finish(c)

Packs(c) ==
    \/ NoPack(c) \/ PackHnp(c) \/ ResetDir(c) \/ Unzip(c) \/ CopyHnp(c) \/ ZipHap(c) \/ InstallHap(c)
    \/ PackFails(c) \/ Undo(c) \/ Undone(c) \/ Ends(c)

ShimNext == \E c \in Cmds : Begins(c) \/ FileOps(c) \/ Packs(c) \/ Killed(c)

-----------------------------------------------------------------------------
(* Properties *)

(* A staged shim runs a file that is there, although shims are kept by name *)
(* and several files may have the same one: the shim of a name runs the     *)
(* program of that name installed last, and deleting any of them removes it *)
(* (apk_shim_install, apk_shim_remove).  The exception is a process killed  *)
(* between the two unlinks.                                                 *)
ShimTargetsExist ==
    (\A c \in Cmds : cmd[c].pc \notin {"deleted", "undone"}) =>
        \A n \in DOMAIN staged :
            staged[n] \in ShimPaths => sys[staged[n]] # "none" \/ staged[n] \in cut

(* A command that ends without an error has its own changes to the shims in *)
(* the runtime that is installed, whatever other commands did meanwhile     *)
(* under the lock it no longer holds, and whatever a failed or killed one   *)
(* left behind, as long as two of them did not pack at the same time        *)
(* (apk_shim_pack).                                                         *)
PackedIsCurrent ==
    \A c \in Cmds : At(c, "ended") /\ cmd[c].r = 0 /\ cmd[c].alone =>
        made.runtime >= cmd[c].own

(* All commands of one user work in the same mode, the one that creates the *)
(* database, the one that finds it, and the ones after a failed attempt to  *)
(* create it (apk_auto_init, apk_ctx_prepare, apk_db_open).                 *)
UsermodeStable == \A c \in Cmds : At(c, "running") => (cmd[c].usermode <=> init.uid = "user")
=============================================================================
