----------------------------- MODULE ShimProofs -----------------------------
(***************************************************************************)
(* Two facts about Shim that hold for any number of concurrent commands,   *)
(* any files and any failures: staged shims run files that are there, and  *)
(* all commands of one user work in the same mode.                         *)
(***************************************************************************)
EXTENDS Shim, TLAPS

ShimSpec == ShimInit /\ [][ShimNext]_shimvars

(* The file of c has been unlinked and its shim not yet.                    *)
Removing(c) == cmd[c].pc \in {"deleted", "undone"}

(* The shim of a name runs a file of that name, which is there, or is being *)
(* deleted, or was when a process was killed.                               *)
Runs(n) ==
    staged[n] \in ShimPaths =>
        /\ BaseName[staged[n]] = n
        /\ \/ sys[staged[n]] # "none"
           \/ staged[n] \in cut
           \/ \E c \in Cmds : Removing(c) /\ cmd[c].file = staged[n]

TargetInv ==
    /\ DOMAIN cmd = Cmds /\ DOMAIN staged = Names /\ DOMAIN sys = ShimPaths
    /\ \A c \in Cmds : cmd[c].pc \in {"committed", "deleted", "undone"} => cmd[c].file \in ShimPaths
    /\ \A n \in Names : Runs(n)

(* What Set does to the fields of a command.                                *)
LEMMA SetFields ==
    ASSUME NEW c \in Cmds, NEW fields, DOMAIN cmd = Cmds, Set(c, fields)
    PROVE  /\ DOMAIN cmd' = Cmds
           /\ \A d \in Cmds \ {c} : cmd'[d] = cmd[d]
           /\ cmd'[c].pc = IF "pc" \in DOMAIN fields THEN fields.pc ELSE cmd[c].pc
           /\ cmd'[c].file = IF "file" \in DOMAIN fields THEN fields.file ELSE cmd[c].file
           /\ cmd'[c].flags = IF "flags" \in DOMAIN fields THEN fields.flags ELSE cmd[c].flags
           /\ cmd'[c].usermode = IF "usermode" \in DOMAIN fields THEN fields.usermode
                                 ELSE cmd[c].usermode
  BY DEF Set, Changed, IdleCmd

(* Most steps leave files and shims alone and no file half deleted.         *)
Busy == {"committed", "deleted", "undone"}
Elsewhere ==
    /\ UNCHANGED <<sys, staged, cut>>
    /\ DOMAIN cmd' = Cmds
    /\ \A d \in Cmds : cmd[d].pc \in Busy \/ cmd'[d].pc \in Busy =>
           cmd'[d].pc = cmd[d].pc /\ cmd'[d].file = cmd[d].file

(* They keep what is said about the staged shims.                           *)
LEMMA ElsewhereKeepsInv ==
    ASSUME TargetInv, Elsewhere
    PROVE  TargetInv'
<1>1. \A n \in Names : Runs(n)'
  BY DEF TargetInv, Elsewhere, Runs, Removing, Busy
<1>2. QED
  BY <1>1 DEF TargetInv, Elsewhere, Busy

(* The steps that are elsewhere: starting, packing, undoing and ending.     *)
LEMMA MostStepsElsewhere ==
    ASSUME TargetInv, NEW c \in Cmds,
           Begins(c) \/ Finish(c) \/ Packs(c)
    PROVE  Elsewhere
<1> USE DEF TargetInv
<1>1. ASSUME NEW asked, StartCmd(c, asked) PROVE Elsewhere
  BY <1>1, SetFields DEF StartCmd, Elsewhere, At, Busy
<1>2. CASE Refuse(c)
  BY <1>2, SetFields DEF Refuse, Elsewhere, At, Busy
<1>3. CASE Open(c)
  BY <1>3, SetFields DEF Open, Elsewhere, At, Busy
<1>4. CASE Finish(c)
  BY <1>4, SetFields DEF Finish, Elsewhere, At, Busy
<1>5. CASE NoPack(c)
  BY <1>5, SetFields DEF NoPack, Elsewhere, At, Busy
<1>6. CASE PackHnp(c)
  BY <1>6 DEF PackHnp, Changed, IdleCmd, Elsewhere, At, Busy
<1>7. ASSUME NEW pc \in {"reset", "unzip", "copy", "zip", "install"},
             NEW next \in {"unzip", "copy", "zip", "install", "ended"},
             NEW target, NEW value, Step(c, pc, next, target, value)
      PROVE  Elsewhere
  BY <1>7, SetFields DEF Step, Goto, Elsewhere, At, Busy
<1>8. CASE PackFails(c)
  BY <1>8, SetFields DEF PackFails, PackFailed, Packing, Elsewhere, At, Busy
<1>9. CASE Undo(c) \/ Undone(c)
  BY <1>9, SetFields DEF Undo, Undone, Goto, Elsewhere, At, Busy
<1>10. CASE Ends(c)
  BY <1>10 DEF Ends, Exit, IdleCmd, Elsewhere, At, Busy
<1>11. QED
  BY <1>1, <1>2, <1>3, <1>4, <1>5, <1>6, <1>7, <1>8, <1>9, <1>10
     DEF Begins, Packs, ResetDir, Unzip, CopyHnp, ZipHap, InstallHap

(* fsys_file_control: installing a file, then its shim.                     *)
LEMMA InstallKeepsInv ==
    ASSUME TargetInv, NEW c \in Cmds, NEW f \in ShimPaths, NEW kind \in {"elf", "other"},
           Commit(c, f, kind) \/ ShimInstall(c)
    PROVE  TargetInv'
<1>1. CASE Commit(c, f, kind)
  <2>1. /\ DOMAIN cmd' = Cmds
        /\ \A d \in Cmds \ {c} : cmd'[d] = cmd[d]
        /\ cmd[c].pc = "running" /\ cmd'[c].pc = "committed" /\ cmd'[c].file = f
    BY <1>1, SetFields DEF Commit, At, TargetInv
  <2>2. /\ sys' = [sys EXCEPT ![f] = kind] /\ cut' = cut \ {f} /\ staged' = staged
    BY <1>1 DEF Commit
  <2>3. \A n \in Names : Runs(n)'
    BY <2>1, <2>2 DEF TargetInv, Runs, Removing
  <2>4. QED
    BY <2>1, <2>2, <2>3 DEF TargetInv
<1>2. CASE ShimInstall(c)
  <2>1. /\ DOMAIN cmd' = Cmds
        /\ \A d \in Cmds \ {c} : cmd'[d] = cmd[d]
        /\ cmd[c].pc = "committed" /\ cmd'[c].pc = "running"
    BY <1>2, SetFields DEF ShimInstall, At, TargetInv
  <2>2. UNCHANGED <<sys, cut>>
    BY <1>2 DEF ShimInstall
  <2>3. \/ UNCHANGED staged
        \/ \E g \in ShimPaths : sys[g] = "elf" /\ staged' = [staged EXCEPT ![BaseName[g]] = g]
        \/ \E n \in Names : staged' = [staged EXCEPT ![n] = Truncated]
    BY <1>2, Zenon DEF ShimInstall, At, NeedsShim, TargetInv, Names
  <2>4. \A n \in Names : Runs(n)'
    <3>1. CASE UNCHANGED staged
      BY <2>1, <2>2, <3>1 DEF TargetInv, Runs, Removing
    <3>2. ASSUME NEW g \in ShimPaths, sys[g] = "elf", staged' = [staged EXCEPT ![BaseName[g]] = g]
          PROVE  \A n \in Names : Runs(n)'
      BY <2>1, <2>2, <3>2 DEF TargetInv, Runs, Removing
    <3>3. ASSUME NEW m \in Names, staged' = [staged EXCEPT ![m] = Truncated]
          PROVE  \A n \in Names : Runs(n)'
      <4>1. Truncated \notin ShimPaths
        BY ShimAssumption, Zenon DEF Truncated
      <4>2. QED
        BY <2>1, <2>2, <3>3, <4>1 DEF TargetInv, Runs, Removing
    <3>4. QED
      BY <2>3, <3>1, <3>2, <3>3
  <2>5. QED
    BY <2>1, <2>2, <2>3, <2>4 DEF TargetInv
<1>3. QED
  BY <1>1, <1>2

(* fsys_file_control: deleting a file, then the shim of its name.           *)
LEMMA DeleteKeepsInv ==
    ASSUME TargetInv, NEW c \in Cmds, NEW f \in ShimPaths, Delete(c, f) \/ ShimRemove(c)
    PROVE  TargetInv'
<1>1. CASE Delete(c, f)
  <2>1. /\ DOMAIN cmd' = Cmds
        /\ \A d \in Cmds \ {c} : cmd'[d] = cmd[d]
        /\ cmd[c].pc \in {"running", "undoing"}
        /\ cmd'[c].pc \in {"deleted", "undone"} /\ cmd'[c].file = f
    BY <1>1, SetFields DEF Delete, At, TargetInv
  <2>2. sys' = [sys EXCEPT ![f] = "none"] /\ UNCHANGED <<staged, cut>>
    BY <1>1 DEF Delete
  <2>3. \A n \in Names : Runs(n)'
    BY <2>1, <2>2 DEF TargetInv, Runs, Removing
  <2>4. QED
    BY <2>1, <2>2, <2>3 DEF TargetInv
<1>2. CASE ShimRemove(c)
  <2>1. /\ DOMAIN cmd' = Cmds
        /\ \A d \in Cmds \ {c} : cmd'[d] = cmd[d]
        /\ cmd[c].pc \in {"deleted", "undone"} /\ cmd'[c].pc \in {"running", "undoing"}
    BY <1>2, SetFields DEF ShimRemove, At, TargetInv
  <2>2. /\ staged' = [staged EXCEPT ![BaseName[cmd[c].file]] = NoShim] /\ UNCHANGED <<sys, cut>>
        /\ BaseName[cmd[c].file] \in Names
    BY <1>2 DEF ShimRemove, Unstaged, TargetInv, Names
  <2>3. \A n \in Names : Runs(n)'
    <3> SUFFICES ASSUME NEW n \in Names, staged'[n] \in ShimPaths
                 PROVE  Runs(n)'
      BY DEF Runs
    <3>1. n # BaseName[cmd[c].file] /\ staged'[n] = staged[n]
      BY <2>2, ShimAssumption, Zenon DEF TargetInv, NoShim
    <3>2. Runs(n)
      BY DEF TargetInv
    <3>3. QED
      BY <2>1, <2>2, <3>1, <3>2 DEF Runs, Removing
  <2>4. QED
    BY <2>1, <2>2, <2>3 DEF TargetInv
<1>3. QED
  BY <1>1, <1>2

(* A killed process leaves its last file among the cut ones.                *)
LEMMA KillKeepsInv ==
    ASSUME TargetInv, NEW c \in Cmds, Killed(c)
    PROVE  TargetInv'
<1>1. /\ DOMAIN cmd' = Cmds
      /\ \A d \in Cmds \ {c} : cmd'[d] = cmd[d]
      /\ cmd'[c].pc = "idle"
  BY DEF Killed, Exit, IdleCmd, TargetInv
<1>2. /\ UNCHANGED <<sys, staged>>
      /\ cut \subseteq cut' /\ (Removing(c) => cmd[c].file \in cut')
  BY DEF Killed, Removing
<1>3. \A n \in Names : Runs(n)'
  BY <1>1, <1>2 DEF TargetInv, Runs, Removing
<1>4. QED
  BY <1>1, <1>2, <1>3 DEF TargetInv

(* Every staged shim runs a file that is there, for any commands, files and *)
(* names: the shim of a name is removed with whichever file of that name is *)
(* deleted (apk_shim_install, apk_shim_remove).                             *)
THEOREM ShimsRunInstalledFiles == ShimSpec => []ShimTargetsExist
<1>1. ShimInit => TargetInv
  <2>1. CASE Fresh /\ ShimRest
    BY <2>1, ShimAssumption, Zenon DEF Fresh, ShimRest, IdleCmd, TargetInv, Runs, NoShim
  <2>2. CASE InUse /\ ShimRest
    BY <2>2, ShimAssumption, Zenon DEF InUse, ShimRest, IdleCmd, TargetInv, Runs, NoShim
  <2>3. QED
    BY <2>1, <2>2 DEF ShimInit
<1>2. TargetInv /\ [ShimNext]_shimvars => TargetInv'
  <2> SUFFICES ASSUME TargetInv, [ShimNext]_shimvars PROVE TargetInv'
    OBVIOUS
  <2>1. ASSUME NEW c \in Cmds, Begins(c) \/ Finish(c) \/ Packs(c) PROVE TargetInv'
    BY <2>1, MostStepsElsewhere, ElsewhereKeepsInv
  <2>2. ASSUME NEW c \in Cmds, FileOps(c), ~Finish(c) PROVE TargetInv'
    <3>1. ShimPaths = {} => ~(ShimInstall(c) \/ ShimRemove(c))
      BY DEF ShimInstall, ShimRemove, At, TargetInv
    <3>2. QED
      BY <2>2, <3>1, InstallKeepsInv, DeleteKeepsInv DEF FileOps
  <2>3. ASSUME NEW c \in Cmds, Killed(c) PROVE TargetInv'
    BY <2>3, KillKeepsInv
  <2>4. CASE UNCHANGED shimvars
    BY <2>4 DEF shimvars, TargetInv, Runs, Removing
  <2>5. QED
    BY <2>1, <2>2, <2>3, <2>4 DEF ShimNext, FileOps
<1>3. TargetInv => ShimTargetsExist
  BY DEF TargetInv, Runs, Removing, ShimTargetsExist
<1>4. QED
  BY <1>1, <1>2, <1>3, PTL DEF ShimSpec

(* The directory of the database belongs to the user, and a command that is *)
(* about to open the database either creates it in the user's mode, is      *)
(* refused, or finds the mode from the owner.                               *)
ModeInv ==
    /\ DOMAIN cmd = Cmds
    /\ init.uid \in Uids /\ init.owner \in {Nobody, init.uid}
    /\ \A c \in Cmds :
          /\ cmd[c].pc = "prepare" =>
                /\ init.owner = init.uid
                /\ cmd[c].flags.user => cmd[c].flags.create
          /\ cmd[c].pc \in {"running", "committed", "deleted"} =>
                (cmd[c].usermode <=> init.uid = "user")

(* Steps that open nothing keep the owner and the mode of the others.       *)
InMode == {"running", "committed", "deleted"}
KeepsMode ==
    /\ init'.uid = init.uid /\ init'.owner = init.owner
    /\ DOMAIN cmd' = Cmds
    /\ \A d \in Cmds :
          /\ cmd'[d].pc = "prepare" => cmd[d].pc = "prepare" /\ cmd'[d].flags = cmd[d].flags
          /\ cmd'[d].pc \in InMode => cmd[d].pc \in InMode /\ cmd'[d].usermode = cmd[d].usermode

(* They keep what is said about the mode.                                   *)
LEMMA KeepsModeInv ==
    ASSUME ModeInv, KeepsMode
    PROVE  ModeInv'
  BY DEF ModeInv, KeepsMode, InMode

(* Starting a command, and opening the database.                            *)
LEMMA BeginKeepsMode ==
    ASSUME ModeInv, NEW c \in Cmds, Begins(c)
    PROVE  ModeInv'
<1>1. CASE \E asked \in Asked : StartCmd(c, asked)
  <2>1. PICK asked \in Asked : StartCmd(c, asked)
    BY <1>1
  <2>2. /\ DOMAIN cmd' = Cmds
        /\ \A d \in Cmds \ {c} : cmd'[d] = cmd[d]
        /\ cmd'[c].pc = "prepare" /\ cmd'[c].flags = AutoInit(asked)
    BY <2>1, SetFields DEF StartCmd, ModeInv
  <2>3. init'.uid = init.uid /\ init'.owner = init.uid
    BY <2>1 DEF StartCmd, ModeInv
  <2>4. cmd'[c].flags.user => cmd'[c].flags.create
    <3>1. ~asked.user
      BY DEF Asked, NoFlags
    <3>2. AutoInit(asked).user => AutoInit(asked).create
      BY <3>1, Zenon DEF AutoInit
    <3>3. QED
      BY <2>2, <3>2
  <2>5. QED
    BY <2>2, <2>3, <2>4 DEF ModeInv
<1>2. CASE Refuse(c)
  <2>1. KeepsMode
    BY <1>2, SetFields DEF Refuse, KeepsMode, InMode, ModeInv
  <2>2. QED
    BY <2>1, KeepsModeInv
<1>3. CASE Open(c)
  <2>1. /\ DOMAIN cmd' = Cmds
        /\ \A d \in Cmds \ {c} : cmd'[d] = cmd[d]
        /\ cmd'[c].pc \in {"running", "ended"}
        /\ cmd'[c].pc = "running" => cmd'[c].usermode = Usermode(c)
    BY <1>3, SetFields DEF Open, ModeInv
  <2>2. cmd[c].pc = "prepare" /\ ~Refused(c)
    BY <1>3 DEF Open, At
  <2>3. init'.uid = init.uid /\ init'.owner = init.owner
    BY <1>3 DEF Open, ModeInv
  <2>4. Usermode(c) <=> init.uid = "user"
    BY <2>2, ShimAssumption, Zenon DEF ModeInv, Usermode, Refused
  <2>5. QED
    BY <2>1, <2>3, <2>4 DEF ModeInv
<1>4. QED
  BY <1>1, <1>2, <1>3 DEF Begins

(* All other steps.                                                         *)
LEMMA OthersKeepMode ==
    ASSUME ModeInv, NEW c \in Cmds, FileOps(c) \/ Packs(c) \/ Killed(c)
    PROVE  KeepsMode
<1> USE DEF ModeInv
<1>1. ASSUME NEW f, NEW kind, Commit(c, f, kind) PROVE KeepsMode
  BY <1>1, SetFields DEF Commit, At, KeepsMode, InMode
<1>2. ASSUME NEW f, Delete(c, f) PROVE KeepsMode
  BY <1>2, SetFields DEF Delete, At, KeepsMode, InMode
<1>3. CASE ShimInstall(c)
  BY <1>3, SetFields DEF ShimInstall, At, KeepsMode, InMode
<1>4. CASE ShimRemove(c)
  BY <1>4, SetFields DEF ShimRemove, At, KeepsMode, InMode
<1>5. CASE Finish(c)
  BY <1>5, SetFields DEF Finish, At, KeepsMode, InMode
<1>6. CASE NoPack(c)
  BY <1>6, SetFields DEF NoPack, KeepsMode, InMode
<1>7. CASE PackHnp(c)
  BY <1>7 DEF PackHnp, Changed, IdleCmd, KeepsMode, InMode
<1>8. ASSUME NEW pc, NEW next \in {"unzip", "copy", "zip", "install", "ended"},
             NEW target, NEW value, Step(c, pc, next, target, value)
      PROVE  KeepsMode
  BY <1>8, SetFields DEF Step, Goto, KeepsMode, InMode
<1>9. CASE PackFails(c)
  BY <1>9, SetFields DEF PackFails, PackFailed, KeepsMode, InMode
<1>10. CASE Undo(c) \/ Undone(c)
  BY <1>10, SetFields DEF Undo, Undone, Goto, KeepsMode, InMode
<1>11. CASE Ends(c) \/ Killed(c)
  BY <1>11 DEF Ends, Killed, Exit, IdleCmd, KeepsMode, InMode
<1>12. QED
  BY <1>1, <1>2, <1>3, <1>4, <1>5, <1>6, <1>7, <1>8, <1>9, <1>10, <1>11
     DEF FileOps, Packs, ResetDir, Unzip, CopyHnp, ZipHap, InstallHap

(* All commands of one user work in one mode, whatever failed or was killed *)
(* between creating the directory, the lock and the database                *)
(* (apk_auto_init, apk_ctx_prepare, apk_db_open).                           *)
THEOREM OneMode == ShimSpec => []UsermodeStable
<1>1. ShimInit => ModeInv
  <2>1. CASE Fresh /\ ShimRest
    BY <2>1 DEF Fresh, ShimRest, IdleCmd, ModeInv
  <2>2. CASE InUse /\ ShimRest
    BY <2>2 DEF InUse, ShimRest, IdleCmd, ModeInv
  <2>3. QED
    BY <2>1, <2>2 DEF ShimInit
<1>2. ModeInv /\ [ShimNext]_shimvars => ModeInv'
  <2> SUFFICES ASSUME ModeInv, [ShimNext]_shimvars PROVE ModeInv'
    OBVIOUS
  <2>1. ASSUME NEW c \in Cmds, Begins(c) PROVE ModeInv'
    BY <2>1, BeginKeepsMode
  <2>2. ASSUME NEW c \in Cmds, FileOps(c) \/ Packs(c) \/ Killed(c) PROVE ModeInv'
    BY <2>2, OthersKeepMode, KeepsModeInv
  <2>3. CASE UNCHANGED shimvars
    BY <2>3 DEF shimvars, ModeInv
  <2>4. QED
    BY <2>1, <2>2, <2>3 DEF ShimNext
<1>3. ModeInv => UsermodeStable
  BY DEF ModeInv, UsermodeStable, At
<1>4. QED
  BY <1>1, <1>2, <1>3, PTL DEF ShimSpec
=============================================================================
