--------------------------- MODULE InstalledFiles ---------------------------
(***************************************************************************)
(* File ownership in the installed database: what apk_db_install_pkg does  *)
(* to the file system, to the hash of installed files and to the lists of  *)
(* files kept per package, for a whole transaction (one run of             *)
(* apk_solver_commit_changeset), and what the next process reads back.     *)
(*                                                                         *)
(* One process at a time runs a transaction (the lock is the subject of    *)
(* module DbPersist).  The administrator may edit files at any moment, and *)
(* the process may be killed between any two steps.                        *)
(***************************************************************************)
EXTENDS Integers, FiniteSets

CONSTANTS
    Pkg,          \* packages: a name together with a version
    NameOf,       \* NameOf[p]: the name of p
    Path,         \* paths of non-directories, as packages spell them
    Location,     \* files on disk; several paths may resolve to one location
    Loc,          \* Loc[f]: where f resolves to, symlinked directories included
    Protected,    \* paths whose directory has a protect mode other than none
    Digest,       \* digests of the contents that packages ship
    UserContent,  \* contents that no package ships
    Ships,        \* Ships[p][f]: digest of f in the archive of p, or Absent
    Order,        \* position of p in apk_db_sorted_installed_packages
    Replaces,     \* <<p, q>>: a "replaces" of p is materialised by q
    Priority,     \* replaces_priority of p
    Origin,       \* origin of p, or None
    OverlayFiles, \* files listed by an overlay (the package without a name)
    FlagSets,     \* the option combinations the command line may give
    UserWrites,   \* what the administrator may put at a location
    Faults,       \* the kinds of failure that may happen
    None, NoEntry, OverlayEntry, Absent, NoDigest

(* A file entry (struct apk_db_file) of p for f.  A reinstallation may give *)
(* p a second entry for f while a disowned first one is still on its list.  *)
Entry == Pkg \X Path \X {1, 2}

Shipped(p) == {f \in Path : Ships[p][f] # Absent}

Option == {"purge", "clean_protected", "force_overwrite"}

FaultKind == {"extract", "refuse", "unpack", "control", "script", "unlink", "write", "crash"}

ASSUME ConstantsAssumption ==
    /\ NameOf \in [Pkg -> {NameOf[p] : p \in Pkg}]
    /\ Loc \in [Path -> Location]
    /\ Protected \subseteq Path
    /\ OverlayFiles \subseteq Path
    /\ Ships \in [Pkg -> [Path -> Digest \cup {Absent}]]
    /\ Order \in [Pkg -> 1..Cardinality(Pkg)]
    /\ \A p, q \in Pkg : Order[p] = Order[q] => p = q
    /\ Replaces \subseteq Pkg \X Pkg
    /\ Priority \in [Pkg -> Nat]
    /\ FlagSets \subseteq SUBSET Option
    /\ Faults \subseteq FaultKind
    /\ UserWrites \subseteq UserContent \cup {Absent}

ASSUME DistinctAssumption ==
    /\ None \notin Pkg
    /\ NoEntry \notin Entry /\ OverlayEntry \notin Entry /\ NoEntry # OverlayEntry
    /\ Absent \notin Digest \cup UserContent
    /\ NoDigest \notin Digest \cup UserContent \cup {Absent}
    /\ Digest \cap UserContent = {}

ASSUME FiniteAssumption == IsFiniteSet(Pkg) /\ IsFiniteSet(Path)

(* Paths that share a location (a merged /usr) have the same protection,    *)
(* and only different versions of one package ship more than one of them.   *)
ASSUME AliasAssumption ==
    \A f, g \in Path : f # g /\ Loc[f] = Loc[g] =>
        /\ f \in Protected <=> g \in Protected
        /\ \A p, q \in Pkg : f \in Shipped(p) /\ g \in Shipped(q) => p # q /\ NameOf[p] = NameOf[q]

VARIABLES
    ipkg,      \* packages with an apk_installed_package
    ents,      \* the entries on the diris of the packages in ipkg
    audited,   \* entries with file->audited set: another entry took the path over
    brokenEnt, \* entries with file->broken set: nothing was extracted
    digest,    \* file->digest of every entry
    hash,      \* db->installed.files
    nfiles,    \* db->installed.stats.files
    broken,    \* packages with broken_files or broken_script set
    disk,      \* content of every location
    apknew,    \* content of the .apk-new file beside every location
    tmp,       \* the .apk.<digest> files of every package, by path
    saved,     \* lib/apk/db/installed
    pc,        \* what the process is doing; "closed": there is none
    cur,       \* the change being made: apk_db_install_pkg(old, new)
    changes,   \* the changes of the changeset still to be made
    removing,  \* packages with to_be_removed set
    done,      \* packages this transaction has installed
    archive,   \* paths of the archive of cur.new not yet read
    todo,      \* entries the current loop has still to visit
    fileids,   \* locations migrated for paths that nobody owned before
    failed,    \* errors > 0 in apk_solver_commit_changeset
    flags      \* options of this run

memory  == <<ipkg, ents, audited, brokenEnt, digest, hash, nfiles, broken>>
storage == <<disk, apknew, tmp>>
control == <<pc, cur, changes, removing, done, archive, todo, fileids, failed, flags>>
vars    == <<memory, storage, saved, control>>

Change == [old : Pkg \cup {None}, new : Pkg \cup {None}]
Idle   == [old |-> None, new |-> None]
Steps  == {"closed", "ready", "unpack", "migrate", "purge", "finish", "write", "done"}

SavedDb == [pkgs : SUBSET Pkg, files : [Pkg -> SUBSET Path],
            digest : [Pkg -> [Path -> Digest \cup {NoDigest}]], broken : SUBSET Pkg]

EmptyDb == [pkgs |-> {}, files |-> [p \in Pkg |-> {}],
            digest |-> [p \in Pkg |-> [f \in Path |-> NoDigest]], broken |-> {}]

MemoryTypeOK ==
    /\ ipkg \subseteq Pkg /\ broken \subseteq Pkg
    /\ ents \subseteq Entry /\ audited \subseteq Entry /\ brokenEnt \subseteq Entry
    /\ digest \in [Entry -> Digest \cup {NoDigest}]
    /\ hash \in [Path -> Entry \cup {NoEntry, OverlayEntry}]
    /\ nfiles \in Int

StorageTypeOK ==
    /\ disk \in [Location -> Digest \cup UserContent \cup {Absent}]
    /\ apknew \in [Location -> Digest \cup {Absent}]
    /\ tmp \in [Pkg -> SUBSET Path]

ControlTypeOK ==
    /\ pc \in Steps /\ cur \in Change /\ changes \subseteq Change
    /\ removing \subseteq Pkg /\ done \subseteq Pkg
    /\ archive \subseteq Path /\ todo \subseteq Entry /\ fileids \subseteq Location
    /\ failed \in BOOLEAN /\ flags \subseteq Option

(* Every variable has its type; in particular a .apk-new file only ever     *)
(* holds what a package ships.                                              *)
TypeOK == MemoryTypeOK /\ StorageTypeOK /\ saved \in SavedDb /\ ControlTypeOK

EntsOf(p) == {e \in ents : e[1] = p}

(* The entries S go with the list that held them; one that the hash still   *)
(* refers to keeps its contents.                                            *)
Forget(S) ==
    /\ ents' = ents \ S
    /\ audited' = audited \ S
    /\ brokenEnt' = brokenEnt \ S
    /\ digest' = [e \in Entry |-> IF e \in S /\ hash'[e[2]] # e THEN NoDigest ELSE digest[e]]

(* The package is flagged broken_files or broken_script if the fault k hits.*)
MayBreak(p, k) == broken' \in {broken} \cup (IF k \in Faults THEN {broken \cup {p}} ELSE {})
Breaks(p, k) == k \in Faults /\ broken' = broken \cup {p}

NoMemory ==
    /\ ipkg' = {} /\ ents' = {} /\ audited' = {} /\ brokenEnt' = {} /\ broken' = {}
    /\ digest' = [e \in Entry |-> NoDigest]
    /\ hash' = [f \in Path |-> NoEntry]
    /\ nfiles' = 0

Init ==
    /\ ipkg = {} /\ ents = {} /\ audited = {} /\ brokenEnt = {} /\ broken = {}
    /\ digest = [e \in Entry |-> NoDigest]
    /\ hash = [f \in Path |-> NoEntry]
    /\ nfiles = 0
    /\ disk = [l \in Location |-> Absent]
    /\ apknew = [l \in Location |-> Absent]
    /\ tmp = [p \in Pkg |-> {}]
    /\ saved = EmptyDb
    /\ pc = "closed" /\ cur = Idle /\ changes = {} /\ removing = {} /\ done = {}
    /\ archive = {} /\ todo = {} /\ fileids = {} /\ failed = FALSE /\ flags = {}

-----------------------------------------------------------------------------
(* Reading the installed database.  apk_db_file_get gives a path to the     *)
(* first package that lists it; a later package's R: line finds that entry, *)
(* and its Z: line overwrites the digest.                                   *)

Listing(f) == {p \in saved.pkgs : f \in saved.files[p]}

Least(S) == CHOOSE p \in S : \A q \in S : Order[p] <= Order[q]
Greatest(S) == CHOOSE p \in S : \A q \in S : Order[q] <= Order[p]

LoadedEntry(f) ==
    IF f \in OverlayFiles THEN OverlayEntry
    ELSE IF Listing(f) = {} THEN NoEntry
    ELSE <<Least(Listing(f)), f, 1>>

LoadedDigest(f) ==
    LET withDigest == {p \in Listing(f) : saved.digest[p][f] # NoDigest}
    IN  IF withDigest = {} THEN NoDigest ELSE saved.digest[Greatest(withDigest)][f]

(* A changeset has at most one change per name: target[n] is the package    *)
(* wanted for the name n, and the names in redo are reinstalled.            *)
PkgName == {NameOf[p] : p \in Pkg}

InstalledAs(n) ==
    IF \E p \in saved.pkgs : NameOf[p] = n
    THEN CHOOSE p \in saved.pkgs : NameOf[p] = n ELSE None

ChangesFor(target, redo) ==
    {c \in {[old |-> InstalledAs(n), new |-> target[n]] : n \in PkgName} :
        c.old # c.new \/ (c.new # None /\ NameOf[c.new] \in redo)}

Open ==
    /\ pc = "closed"
    /\ ipkg' = saved.pkgs
    /\ broken' = saved.broken
    /\ hash' = [f \in Path |-> LoadedEntry(f)]
    /\ ents' = {e \in Entry : e = LoadedEntry(e[2])}
    /\ digest' = [e \in Entry |-> IF e = LoadedEntry(e[2]) THEN LoadedDigest(e[2]) ELSE NoDigest]
    /\ nfiles' = Cardinality({f \in Path : LoadedEntry(f) # NoEntry})
    /\ audited' = {} /\ brokenEnt' = {}
    /\ \E target \in [PkgName -> Pkg \cup {None}], redo \in SUBSET PkgName :
        /\ \A n \in PkgName : target[n] # None => NameOf[target[n]] = n
        /\ changes' = ChangesFor(target, redo)
    /\ removing' = {c.old : c \in {d \in changes' : d.old # d.new}} \ {None}
    /\ flags' \in FlagSets
    /\ pc' = "ready" /\ failed' = FALSE /\ done' = {}
    /\ UNCHANGED <<storage, saved, cur, archive, todo, fileids>>

-----------------------------------------------------------------------------
(* apk_db_install_pkg *)

(* Faulty: only disowned entries are purged.                                *)
UnauditedInverted(p) == EntsOf(p) \cap audited

Unaudited(p) == EntsOf(p) \ audited

StartRemove(c) ==
    /\ pc = "ready" /\ c \in changes /\ c.new = None
    /\ changes' = changes \ {c} /\ cur' = c
    /\ pc' = "purge" /\ todo' = Unaudited(c.old)
    /\ UNCHANGED <<memory, storage, saved, removing, done, archive, fileids, failed, flags>>

(* The old package is purged once the new one is in place.                  *)
ThenPurgeOld(c, entsOfOld) ==
    IF c.old \in ipkg \ {c.new}
    THEN pc' = "purge" /\ todo' = entsOfOld
    ELSE pc' = "finish" /\ todo' = {}

StartInstall(c) ==
    /\ pc = "ready" /\ c \in changes /\ c.new # None
    /\ changes' = changes \ {c} /\ cur' = c
    /\ ipkg' = ipkg \cup {c.new}
    /\ broken' = broken \ {c.new}
    /\ archive' = Shipped(c.new)
    /\ IF Shipped(c.new) # {}
       THEN pc' = "unpack" /\ UNCHANGED todo
       ELSE ThenPurgeOld(c, Unaudited(c.old))
    /\ UNCHANGED <<ents, audited, brokenEnt, digest, hash, nfiles, storage, saved,
                   removing, done, fileids, failed, flags>>

(* A change that only moves a repository tag, or a reinstallation that no   *)
(* repository can serve: the error of an earlier transaction is repeated,   *)
(* and the package's trigger may run.                                       *)
KeepPackage(c) ==
    /\ pc = "ready" /\ c \in changes /\ c.old = c.new
    /\ changes' = changes \ {c}
    /\ MayBreak(c.new, "script")
    /\ failed' = (failed \/ c.new \in broken')
    /\ UNCHANGED <<ipkg, ents, audited, brokenEnt, digest, hash, nfiles, storage, saved, pc,
                   cur, removing, done, archive, todo, fileids, flags>>

(* apk_pkg_replaces_file(o, n): may n take a file over from o?              *)
ReplacesFile(o, n) ==
    LET oPrio == IF <<o, n>> \in Replaces THEN Priority[o] ELSE -1
        nPrio == IF <<n, o>> \in Replaces THEN Priority[n] ELSE -1
    IN  CASE NameOf[o] = NameOf[n]                   -> "yes"
          [] NameOf[o] # NameOf[n] /\ o \in removing -> "yes"
          [] OTHER ->
             IF n \in removing THEN "no"
             ELSE IF oPrio > nPrio THEN "no"
             ELSE IF nPrio >= 0 THEN "yes"
             ELSE IF Origin[o] # None /\ Origin[o] = Origin[n] THEN "yes"
             ELSE "conflict"

Verdict(f) ==
    IF hash[f] \in {NoEntry, OverlayEntry} THEN "yes"
    ELSE LET v == ReplacesFile(hash[f][1], cur.new)
         IN  IF v = "conflict" /\ "force_overwrite" \in flags THEN "yes" ELSE v

(* The entry apk_db_install_file fills in: the one in the hash if cur.new   *)
(* owns the path, otherwise a fresh one that is not put in the hash.        *)
OwnsPath(f) == hash[f] \in Entry /\ hash[f][1] = cur.new

EntryFor(f) ==
    IF OwnsPath(f) THEN hash[f]
    ELSE <<cur.new, f, IF <<cur.new, f, 1>> \in ents THEN 2 ELSE 1>>

(* The owner lost its apk_installed_package to a failed reinstallation:     *)
(* apk_pkg_replaces_file reads it through a null pointer.                   *)
OwnerGone(f) ==
    /\ hash[f] \in Entry
    /\ hash[f][1] \notin ipkg
    /\ NameOf[hash[f][1]] # NameOf[cur.new]

Kill ==
    /\ NoMemory
    /\ pc' = "closed" /\ cur' = Idle /\ changes' = {} /\ removing' = {} /\ done' = {}
    /\ archive' = {} /\ todo' = {} /\ fileids' = {} /\ failed' = FALSE /\ flags' = {}
    /\ UNCHANGED <<storage, saved>>

InstallFile(f) ==
    /\ pc = "unpack" /\ f \in archive
    /\ ~OwnerGone(f) /\ Verdict(f) = "yes"
    /\ archive' = archive \ {f}
    /\ LET e     == EntryFor(f)
           fresh == ~OwnsPath(f)
           blank == IF fresh THEN NoDigest ELSE digest[e]
       IN  /\ ents' = ents \cup {e}
           /\ audited' = IF fresh THEN audited \ {e} ELSE audited
           /\ \/ \* extracted to its temporary name, perhaps with a warning
                 /\ digest' = [digest EXCEPT ![e] = Ships[cur.new][f]]
                 /\ brokenEnt' = IF fresh THEN brokenEnt \ {e} ELSE brokenEnt
                 /\ tmp' = [tmp EXCEPT ![cur.new] = @ \cup {f}]
                 /\ MayBreak(cur.new, "extract")
              \/ \* a device in user mode (no error), or extraction failed
                 /\ "extract" \in Faults
                 /\ digest' = [digest EXCEPT ![e] = blank]
                 /\ brokenEnt' = brokenEnt \cup {e}
                 /\ tmp' = [tmp EXCEPT ![cur.new] = @ \ {f}]
                 /\ MayBreak(cur.new, "extract")
    /\ UNCHANGED <<ipkg, hash, nfiles, disk, apknew, saved, pc, cur, changes, removing,
                   done, todo, fileids, failed, flags>>

(* The file is left out: another package keeps it, it conflicts, or the     *)
(* archive entry is refused (bad name, no directory entry, no link target). *)
SkipFile(f) ==
    /\ pc = "unpack" /\ f \in archive
    /\ archive' = archive \ {f}
    /\ \/ Breaks(cur.new, "refuse")
       \/ ~OwnerGone(f) /\ Verdict(f) = "conflict" /\ broken' = broken \cup {cur.new}
       \/ ~OwnerGone(f) /\ Verdict(f) = "no" /\ UNCHANGED broken
    /\ UNCHANGED <<ipkg, ents, audited, brokenEnt, digest, hash, nfiles, storage, saved,
                   pc, cur, changes, removing, done, todo, fileids, failed, flags>>

NullOwner(f) ==
    /\ pc = "unpack" /\ f \in archive /\ OwnerGone(f)
    /\ Kill

(* No repository, no download, a corrupt archive or a full disk.  What was  *)
(* extracted is cancelled, but not for a reinstallation.                    *)
UnpackFail ==
    /\ pc = "unpack" /\ "unpack" \in Faults
    /\ tmp' = IF cur.old = cur.new THEN tmp
              ELSE [tmp EXCEPT ![cur.new] = @ \ {e[2] : e \in Unaudited(cur.new)}]
    /\ ipkg' = ipkg \ {cur.new}
    /\ broken' = broken \ {cur.new}
    /\ UNCHANGED hash /\ Forget(EntsOf(cur.new))
    /\ failed' = TRUE
    /\ pc' = "ready" /\ cur' = Idle /\ archive' = {}
    /\ UNCHANGED <<nfiles, disk, apknew, saved, changes,
                   removing, done, todo, fileids, flags>>

(* The pre-install or pre-upgrade script has run by now and may have failed.*)
UnpackDone ==
    /\ pc = "unpack" /\ archive = {}
    /\ MayBreak(cur.new, "script")
    /\ pc' = "migrate" /\ todo' = EntsOf(cur.new)
    /\ UNCHANGED <<ipkg, ents, audited, brokenEnt, digest, hash, nfiles, storage, saved,
                   cur, changes, removing, done, archive, fileids, failed, flags>>

(* apk_db_audit_file(f, dbf) # 0: there is a file, and it is not dbf's.     *)
Modified(f, d) == disk[Loc[f]] # Absent /\ (d = NoDigest \/ disk[Loc[f]] # d)

DigestInHash(f) == IF hash[f] \in Entry THEN digest[hash[f]] ELSE NoDigest

(* Faulty: protected directories are treated like all others.               *)
CtrlUnprotected(e) == IF hash[e[2]] = OverlayEntry THEN "cancel" ELSE "commit"

Ctrl(e) ==
    LET f == e[2]
    IN  IF hash[f] = OverlayEntry THEN "cancel"
        ELSE IF f \in Protected /\ Modified(f, DigestInHash(f))
             THEN IF "clean_protected" \in flags \/ ~Modified(f, digest[e])
                  THEN "cancel" ELSE "apknew"
        ELSE "commit"

(* Faulty: the error of apk_fsdir_file_control is ignored.                  *)
ControlFailsSilently(f) ==
    ("control" \in Faults \/ f \notin tmp[cur.new]) /\ UNCHANGED broken

(* apk_fsdir_file_control: a rename or an unlink of the temporary file.     *)
ControlFails(f) ==
    /\ "control" \in Faults \/ f \notin tmp[cur.new]
    /\ broken' = broken \cup {cur.new}

Commit(e) ==
    LET f == e[2]
    IN  /\ tmp' = [tmp EXCEPT ![cur.new] = @ \ {f}]
        /\ \/ \* renamed; the runtime shim may fail to be written
              /\ f \in tmp[cur.new]
              /\ disk' = [disk EXCEPT ![Loc[f]] = Ships[cur.new][f]]
              /\ MayBreak(cur.new, "control")
           \/ UNCHANGED disk /\ ControlFails(f)
        /\ UNCHANGED apknew

ApkNew(e) ==
    LET f == e[2]
    IN  /\ \/ /\ f \in tmp[cur.new]
              /\ tmp' = [tmp EXCEPT ![cur.new] = @ \ {f}]
              /\ apknew' = [apknew EXCEPT ![Loc[f]] = Ships[cur.new][f]]
              /\ UNCHANGED broken
           \/ UNCHANGED <<tmp, apknew>> /\ ControlFails(f)
        /\ UNCHANGED disk

Cancel(e) ==
    LET f == e[2]
    IN  /\ \/ /\ f \in tmp[cur.new]
              /\ tmp' = [tmp EXCEPT ![cur.new] = @ \ {f}]
              /\ UNCHANGED broken
           \/ UNCHANGED tmp /\ ControlFails(f)
        /\ UNCHANGED <<disk, apknew>>

(* Faulty: the previous owner keeps the file on its list; the file is       *)
(* counted again at each take-over.                                         *)
ClaimShared(e) ==
    /\ hash' = [hash EXCEPT ![e[2]] = e]
    /\ nfiles' = IF hash[e[2]] = NoEntry THEN nfiles + 1 ELSE nfiles
    /\ UNCHANGED <<audited, fileids>>
ClaimRecounted(e) ==
    /\ hash' = [hash EXCEPT ![e[2]] = e]
    /\ audited' = IF hash[e[2]] \in Entry \ {e} THEN audited \cup {hash[e[2]]} ELSE audited
    /\ nfiles' = IF hash[e[2]] # e THEN nfiles + 1 ELSE nfiles
    /\ UNCHANGED fileids

(* Claim ownership of the file in db.                                       *)
Claim(e) ==
    LET f == e[2]
    IN  /\ hash' = [hash EXCEPT ![f] = e]
        /\ audited' = IF hash[f] \in Entry \ {e} THEN audited \cup {hash[f]} ELSE audited
        /\ nfiles' = IF hash[f] = NoEntry THEN nfiles + 1 ELSE nfiles
        /\ fileids' = IF hash[f] = NoEntry /\ cur.old # None /\ disk'[Loc[f]] # Absent
                      THEN fileids \cup {Loc[f]} ELSE fileids

MigrateFile(e) ==
    /\ pc = "migrate" /\ e \in todo
    /\ \/ e \in brokenEnt /\ UNCHANGED <<storage, broken>>
       \/ e \notin brokenEnt /\ Ctrl(e) = "commit" /\ Commit(e)
       \/ e \notin brokenEnt /\ Ctrl(e) = "apknew" /\ ApkNew(e)
       \/ e \notin brokenEnt /\ Ctrl(e) = "cancel" /\ Cancel(e)
    /\ Claim(e)
    /\ todo' = todo \ {e}
    /\ UNCHANGED <<ipkg, ents, brokenEnt, digest, saved, pc, cur, changes, removing, done,
                   archive, failed, flags>>

MigrateDone ==
    /\ pc = "migrate" /\ todo = {}
    /\ ThenPurgeOld(cur, Unaudited(cur.old))
    /\ UNCHANGED <<memory, storage, saved, cur, changes, removing, done, archive, fileids,
                   failed, flags>>

(* Faulty: fileids are not looked at.                                       *)
PurgeDeletesAliased(e) ==
    /\ disk[Loc[e[2]]] # Absent
    /\ "purge" \in flags \/ e[2] \notin Protected \/ ~Modified(e[2], digest[e])

(* apk_db_purge_pkg(old, is_installed): the hash is cleared by path.        *)
PurgeDeletes(e) ==
    LET f == e[2]
    IN  /\ disk[Loc[f]] # Absent
        /\ Loc[f] \notin fileids
        /\ "purge" \in flags \/ f \notin Protected \/ ~Modified(f, digest[e])

PurgeFile(e) ==
    /\ pc = "purge" /\ e \in todo
    /\ \/ PurgeDeletes(e) /\ disk' = [disk EXCEPT ![Loc[e[2]]] = Absent]
       \/ \* kept, or the unlink failed, which nobody looks at
          (PurgeDeletes(e) => "unlink" \in Faults) /\ UNCHANGED disk
    /\ apknew' = IF e[2] \in Protected THEN [apknew EXCEPT ![Loc[e[2]]] = Absent] ELSE apknew
    /\ hash' = [hash EXCEPT ![e[2]] = NoEntry]
    /\ nfiles' = nfiles - 1
    /\ Forget({e})
    /\ todo' = todo \ {e}
    /\ UNCHANGED <<ipkg, broken, tmp, saved, pc, cur, changes,
                   removing, done, archive, fileids, failed, flags>>

PurgeDone ==
    /\ pc = "purge" /\ todo = {}
    /\ ipkg' = ipkg \ {cur.old}
    /\ broken' = broken \ {cur.old}
    /\ UNCHANGED hash /\ Forget(EntsOf(cur.old))
    /\ IF cur.new = None THEN pc' = "ready" /\ cur' = Idle
                         ELSE pc' = "finish" /\ UNCHANGED cur
    /\ fileids' = {}
    /\ UNCHANGED <<nfiles, storage, saved, changes, removing, done, archive, todo, failed, flags>>

(* The post-install or post-upgrade script, and the result of the change.   *)
Finish ==
    /\ pc = "finish"
    /\ MayBreak(cur.new, "script")
    /\ failed' = (failed \/ cur.new \in broken')
    /\ done' = done \cup {cur.new}
    /\ pc' = "ready" /\ cur' = Idle /\ fileids' = {}
    /\ UNCHANGED <<ipkg, ents, audited, brokenEnt, digest, hash, nfiles, storage, saved,
                   changes, removing, archive, todo, flags>>

-----------------------------------------------------------------------------
(* apk_db_write_config: lib/apk/db/installed is replaced in one rename, or  *)
(* left alone.  Two entries for one path are written in either order.       *)

Written(last) ==
    [pkgs |-> ipkg,
     files |-> [p \in Pkg |-> {e[2] : e \in EntsOf(p)}],
     digest |-> [p \in Pkg |-> [f \in Path |->
                    IF <<p, f, last>> \in ents THEN digest[<<p, f, last>>]
                    ELSE IF <<p, f, 3 - last>> \in ents THEN digest[<<p, f, 3 - last>>]
                    ELSE NoDigest]],
     broken |-> broken]

RunTriggers ==
    /\ pc = "ready" /\ changes = {}
    /\ \E bad \in SUBSET (done \cap ipkg) :
        /\ bad = {} \/ "script" \in Faults
        /\ broken' = broken \cup bad
        /\ failed' = (failed \/ bad # {})
    /\ pc' = "write"
    /\ UNCHANGED <<ipkg, ents, audited, brokenEnt, digest, hash, nfiles, storage, saved, cur,
                   changes, removing, done, archive, todo, fileids, flags>>

WriteConfig ==
    /\ pc = "write"
    /\ \/ (\E last \in {1, 2} : saved' = Written(last)) /\ UNCHANGED failed
       \/ "write" \in Faults /\ UNCHANGED saved /\ failed' = TRUE
    /\ pc' = "done"
    /\ UNCHANGED <<memory, storage, cur, changes, removing, done, archive, todo, fileids, flags>>

Close == pc = "done" /\ Kill

Crash == "crash" \in Faults /\ pc \notin {"closed", "done"} /\ Kill

UserEdit ==
    /\ \E l \in Location, c \in UserWrites : disk[l] # c /\ disk' = [disk EXCEPT ![l] = c]
    /\ UNCHANGED <<memory, apknew, tmp, saved, control>>

Step ==
    \/ \E c \in changes : StartRemove(c) \/ StartInstall(c) \/ KeepPackage(c)
    \/ \E f \in archive : InstallFile(f) \/ SkipFile(f) \/ NullOwner(f)
    \/ UnpackFail \/ UnpackDone
    \/ \E e \in todo : MigrateFile(e) \/ PurgeFile(e)
    \/ MigrateDone \/ PurgeDone \/ Finish \/ RunTriggers \/ WriteConfig \/ Close

Next == Open \/ Step \/ Crash \/ UserEdit

Spec == Init /\ [][Next]_vars

-----------------------------------------------------------------------------
(* Properties *)

Owner(f) == IF hash[f] \in Entry THEN hash[f][1] ELSE None

Pending(p) == pc = "unpack" /\ p = cur.new

(* Every entry on a package's list that no other entry took over is the one *)
(* the hash holds for its path, once the installation that creates it has   *)
(* migrated it.  apk_db_purge_pkg deletes from the hash by path: without    *)
(* this it would drop another package's ownership.                          *)
UnauditedOwned ==
    \A e \in ents \ audited :
        hash[e[2]] = e \/ Pending(e[1]) \/ (pc = "migrate" /\ e \in todo)

(* The hash never refers to an entry of a package that is not installed     *)
(* unless this run has met an error: a failed reinstallation frees the      *)
(* apk_installed_package and leaves the package's files in the hash, where  *)
(* apk_pkg_replaces_file would follow them to a null pointer.               *)
NoDanglingOwner ==
    ~failed => \A f \in Path : hash[f] \in Entry => hash[f] \in ents /\ hash[f][1] \in ipkg

(* The file count that apk reports counts every owned path exactly once,    *)
(* over take-overs, reinstallations, failed changes and removals.           *)
FileCountExact == nfiles = Cardinality({f \in Path : hash[f] # NoEntry})

(* A step of the administrator, not of apk.                                 *)
UserStep == UNCHANGED <<memory, saved, control>>

(* Purging a package, alone or as the old half of an upgrade, leaves alone  *)
(* every file that another package owns, also where both reach it through   *)
(* different paths, unless that package failed to put it there or left it   *)
(* to an overlay (a path taken from the overlay is not in fileids).         *)
PurgeSparesOthers ==
    [][pc = "purge" /\ pc' # "closed" /\ ~UserStep =>
         \A f \in Path \ OverlayFiles :
             hash[f] \in Entry \ brokenEnt /\ Owner(f) \notin {cur.old} \cup broken =>
                 hash'[f] = hash[f] /\ disk'[Loc[f]] = disk[Loc[f]]]_vars

(* What the administrator wrote under a protected path is never replaced or *)
(* deleted, whatever owns it and whatever fails, unless --purge is given.   *)
ProtectedEditsSurvive ==
    [][\A f \in Protected :
         disk[Loc[f]] \in UserContent /\ ~UserStep =>
             disk'[Loc[f]] = disk[Loc[f]] \/ (pc = "purge" /\ "purge" \in flags)]_vars

(* A transaction that reports no error has put every package it installed   *)
(* in place: each file it ships is owned, and one that the package owns     *)
(* outside the protected directories and the overlay has the package's      *)
(* content (or what the administrator wrote since).  It has left no         *)
(* temporary file behind for a path the package owns, also when an earlier  *)
(* run was killed and left some.                                            *)
SuccessIsComplete ==
    pc = "done" /\ ~failed =>
        \A p \in done :
            /\ \A f \in Shipped(p) :
                   /\ hash[f] # NoEntry
                   /\ Owner(f) = p /\ f \notin Protected \cup OverlayFiles /\ hash[f] \notin brokenEnt =>
                          disk[Loc[f]] \in {Ships[p][f]} \cup UserWrites
            /\ \A f \in tmp[p] : Owner(f) # p
=============================================================================
