------------------------------ MODULE DirTree ------------------------------
(***************************************************************************)
(* The directories of the installed database: reference counts, the list   *)
(* of directory instances (one per package that has the directory), the    *)
(* instance that decides about owner and mode, and what happens to the     *)
(* directories on disk while packages are installed, reinstalled, upgraded *)
(* and removed.                                                            *)
(*                                                                         *)
(* The list is the doubly linked list of apk_defines.h, pointer by         *)
(* pointer: nothing stops a node from being linked twice.                  *)
(***************************************************************************)
EXTENDS Integers, FiniteSets, SequencesExt

CONSTANTS
    Pkg, NameOf,
    NameRank,    \* NameRank[p]: position of the name of p in strcmp order
    Order,       \* position of p in apk_db_sorted_installed_packages
    Priority,    \* replaces_priority of p
    Origin,      \* origin of p, or None
    Dir, Root,
    Parent,      \* Parent[d] for every directory but Root
    Above,       \* Above[d]: d and the directories it is in
    DirsOf,      \* DirsOf[p]: directories with an entry in the archive of p
    RootFiles,   \* packages with a file in Root, for which archives have no entry
    Acl,         \* Acl[p][d]: owner and mode that p wants for d
    UserAcl,     \* what the administrator may set
    Occupied,    \* directories in which files of nobody's package are kept
    Options,     \* what the administrator may ask for: "reinstall", "fixperms"
    RefRange,    \* number of values of the unsigned short refs
    Faults, None, ListHead, Poison, Gone

Node == Pkg \X Dir
Ptr  == (Pkg \cup {ListHead}) \X Dir
HeadOf(d) == <<ListHead, d>>

ASSUME TreeAssumption ==
    /\ Root \in Dir /\ Parent \in [Dir \ {Root} -> Dir]
    /\ \A d \in Dir : Above[d] = {d} \cup (IF d = Root THEN {} ELSE Above[Parent[d]])

ASSUME MarkAssumption == None \notin Node /\ ListHead \notin Pkg /\ Poison \notin Ptr

ASSUME SwitchAssumption == 
    /\ Options \subseteq {"reinstall", "fixperms"}
    /\ RefRange \in Nat \ {0, 1}
    /\ Faults \subseteq {"unpack", "chmod", "crash"}

VARIABLES
    ipkg,     \* packages with an apk_installed_package
    diris,    \* directory instances on the packages' arrays
    nxt, prv, \* dir_diri_list of the instances and diris of the directories
    refs, owner, created, permsOk,  \* fields of struct apk_db_dir
    ndirs,    \* db->installed.stats.dirs
    mode,     \* the directories on disk, or Gone
    saved,    \* packages in lib/apk/db/installed
    pc, cur, changes, removing,
    todo,     \* directories the current loop has still to visit
    cursor,   \* where the walk over dir->diris is, None between walks
    failed,   \* an error was reported
    redone    \* packages reinstalled by this run

lists   == <<nxt, prv>>
tree    == <<refs, owner, created, permsOk, ndirs>>
control == <<pc, cur, changes, removing, todo, cursor, failed, redone>>
vars    == <<ipkg, diris, lists, tree, mode, saved, control>>

Change == [old : Pkg \cup {None}, new : Pkg \cup {None}]
Idle   == [old |-> None, new |-> None]
AllAcl == {Acl[p][d] : p \in Pkg, d \in Dir} \cup UserAcl
HasDirs(p) == DirsOf[p] \cup (IF p \in RootFiles THEN {Root} ELSE {})

TypeOK ==
    /\ ipkg \subseteq Pkg /\ saved \subseteq Pkg /\ removing \subseteq Pkg
    /\ diris \subseteq Node
    /\ nxt \in [Ptr -> Ptr \cup {Poison}] /\ prv \in [Ptr -> Ptr \cup {Poison}]
    /\ refs \in [Dir -> Nat] /\ owner \in [Dir -> Node \cup {None}]
    /\ created \subseteq Dir /\ permsOk \subseteq created
    /\ ndirs \in Nat
    /\ mode \in [Dir -> AllAcl \cup {Gone}]
    /\ pc \in {"closed", "fix", "ready", "unpack", "link", "linkfail", "undo", "purge"}
    /\ cur \in Change /\ changes \subseteq Change
    /\ todo \subseteq Dir /\ cursor \in Node \cup {HeadOf(d) : d \in Dir} \cup {None}
    /\ failed \in BOOLEAN /\ redone \subseteq Pkg

EmptyLists == nxt = [x \in Ptr |-> x] /\ prv = [x \in Ptr |-> x]

Init ==
    /\ ipkg = {} /\ diris = {} /\ saved = {}
    /\ EmptyLists
    /\ refs = [d \in Dir |-> 0] /\ owner = [d \in Dir |-> None]
    /\ created = {} /\ permsOk = {} /\ ndirs = 0
    /\ mode = [d \in Dir |-> IF d = Root THEN CHOOSE a \in UserAcl : TRUE ELSE Gone]
    /\ pc = "closed" /\ cur = Idle /\ changes = {} /\ removing = {} /\ todo = {}
    /\ cursor = None /\ failed = FALSE /\ redone = {}

-----------------------------------------------------------------------------
(* apk_pkg_replaces_dir(a, b) = APK_PKG_REPLACES_YES                        *)
ReplacesDirBut(a, b, leaving) ==
    \/ NameOf[a] = NameOf[b]
    \/ a \in leaving
    \/ /\ b \notin leaving
       /\ \/ Priority[a] < Priority[b]
          \/ /\ Priority[a] = Priority[b]
             /\ LET sameOrigin == Origin[a] # None /\ Origin[a] = Origin[b]
                IN  /\ ~(sameOrigin /\ Origin[a] = NameOf[a])
                    /\ \/ sameOrigin /\ Origin[b] = NameOf[b]
                       \/ NameRank[a] > NameRank[b]

ReplacesDir(a, b) == ReplacesDirBut(a, b, removing)

(* The record of a or b was freed by a failed reinstallation.               *)
NullPkg(a, b) == NameOf[a] # NameOf[b] /\ ~({a, b} \subseteq ipkg)

Kill ==
    /\ ipkg' = {} /\ diris' = {}
    /\ nxt' = [x \in Ptr |-> x] /\ prv' = [x \in Ptr |-> x]
    /\ refs' = [d \in Dir |-> 0] /\ owner' = [d \in Dir |-> None]
    /\ created' = {} /\ permsOk' = {} /\ ndirs' = 0
    /\ pc' = "closed" /\ cur' = Idle /\ changes' = {} /\ removing' = {} /\ todo' = {}
    /\ cursor' = None /\ failed' = FALSE /\ redone' = {}
    /\ UNCHANGED <<mode, saved>>

(* apk_db_dir_get: the directories on the way up that come to life, and the *)
(* ones that get a reference.                                               *)
Fresh(d) == {x \in Above[d] : \A y \in Above[d] : x \in Above[y] => refs[y] = 0}
(* Faulty: the parent gets no reference.                                    *)
GainingAlone(d) == {d}
Gaining(d) == {d} \cup {Parent[x] : x \in Fresh(d) \ {Root}}

(* apk_db_dir_unref: likewise down to zero.                                 *)
(* Faulty: off by one.                                                      *)
DyingEarly(d) == {x \in Above[d] : \A y \in Above[d] : x \in Above[y] => refs[y] <= 2}
Dying(d) == {x \in Above[d] : \A y \in Above[d] : x \in Above[y] => refs[y] = 1}
Losing(d) == {d} \cup {Parent[x] : x \in Dying(d) \ {Root}}

(* rmdir from d upwards: it fails once something is left inside.            *)
Removable(d) ==
    {x \in Dying(d) \ {Root} :
        \A y \in Dir : (x \in Above[y] /\ mode[y] # Gone) => y \in Dying(d) \ Occupied}

Unref(d, onDisk) ==
    /\ refs' = [x \in Dir |-> IF x \in Losing(d) THEN (refs[x] - 1) % RefRange ELSE refs[x]]
    /\ ndirs' = ndirs - Cardinality(Dying(d))
    /\ created' = created \ Dying(d)
    /\ permsOk' = permsOk \ Dying(d)
    /\ mode' = [x \in Dir |-> IF x \in Removable(d) THEN Gone ELSE onDisk[x]]

-----------------------------------------------------------------------------
(* apk_db_fdb_read: the instances of all packages, in the order of the file.*)

InOrder(ps) == SetToSortSeq(ps, LAMBDA p, q : Order[p] < Order[q])
Listed(d) == InOrder({p \in saved : d \in HasDirs(p)})

LoadedOwner(d) ==
    LET take(o, p) == IF o = None \/ ReplacesDirBut(o, p, {}) THEN p ELSE o
        best == FoldLeft(take, None, Listed(d))
    IN  IF best = None THEN None ELSE <<best, d>>

LoadedRefs(d) ==
    LET alive(x) == \E p \in saved : \E y \in HasDirs(p) : x \in Above[y]
    IN  Cardinality({p \in saved : d \in HasDirs(p)})
        + Cardinality({x \in Dir \ {Root} : Parent[x] = d /\ alive(x)})

(* <<head, first, ..., last, head>> as next and previous pointers.          *)
Ring(d) == <<HeadOf(d)>> \o [k \in 1..Len(Listed(d)) |-> <<Listed(d)[k], d>>] \o <<HeadOf(d)>>

LoadedNext(x) ==
    LET r == Ring(x[2]) IN IF \E k \in 1..Len(r) - 1 : r[k] = x
                           THEN r[(CHOOSE k \in 1..Len(r) - 1 : r[k] = x) + 1] ELSE x
LoadedPrev(x) ==
    LET r == Ring(x[2]) IN IF \E k \in 2..Len(r) : r[k] = x
                           THEN r[(CHOOSE k \in 2..Len(r) : r[k] = x) - 1] ELSE x

PkgName == {NameOf[p] : p \in Pkg}
InstalledAs(n) == IF \E p \in saved : NameOf[p] = n
                  THEN CHOOSE p \in saved : NameOf[p] = n ELSE None

Open ==
    /\ pc = "closed"
    /\ ipkg' = saved
    /\ diris' = {n \in Node : n[1] \in saved /\ n[2] \in HasDirs(n[1])}
    /\ nxt' = [x \in Ptr |-> LoadedNext(x)] /\ prv' = [x \in Ptr |-> LoadedPrev(x)]
    /\ owner' = [d \in Dir |-> LoadedOwner(d)]
    /\ refs' = [d \in Dir |-> LoadedRefs(d)]
    /\ ndirs' = Cardinality({d \in Dir : LoadedRefs(d) > 0})
    /\ created' = {} /\ permsOk' = {}
    /\ \E target \in [PkgName -> Pkg \cup {None}], redo \in SUBSET PkgName :
        /\ \A n \in PkgName : target[n] # None => NameOf[target[n]] = n
        /\ redo = {} \/ "reinstall" \in Options
        /\ changes' = {c \in {[old |-> InstalledAs(n), new |-> target[n]] : n \in PkgName} :
                          c.old # c.new \/ (c.new # None /\ NameOf[c.new] \in redo)}
    /\ removing' = {c.old : c \in {x \in changes' : x.old # x.new}} \ {None}
    /\ \/ pc' = "ready" /\ todo' = {}
       \/ /\ "fixperms" \in Options /\ pc' = "fix"
          /\ todo' = {d \in Dir \ {Root} : LoadedRefs(d) > 0}
    /\ failed' = FALSE
    /\ UNCHANGED <<mode, saved, cur, cursor, redone>>

-----------------------------------------------------------------------------
(* apk_db_install_pkg, as far as directories go *)

StartRemove(c) ==
    /\ pc = "ready" /\ c \in changes /\ c.new = None
    /\ changes' = changes \ {c} /\ cur' = c
    /\ pc' = "purge" /\ todo' = HasDirs(c.old)
    /\ UNCHANGED <<ipkg, diris, lists, tree, mode, saved, removing, cursor, failed, redone>>

StartInstall(c) ==
    /\ pc = "ready" /\ c \in changes /\ c.new # None
    /\ changes' = changes \ {c} /\ cur' = c
    /\ ipkg' = ipkg \cup {c.new}
    /\ pc' = "unpack" /\ todo' = HasDirs(c.new)
    /\ redone' = IF c.old = c.new THEN redone \cup {c.new} ELSE redone
    /\ UNCHANGED <<diris, lists, tree, mode, saved, removing, cursor, failed>>

(* apk_db_diri_get: the package's instance, a new one if need be.           *)
GetDiri(n) ==
    LET d == n[2]
    IN  IF n \in diris THEN UNCHANGED <<diris, lists, refs, ndirs>>
        ELSE /\ diris' = diris \cup {n}
             /\ refs' = [x \in Dir |-> IF x \in Gaining(d) THEN (refs[x] + 1) % RefRange ELSE refs[x]]
             /\ ndirs' = ndirs + Cardinality(Fresh(d))
             /\ nxt' = [x \in Ptr |-> IF x = n \/ x \in {HeadOf(y) : y \in Fresh(d)}
                                      THEN x ELSE nxt[x]]
             /\ prv' = [x \in Ptr |-> IF x = n \/ x \in {HeadOf(y) : y \in Fresh(d)}
                                      THEN x ELSE prv[x]]

AclOf(n) == Acl[n[1]][n[2]]

(* Faulty: first come, first served.                                        *)
TakesOverFirst(n) == owner[n[2]] = None

TakesOver(n) == owner[n[2]] = None \/ ReplacesDir(owner[n[2]][1], n[1])

(* fsys_dir_update_perms: the outcomes of setting mode and owner.           *)
DirUpdatePerms(d, acl) ==
    {[disk |-> [mode EXCEPT ![d] = acl], error |-> FALSE] : x \in {d} \ {y \in Dir : mode[y] = Gone}}
      \cup {[disk |-> mode, error |-> TRUE] : x \in IF mode[d] = Gone THEN {d} ELSE Faults \cap {"chmod"}}

(* Faulty: permissions_ok is not looked at.                                 *)
UpdatedAlways(d, acl) == {[disk |-> [mode EXCEPT ![d] = acl], error |-> FALSE]}

(* apk_db_dir_update_permissions: what becomes of the directories on disk.  *)
Updated(d, acl) ==
    IF d \in permsOk THEN DirUpdatePerms(d, acl) ELSE {[disk |-> mode, error |-> FALSE]}

ApplyPermissions(n) ==
    LET d == n[2]
    IN  IF ~TakesOver(n) THEN UNCHANGED <<owner, mode, failed>>
        ELSE /\ owner' = [owner EXCEPT ![d] = n]
             /\ IF owner[d] # None /\ AclOf(owner[d]) # AclOf(n)
                THEN \E u \in Updated(d, AclOf(n)) : mode' = u.disk /\ failed' = (failed \/ u.error)
                ELSE UNCHANGED <<mode, failed>>

(* fsys_dir_check: the directory is as expected.                            *)
DirCheck(d, expected) == mode[d] # Gone /\ mode[d] = expected

(* apk_db_dir_prepare, the first time the directory is touched: create it,  *)
(* or find out whether it still is what its owner so far made of it. With   *)
(* no owner so far, any directory that is there already is left alone.      *)
CanMake(d) == mode[d] = Gone /\ mode[Parent[d]] # Gone

Prepare(d, expected, acl) ==
    /\ created' = created \cup {d}
    /\ \E chown \in {TRUE} \cup {x \in {FALSE} : "chmod" \in Faults} :
          permsOk' = IF (CanMake(d) /\ chown) \/ DirCheck(d, expected) THEN permsOk \cup {d} ELSE permsOk
    /\ mode' = IF CanMake(d) THEN [mode EXCEPT ![d] = acl] ELSE mode

(* In an archive a directory comes before what is in it.                    *)
IsNext(d) == d \in todo /\ \A x \in todo \cap Above[d] : x = d

(* apk_db_install_archive_entry for a directory, and for the first file in  *)
(* Root: only its instance is created.                                      *)
DirEntry(d) ==
    /\ pc = "unpack" /\ IsNext(d)
    /\ todo' = todo \ {d}
    /\ LET n == <<cur.new, d>>
           expected == IF owner[d] = None THEN None ELSE AclOf(owner[d])
       IN  /\ (d \in DirsOf[cur.new] /\ owner[d] # None) => ~NullPkg(owner[d][1], cur.new)
           /\ GetDiri(n)
           /\ \/ /\ d \in DirsOf[cur.new] /\ (d = Root \/ d \in created)
                 /\ ApplyPermissions(n) /\ UNCHANGED <<created, permsOk>>
              \/ /\ d \in DirsOf[cur.new] /\ d # Root /\ d \notin created
                 /\ owner' = IF TakesOver(n) THEN [owner EXCEPT ![d] = n] ELSE owner
                 /\ Prepare(d, expected, AclOf(owner'[d])) /\ UNCHANGED failed
              \/ /\ d \notin DirsOf[cur.new]
                 /\ UNCHANGED <<owner, created, permsOk, mode, failed>>
    /\ UNCHANGED <<ipkg, saved, pc, cur, changes, removing, cursor, redone>>

NullOwner(d) ==
    /\ pc = "unpack" /\ IsNext(d) /\ d \in DirsOf[cur.new]
    /\ owner[d] # None /\ NullPkg(owner[d][1], cur.new)
    /\ Kill

(* apk_db_ipkg_commit follows whether unpacking succeeded or not.           *)
UnpackEnds ==
    /\ pc = "unpack"
    /\ \/ todo = {} /\ pc' = "link" /\ UNCHANGED failed
       \/ "unpack" \in Faults /\ pc' = "linkfail" /\ failed' = TRUE
    /\ todo' = {n[2] : n \in {x \in diris : x[1] = cur.new}}
    /\ UNCHANGED <<ipkg, diris, lists, tree, mode, saved, cur, changes, removing, cursor, redone>>

(* The stores of __list_add to next, in their order.  Faulty: the last node *)
(* is linked first and read back.                                           *)
AddedNextLate(n, last) == [nxt EXCEPT ![last] = n, ![n] = n]
AddedNext(n, last) == [nxt EXCEPT ![n] = HeadOf(n[2]), ![last] = n]

(* list_add_tail(&diri->dir_diri_list, &diri->dir->diris)                   *)
LinkDiri(d) ==
    /\ pc \in {"link", "linkfail"} /\ IsNext(d)
    /\ todo' = todo \ {d}
    /\ LET n == <<cur.new, d>>
           last == prv[HeadOf(d)]
       IN  /\ prv' = [prv EXCEPT ![HeadOf(d)] = n, ![n] = last]
           /\ nxt' = AddedNext(n, last)
    /\ UNCHANGED <<ipkg, diris, tree, mode, saved, pc, cur, changes, removing, cursor, failed, redone>>

(* Upgrading goes on to purge the old version.                              *)
LinkDone ==
    /\ pc = "link" /\ todo = {}
    /\ LET upgrade == cur.old \in ipkg /\ cur.old # cur.new
       IN  /\ pc' = IF upgrade THEN "purge" ELSE "ready"
           /\ todo' = IF upgrade THEN {n[2] : n \in {x \in diris : x[1] = cur.old}} ELSE {}
           /\ cur' = IF upgrade THEN cur ELSE Idle
    /\ UNCHANGED <<ipkg, diris, lists, tree, mode, saved, changes, removing, cursor, failed, redone>>

(* A failed installation is purged; a failed reinstallation only loses its  *)
(* record, its instances stay on the lists of their directories.            *)
LinkFailed ==
    /\ pc = "linkfail" /\ todo = {}
    /\ IF cur.old # cur.new
       THEN /\ pc' = "undo" /\ todo' = {n[2] : n \in {x \in diris : x[1] = cur.new}}
            /\ UNCHANGED <<ipkg, diris, cur>>
       ELSE /\ ipkg' = ipkg \ {cur.new} /\ diris' = {n \in diris : n[1] # cur.new}
            /\ pc' = "ready" /\ cur' = Idle /\ UNCHANGED todo
    /\ UNCHANGED <<lists, tree, mode, saved, changes, removing, cursor, failed, redone>>

-----------------------------------------------------------------------------
(* apk_db_purge_pkg: apk_db_diri_remove of every instance *)

Leaving == IF pc = "purge" THEN cur.old ELSE cur.new

WildPointer(n) == Poison \in {nxt[n], prv[n]}

(* list_del, and if the directory loses its owner the walk begins.          *)
RemoveDiri(d) ==
    /\ pc \in {"purge", "undo"} /\ cursor = None /\ IsNext(d)
    /\ todo' = todo \ {d}
    /\ LET n == <<Leaving, d>>
       IN  /\ ~WildPointer(n)
           /\ diris' = diris \ {n}
           /\ prv' = [prv EXCEPT ![nxt[n]] = prv[n], ![n] = Poison]
           /\ nxt' = [nxt EXCEPT ![prv[n]] = nxt[n], ![n] = Poison]
           /\ IF owner[d] = n
              THEN /\ owner' = [owner EXCEPT ![d] = None]
                   /\ cursor' = nxt'[HeadOf(d)]
                   /\ UNCHANGED <<refs, ndirs, created, permsOk, mode>>
              ELSE Unref(d, mode) /\ UNCHANGED <<owner, cursor>>
    /\ UNCHANGED <<ipkg, saved, pc, cur, changes, removing, failed, redone>>

WalkStep ==
    /\ cursor \in Node
    /\ LET d == cursor[2]
       IN  /\ owner[d] # None => ~NullPkg(owner[d][1], cursor[1])
           /\ nxt[cursor] # Poison
           /\ owner' = IF TakesOver(cursor) THEN [owner EXCEPT ![d] = cursor] ELSE owner
    /\ cursor' = nxt[cursor]
    /\ UNCHANGED <<ipkg, diris, lists, refs, created, permsOk, ndirs, mode, saved,
                   pc, cur, changes, removing, todo, failed, redone>>

WalkEnd ==
    /\ cursor \notin Node \cup {None}
    /\ LET d == cursor[2]
       IN  \E u \in IF owner[d] = None THEN {[disk |-> mode, error |-> FALSE]}
                    ELSE Updated(d, AclOf(owner[d])) :
             Unref(d, u.disk) /\ failed' = (failed \/ u.error)
    /\ cursor' = None
    /\ UNCHANGED <<ipkg, diris, lists, owner, saved, pc, cur, changes, removing, todo, redone>>

(* A freed record or a poisoned pointer met on the way.                     *)
WalkFault ==
    /\ \/ /\ cursor \in Node
          /\ \/ owner[cursor[2]] # None /\ NullPkg(owner[cursor[2]][1], cursor[1])
             \/ nxt[cursor] = Poison
       \/ /\ pc \in {"purge", "undo"} /\ cursor = None
          /\ \E d \in todo : IsNext(d) /\ WildPointer(<<Leaving, d>>)
    /\ Kill

(* apk_pkg_uninstall *)
PurgeDone ==
    /\ pc \in {"purge", "undo"} /\ cursor = None /\ todo = {}
    /\ ipkg' = ipkg \ {Leaving}
    /\ pc' = "ready" /\ cur' = Idle
    /\ UNCHANGED <<diris, lists, tree, mode, saved, changes, removing, todo, cursor, failed, redone>>

(* apk_db_write_config by apk_solver_commit_changeset                       *)
Close ==
    /\ pc = "ready" /\ changes = {}
    /\ saved' = ipkg
    /\ pc' = "closed" /\ removing' = {} /\ failed' = FALSE /\ redone' = {}
    /\ ipkg' = {} /\ diris' = {}
    /\ nxt' = [x \in Ptr |-> x] /\ prv' = [x \in Ptr |-> x]
    /\ refs' = [d \in Dir |-> 0] /\ owner' = [d \in Dir |-> None]
    /\ created' = {} /\ permsOk' = {} /\ ndirs' = 0
    /\ UNCHANGED <<mode, cur, changes, todo, cursor>>

Crash == "crash" \in Faults /\ pc # "closed" /\ Kill

-----------------------------------------------------------------------------
(* apk fix --directory-permissions, before the changes are made *)

FixDir(d) ==
    /\ pc = "fix" /\ d \in todo /\ owner[d] # None
    /\ todo' = todo \ {d}
    /\ created' = created \cup {d} /\ permsOk' = permsOk \cup {d}
    /\ \/ /\ CanMake(d) \/ (mode[d] # Gone /\ (mode[d] = AclOf(owner[d]) \/ "chmod" \notin Faults))
          /\ mode' = [mode EXCEPT ![d] = AclOf(owner[d])] /\ UNCHANGED failed
       \/ /\ ~CanMake(d) /\ (mode[d] = Gone \/ "chmod" \in Faults)
          /\ UNCHANGED mode /\ failed' = TRUE
    /\ UNCHANGED <<ipkg, diris, lists, refs, owner, ndirs, saved, pc, cur, changes, removing, cursor, redone>>

(* dir->owner->acl of a directory that no installed package lists itself.   *)
FixNullOwner == pc = "fix" /\ (\E d \in todo : owner[d] = None) /\ Kill

FixDone ==
    /\ pc = "fix" /\ todo = {} /\ ~failed /\ pc' = "ready"
    /\ UNCHANGED <<ipkg, diris, lists, tree, mode, saved, cur, changes, removing, todo, cursor, failed, redone>>

(* "Failed to fix directory permissions": nothing is committed.             *)
FixFailed == pc = "fix" /\ todo = {} /\ failed /\ Kill

-----------------------------------------------------------------------------
(* The administrator creates, changes or removes a directory between runs.  *)
UserChange ==
    /\ pc = "closed"
    /\ \E d \in Dir \ {Root} :
        \/ \E a \in UserAcl :
              /\ mode[Parent[d]] # Gone /\ mode[d] # a
              /\ mode' = [mode EXCEPT ![d] = a]
        \/ /\ \A x \in Dir : d \in Above[x] /\ mode[x] # Gone => x = d
           /\ mode[d] # Gone
           /\ mode' = [mode EXCEPT ![d] = Gone]
    /\ UNCHANGED <<ipkg, diris, lists, tree, saved, control>>

Step ==
    \/ \E c \in changes : StartRemove(c) \/ StartInstall(c)
    \/ \E d \in todo : DirEntry(d) \/ NullOwner(d) \/ LinkDiri(d) \/ RemoveDiri(d) \/ FixDir(d)
    \/ UnpackEnds \/ LinkDone \/ LinkFailed
    \/ WalkStep \/ WalkEnd \/ WalkFault
    \/ PurgeDone \/ FixNullOwner \/ FixDone \/ FixFailed \/ Close

Next == Open \/ Step \/ Crash \/ UserChange

Spec == Init /\ [][Next]_vars

(* A process that runs goes on running: nothing here waits for anything.    *)
FairSpec == Spec /\ WF_vars(Step)

-----------------------------------------------------------------------------
(* Properties *)

(* The instances that apk_db_ipkg_commit has put on the list of d.          *)
Linked(d) ==
    {n \in diris : n[2] = d /\ ~(n[1] = cur.new /\ (pc = "unpack" \/ (pc \in {"link", "linkfail"} /\ d \in todo)))}

(* A directory has one reference for every instance and one for every child *)
(* directory that is referenced (while an instance is being removed, the    *)
(* reference goes last), and the directory count agrees: apk_db_dir_unref   *)
(* removes a directory when the last one goes.  Only a reinstallation that  *)
(* fails drops instances and keeps their references.                        *)
RefsExact ==
    /\ redone = {} \/ ~failed => \A d \in Dir :
         refs[d] = Cardinality({n \in diris : n[2] = d})
                   + Cardinality({x \in Dir \ {Root} : Parent[x] = d /\ refs[x] > 0})
                   + (IF cursor # None /\ cursor[2] = d THEN 1 ELSE 0)
    /\ ndirs = Cardinality({d \in Dir : refs[d] > 0})

(* dir->diris is one ring through exactly the instances of the directory,   *)
(* the same in both directions, as long as nothing is reinstalled.          *)
ListSound ==
    redone = {} => \A d \in Dir : refs[d] > 0 =>
        LET ring == Linked(d) \cup {HeadOf(d)}
        IN  /\ \A x \in ring : nxt[x] \in ring /\ prv[x] \in ring /\ prv[nxt[x]] = x
            /\ \A S \in SUBSET Linked(d) : S # {} => \E x \in S : nxt[x] \notin S

(* Both: the references and the lists agree with the instances there are,   *)
(* after every step of linking, unlinking and handing over a directory.     *)
InstancesSound == RefsExact /\ ListSound

(* At the end of a run the owner of every directory is the one the next run *)
(* computes from the installed database: which package decides about owner  *)
(* and mode does not depend on the order of installations and removals.     *)
OwnerSurvivesReload ==
    pc = "ready" /\ changes = {} /\ ~failed =>
        \A d \in Dir \ {Root} :
            LET best(o, p) == IF o = None \/ ReplacesDirBut(o, p, {}) THEN p ELSE o
                o == FoldLeft(best, None, InOrder({p \in ipkg : d \in HasDirs(p)}))
            IN  owner[d] = IF o = None THEN None ELSE <<o, d>>

(* A directory is removed from disk only when no instance of it or of a     *)
(* directory inside it is left.                                             *)
RmdirOnlyUnused ==
    [][\A d \in Dir : pc # "closed" /\ mode[d] # Gone /\ mode'[d] = Gone =>
          \A n \in diris' : d \notin Above[n[2]]]_vars

(* Owner and mode that the administrator gave a directory are left alone by *)
(* every installation, upgrade and removal; only "apk fix                   *)
(* --directory-permissions" resets them.                                    *)
UserModeKept ==
    [][\A d \in Dir :
          mode[d] \in UserAcl /\ pc \notin {"closed", "fix"} =>
              mode'[d] \in {mode[d], Gone}]_vars

(* The walk for a new owner over the instances of a directory comes to an   *)
(* end in a run that reinstalls nothing.                                    *)
WalkEnds == (cursor # None /\ redone = {}) ~> (cursor = None)

(* ... and in any run.                                                      *)
WalkAlwaysEnds == (cursor # None) ~> (cursor = None)
=============================================================================
