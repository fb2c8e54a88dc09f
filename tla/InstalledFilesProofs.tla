------------------------ MODULE InstalledFilesProofs ------------------------
(***************************************************************************)
(* Protected files, ownership and the file count of InstalledFiles, for    *)
(* every set of packages, paths and locations and every combination of     *)
(* faults and options.                                                     *)
(***************************************************************************)
EXTENDS InstalledFilesTypes

-----------------------------------------------------------------------------
(* The administrator's edits *)

(* An edit under a protected path survives every step of apk.  The content  *)
(* is not one that any package ships, so apk_db_audit_file finds it         *)
(* modified: migrating renames nothing over it and purging deletes it only  *)
(* when --purge is given.                                                   *)
THEOREM EditsAreSafe == Spec => ProtectedEditsSurvive
<1> DEFINE Safe(f) == disk[Loc[f]] \in UserContent /\ ~UserStep =>
                        disk'[Loc[f]] = disk[Loc[f]] \/ (pc = "purge" /\ "purge" \in flags)
<1>1. ASSUME TypeOK, ChangeOK, Next, NEW f \in Protected, disk[Loc[f]] \in UserContent, ~UserStep
      PROVE  disk'[Loc[f]] = disk[Loc[f]] \/ (pc = "purge" /\ "purge" \in flags)
    <2>1. /\ f \in Path /\ todo \subseteq Entry /\ MemoryTypeOK /\ StorageTypeOK
          /\ disk[Loc[f]] # Absent /\ disk[Loc[f]] \notin Digest /\ disk[Loc[f]] # NoDigest
        BY <1>1, ConstantsAssumption, DistinctAssumption DEF TypeOK, ControlTypeOK
    <2>2. ASSUME NEW d \in Digest \cup {NoDigest}, NEW g \in Path, Loc[g] = Loc[f]
          PROVE  Modified(g, d) /\ g \in Protected
        BY <2>1, <2>2, <1>1, AliasAssumption, SMTT(60) DEF Modified
    <2>3. ASSUME NEW e \in todo, MigrateFile(e) PROVE disk'[Loc[f]] = disk[Loc[f]]
        <3>1. e \in Entry /\ e[2] \in Path
            BY <2>1, EntryParts
        <3>2. DigestInHash(e[2]) \in Digest \cup {NoDigest}
            BY <2>1, <3>1 DEF DigestInHash, MemoryTypeOK
        <3>3. CASE Loc[e[2]] = Loc[f]
            <4>1. Ctrl(e) # "commit"
                BY <3>1, <3>2, <3>3, <2>2 DEF Ctrl
            <4> QED
                BY <2>3, <4>1 DEF MigrateFile, ApkNew, Cancel, storage
        <3>4. CASE Loc[e[2]] # Loc[f]
            <4>1. disk' = disk \/ disk' = [disk EXCEPT ![Loc[e[2]]] = Ships[cur.new][e[2]]]
                BY <2>3 DEF MigrateFile, Commit, ApkNew, Cancel, storage
            <4> QED
                BY <2>1, <3>4, <4>1, ConstantsAssumption, SMTT(60) DEF StorageTypeOK
        <3> QED
            BY <3>3, <3>4, Zenon
    <2>4. ASSUME NEW e \in todo, PurgeFile(e)
          PROVE  disk'[Loc[f]] = disk[Loc[f]] \/ (pc = "purge" /\ "purge" \in flags)
        <3>1. e \in Entry /\ e[2] \in Path /\ digest[e] \in Digest \cup {NoDigest}
            BY <2>1, EntryParts DEF MemoryTypeOK
        <3>2. CASE Loc[e[2]] = Loc[f]
            BY <3>1, <3>2, <2>2, <2>4 DEF PurgeFile, PurgeDeletes
        <3>3. CASE Loc[e[2]] # Loc[f]
            <4>1. disk' = disk \/ disk' = [disk EXCEPT ![Loc[e[2]]] = Absent]
                BY <2>4 DEF PurgeFile
            <4> QED
                BY <2>1, <3>3, <4>1, ConstantsAssumption DEF StorageTypeOK
        <3> QED
            BY <3>2, <3>3
    <2>5. UserEdit => UserStep
        BY SMTT(60) DEF UserEdit, UserStep
    <2>6. Next => disk' = disk \/ UserEdit \/ \E e \in todo : MigrateFile(e) \/ PurgeFile(e)
        BY Zenon DEF Next, Step, Open, StartRemove, StartInstall, KeepPackage, InstallFile, SkipFile,
               NullOwner, UnpackFail, UnpackDone, MigrateDone, PurgeDone, Finish, RunTriggers,
               WriteConfig, Close, Crash, Kill, storage
    <2> QED
        BY <1>1, <2>3, <2>4, <2>5, <2>6
<1>2. TypeOK /\ ChangeOK /\ [Next]_vars => [\A f \in Protected : Safe(f)]_vars
    BY <1>1
<1>3. TypeOK /\ ChangeOK /\ [Next]_vars => TypeOK' /\ ChangeOK'
    BY TypeStep
<1>4. Init => TypeOK /\ ChangeOK
    BY TypeInit
<1> QED
    BY <1>2, <1>3, <1>4, PTL DEF Spec, ProtectedEditsSurvive

-----------------------------------------------------------------------------
(* Ownership: the inductive invariant *)

(* What the loops of apk_db_install_pkg have still to visit: the entries of *)
(* the new package while they are migrated, and exactly the entries that    *)
(* the old package still owns while it is purged.                           *)
Loops ==
    /\ pc \in {"unpack", "migrate"} => cur.new \in ipkg
    /\ pc = "migrate" => todo \subseteq EntsOf(cur.new)
    /\ pc = "purge" => todo = Unaudited(cur.old) /\ cur.old # cur.new
    /\ pc \notin {"migrate", "purge"} => todo = {}

(* A package is purged only if it was marked to_be_removed, and a package   *)
(* that is being installed never is.                                        *)
Removals ==
    /\ \A c \in changes : /\ c.new \notin removing
                          /\ c.old \notin {c.new, None} => c.old \in removing
    /\ pc \in {"unpack", "migrate", "purge"} => /\ cur.new \notin removing
                                                /\ cur.old \notin {cur.new, None} => cur.old \in removing

(* The hash is keyed by path, lists belong to installed packages, and an    *)
(* entry of the hash is on its package's list unless the run has failed.    *)
HashByPath == \A f \in Path : hash[f] \in Entry => hash[f][2] = f
ListsInstalled == \A e \in ents : e[1] \in ipkg
HashListed == ~failed => \A f \in Path : hash[f] \in Entry => hash[f] \in ents

(* A disowned entry can be in the hash again only for a package that this   *)
(* run installs: a package to be removed never has one.                     *)
DisownedStays == \A f \in Path : hash[f] \in audited => hash[f][1] \notin removing

Ownership ==
    /\ HashByPath /\ ListsInstalled /\ HashListed /\ DisownedStays /\ UnauditedOwned

Inv == TypeOK /\ ChangeOK /\ Loops /\ Removals /\ Ownership /\ FileCountExact

(* The changes of a changeset remove no package that they also install.     *)
LEMMA OpenRemovals == TypeOK /\ Open => Removals'
<1> SUFFICES ASSUME TypeOK, Open PROVE Removals'
    BY SMTT(60)
<1>1. PICK target \in [PkgName -> Pkg \cup {None}], redo \in SUBSET PkgName :
        /\ \A n \in PkgName : target[n] # None => NameOf[target[n]] = n
        /\ changes' = ChangesFor(target, redo)
    BY ZenonT(60) DEF Open
<1>2. pc' = "ready" /\ removing' = {c.old : c \in {d \in changes' : d.old # d.new}} \ {None}
    BY DEF Open
<1>3. \A n \in PkgName : InstalledAs(n) # None => NameOf[InstalledAs(n)] = n
    BY DEF InstalledAs
<1>4. ASSUME NEW c \in changes' PROVE c.new \notin removing'
    <2>1. PICK n \in PkgName : c = [old |-> InstalledAs(n), new |-> target[n]]
        BY <1>1 DEF ChangesFor
    <2>2. SUFFICES ASSUME NEW d \in changes', d.old # d.new, d.old = c.new, c.new # None
                   PROVE  FALSE
        BY <1>2
    <2>3. PICK m \in PkgName : d = [old |-> InstalledAs(m), new |-> target[m]]
        BY <1>1 DEF ChangesFor
    <2>4. InstalledAs(m) = target[n] /\ target[n] # None
        BY <2>1, <2>2, <2>3
    <2>5. m = n
        BY <2>4, <1>1, <1>3
    <2> QED
        BY <2>1, <2>2, <2>3, <2>5
<1>5. ASSUME NEW c \in changes', c.old \notin {c.new, None} PROVE c.old \in removing'
    BY <1>2, <1>5
<1> QED
    BY <1>2, <1>4, <1>5 DEF Removals

(* Every step keeps the loops' bounds and the marks for removal.            *)
LEMMA LoopsStep ==
    ASSUME TypeOK, ChangeOK, Loops, Removals, Next
    PROVE  Loops' /\ Removals'
<1> DEFINE Goal == Loops' /\ Removals'
<1>0. ipkg \subseteq Pkg /\ removing \subseteq Pkg /\ None \notin Pkg
    BY DistinctAssumption DEF TypeOK, MemoryTypeOK, ControlTypeOK
<1>1. CASE Open
    <2>1. Loops'
        BY <1>1, SMTT(60) DEF Open, Loops
    <2> QED
        BY <1>1, <2>1, OpenRemovals
<1>2. ASSUME NEW c \in changes, StartRemove(c) PROVE Goal
    <2>1. c.new = None /\ c.old # None
        BY <1>2, Zenon DEF StartRemove, ChangeOK
    <2>2. UNCHANGED <<ents, audited>>
        BY <1>2 DEF StartRemove, memory
    <2> QED
        BY <1>0, <1>2, <2>1, <2>2, ZenonT(60) DEF StartRemove, Loops, Removals, Unaudited, EntsOf
<1>3. ASSUME NEW c \in changes, StartInstall(c) PROVE Goal
    BY <1>0, <1>3, SMTT(60) DEF StartInstall, ThenPurgeOld, Loops, Removals, Unaudited, EntsOf
<1>4. ASSUME NEW c \in changes, KeepPackage(c) PROVE Goal
    BY <1>4, SMTT(60) DEF KeepPackage, Loops, Removals
<1>5. ASSUME NEW f \in archive, InstallFile(f) PROVE Goal
    BY <1>5 DEF InstallFile, Loops, Removals
<1>6. ASSUME NEW f \in archive, SkipFile(f) PROVE Goal
    BY <1>6 DEF SkipFile, Loops, Removals
<1>7. CASE UnpackFail
    BY <1>7 DEF UnpackFail, Loops, Removals
<1>8. CASE UnpackDone
    BY <1>8, SMTT(60) DEF UnpackDone, Loops, Removals, EntsOf
<1>9. ASSUME NEW e \in todo, MigrateFile(e) PROVE Goal
    BY <1>9, SMTT(60) DEF MigrateFile, Loops, Removals, EntsOf
<1>10. ASSUME NEW e \in todo, PurgeFile(e) PROVE Goal
    BY <1>10 DEF PurgeFile, Forget, Loops, Removals, Unaudited, EntsOf
<1>11. CASE MigrateDone
    BY <1>0, <1>11, SMTT(60) DEF MigrateDone, memory, ThenPurgeOld, Loops, Removals, Unaudited, EntsOf
<1>12. CASE PurgeDone
    BY <1>12, SMTT(60) DEF PurgeDone, Loops, Removals
<1>13. CASE Finish
    BY <1>13, SMTT(60) DEF Finish, Loops, Removals
<1>14. CASE RunTriggers
    BY <1>14 DEF RunTriggers, Loops, Removals
<1>15. CASE WriteConfig
    BY <1>15, SMTT(60) DEF WriteConfig, Loops, Removals
<1>16. CASE UserEdit
    BY <1>16 DEF UserEdit, memory, control, Loops, Removals, Unaudited, EntsOf
<1>17. CASE Kill
    BY <1>17 DEF Kill, Loops, Removals
<1> HIDE DEF Goal
<1> QED
    BY <1>1, <1>2, <1>3, <1>4, <1>5, <1>6, <1>7, <1>8, <1>9, <1>10, <1>11, <1>12, <1>13,
       <1>14, <1>15, <1>16, <1>17, SMTT(60) DEF Next, Step, NullOwner, Close, Crash, Goal

(* A step that touches neither the hash nor the lists keeps Ownership.      *)
LEMMA OwnershipFrame ==
    ASSUME Ownership, UNCHANGED <<hash, ents, audited, removing>>, ipkg \subseteq ipkg', failed => failed',
           \A e \in ents : \/ Pending(e[1]) => Pending(e[1])' \/ (pc' = "migrate" /\ e \in todo')
                           \/ hash[e[2]] = e,
           \A e \in ents : pc = "migrate" /\ e \in todo => pc' = "migrate" /\ e \in todo'
    PROVE  Ownership'
<1>1. HashByPath' /\ ListsInstalled' /\ HashListed' /\ DisownedStays'
    BY DEF Ownership, HashByPath, ListsInstalled, HashListed, DisownedStays
<1>2. UnauditedOwned'
    BY DEF Ownership, UnauditedOwned
<1> QED
    BY <1>1, <1>2 DEF Ownership

(* ... in particular one that is taken while nothing is being migrated.     *)
LEMMA OwnershipIdle ==
    ASSUME Ownership, UNCHANGED <<hash, ents, audited, removing>>, ipkg \subseteq ipkg', failed => failed',
           pc # "unpack", pc = "migrate" => todo = {}
    PROVE  Ownership'
<1>1. \A e \in ents : ~Pending(e[1])
    BY DEF Pending
<1>2. \A e \in ents : ~(pc = "migrate" /\ e \in todo)
    OBVIOUS
<1>3. HashByPath' /\ ListsInstalled' /\ HashListed' /\ DisownedStays'
    BY DEF Ownership, HashByPath, ListsInstalled, HashListed, DisownedStays
<1>4. UnauditedOwned'
    BY <1>1, <1>2 DEF Ownership, UnauditedOwned
<1> QED
    BY <1>3, <1>4, SMTT(60) DEF Ownership

(* Installing a file: the new entry is on the new package's list, and the   *)
(* hash is not touched before the file is migrated.                         *)
LEMMA OwnershipInstall ==
    ASSUME TypeOK, ChangeOK, Loops, Ownership, NEW f \in archive, InstallFile(f)
    PROVE  Ownership'
<1> DEFINE e == EntryFor(f)
<1>1. /\ pc = "unpack" /\ UNCHANGED <<ipkg, hash, pc, cur, removing, failed>>
      /\ ents' = ents \cup {e} /\ audited' \subseteq audited /\ audited \subseteq audited' \cup {e}
    BY DEF InstallFile
<1>2. e[1] = cur.new /\ cur.new \in ipkg
    BY <1>1, EntryForType DEF Loops
<1> HIDE DEF e
<1>3. HashByPath' /\ ListsInstalled' /\ HashListed' /\ DisownedStays'
    BY <1>1, <1>2 DEF Ownership, HashByPath, ListsInstalled, HashListed, DisownedStays
<1>4. UnauditedOwned'
    BY <1>1, <1>2 DEF Ownership, UnauditedOwned, Pending
<1> QED
    BY <1>3, <1>4, SMTT(60) DEF Ownership

(* A failed unpacking: the lists lose every entry of the new package.       *)
LEMMA OwnershipUnpackFail ==
    ASSUME TypeOK, ChangeOK, Ownership, UnpackFail
    PROVE  Ownership'
<1>1. /\ pc = "unpack" /\ UNCHANGED <<hash, removing>> /\ failed' = TRUE /\ pc' = "ready"
      /\ ipkg' = ipkg \ {cur.new} /\ ents' = ents \ EntsOf(cur.new)
      /\ audited' = audited \ EntsOf(cur.new)
    BY DEF UnpackFail, Forget
<1>2. HashByPath' /\ ListsInstalled' /\ HashListed' /\ DisownedStays'
    BY <1>1 DEF Ownership, HashByPath, ListsInstalled, HashListed, DisownedStays, EntsOf
<1>3. UnauditedOwned'
    BY <1>1 DEF Ownership, UnauditedOwned, Pending, EntsOf
<1> QED
    BY <1>2, <1>3, SMTT(60) DEF Ownership

(* Migrating a file: the entry that owned the path before is disowned.      *)
LEMMA OwnershipMigrate ==
    ASSUME TypeOK, ChangeOK, Loops, Removals, Ownership, NEW e \in todo, MigrateFile(e)
    PROVE  Ownership'
<1>1. /\ pc = "migrate" /\ UNCHANGED <<ipkg, ents, pc, cur, removing, failed>>
      /\ todo' = todo \ {e}
      /\ hash' = [hash EXCEPT ![e[2]] = e]
      /\ audited' = IF hash[e[2]] \in Entry \ {e} THEN audited \cup {hash[e[2]]} ELSE audited
    BY DEF MigrateFile, Claim
<1>2. /\ hash \in [Path -> Entry \cup {NoEntry, OverlayEntry}] /\ ents \subseteq Entry
      /\ audited \subseteq Entry
    BY DEF TypeOK, MemoryTypeOK
<1>3. e \in ents /\ e[1] = cur.new /\ cur.new \notin removing
    BY <1>1 DEF Loops, Removals, EntsOf
<1>4. e \in Entry /\ e[2] \in Path
    BY <1>2, <1>3, EntryParts
<1>5. \A g \in Path : hash'[g] = IF g = e[2] THEN e ELSE hash[g]
    BY <1>1, <1>2, <1>4
<1>6. HashByPath' /\ ListsInstalled' /\ HashListed'
    BY <1>1, <1>3, <1>5 DEF Ownership, HashByPath, ListsInstalled, HashListed
<1>7. DisownedStays'
    <2> SUFFICES ASSUME NEW g \in Path, hash'[g] \in audited' PROVE hash'[g][1] \notin removing
        BY <1>1 DEF DisownedStays
    <2>1. CASE g = e[2]
        BY <1>3, <1>5, <2>1
    <2>2. CASE g # e[2]
        <3>1. hash'[g] = hash[g] /\ hash[g] \in Entry /\ hash[g][2] = g
            BY <1>1, <1>2, <1>5, <2>2 DEF Ownership, HashByPath
        <3>2. hash[g] # hash[e[2]] \/ hash[e[2]] \notin Entry
            BY <1>4, <2>2, <3>1 DEF Ownership, HashByPath
        <3>3. hash[g] \in audited
            BY <1>1, <3>1, <3>2
        <3> QED
            BY <3>1, <3>3 DEF Ownership, DisownedStays
    <2> QED
        BY <2>1, <2>2
<1>8. UnauditedOwned'
    <2> SUFFICES ASSUME NEW d \in ents \ audited'
                 PROVE  hash'[d[2]] = d \/ d \in todo'
        BY <1>1 DEF UnauditedOwned
    <2>1. d \in Entry /\ d[2] \in Path /\ d \notin audited
        BY <1>1, <1>2, EntryParts
    <2>2. hash[d[2]] = d \/ d \in todo
        BY <1>1, <2>1 DEF Ownership, UnauditedOwned, Pending
    <2>3. CASE d = e
        BY <1>4, <1>5, <2>3
    <2>4. CASE d # e
        BY <1>1, <1>5, <2>1, <2>2, <2>4
    <2> QED
        BY <2>3, <2>4
<1> QED
    BY <1>6, <1>7, <1>8, SMTT(60) DEF Ownership

(* Purging a file: the entry is the one in the hash, so that no other       *)
(* package loses a path.                                                    *)
LEMMA OwnershipPurge ==
    ASSUME TypeOK, ChangeOK, Loops, Ownership, NEW e \in todo, PurgeFile(e)
    PROVE  Ownership' /\ hash[e[2]] = e /\ e \in Entry
<1>1. /\ pc = "purge" /\ UNCHANGED <<ipkg, pc, cur, removing, failed>>
      /\ hash' = [hash EXCEPT ![e[2]] = NoEntry]
      /\ ents' = ents \ {e} /\ audited' = audited \ {e}
    BY DEF PurgeFile, Forget
<1>2. hash \in [Path -> Entry \cup {NoEntry, OverlayEntry}] /\ ents \subseteq Entry
    BY SMTT(60) DEF TypeOK, MemoryTypeOK
<1>3. e \in ents \ audited
    BY <1>1, ZenonT(60) DEF Loops, Unaudited, EntsOf
<1>4. e \in Entry /\ e[2] \in Path /\ hash[e[2]] = e
    BY <1>1, <1>2, <1>3, EntryParts DEF Ownership, UnauditedOwned, Pending
<1>5. \A g \in Path : hash'[g] = IF g = e[2] THEN NoEntry ELSE hash[g]
    BY <1>1, <1>2, <1>4
<1>6. NoEntry \notin Entry
    BY DistinctAssumption
<1>7. HashByPath' /\ ListsInstalled'
    BY <1>1, <1>5, <1>6 DEF Ownership, HashByPath, ListsInstalled
<1>8. HashListed' /\ DisownedStays'
    <2>1. \A g \in Path : g # e[2] /\ hash[g] \in Entry => hash[g] # e
        BY <1>4 DEF Ownership, HashByPath
    <2>2. audited \subseteq Entry
        BY DEF TypeOK, MemoryTypeOK
    <2> QED
        BY <1>1, <1>5, <1>6, <2>1, <2>2 DEF Ownership, HashListed, DisownedStays
<1>9. UnauditedOwned'
    <2> SUFFICES ASSUME NEW d \in (ents \ {e}) \ audited PROVE hash'[d[2]] = d
        BY <1>1 DEF UnauditedOwned
    <2>1. d[2] \in Path /\ hash[d[2]] = d
        BY <1>1, <1>2, EntryParts DEF Ownership, UnauditedOwned, Pending
    <2> QED
        BY <1>4, <1>5, <2>1
<1> QED
    BY <1>4, <1>7, <1>8, <1>9, SMTT(60) DEF Ownership

(* The end of a purge: what is still on the old package's list was taken    *)
(* over by others, and the hash refers to none of it.                       *)
LEMMA OwnershipPurgeDone ==
    ASSUME TypeOK, ChangeOK, Loops, Removals, Ownership, PurgeDone
    PROVE  Ownership'
<1>1. /\ pc = "purge" /\ todo = {} /\ pc' \in {"ready", "finish"}
      /\ UNCHANGED <<hash, removing, failed>>
      /\ ipkg' = ipkg \ {cur.old}
      /\ ents' = ents \ EntsOf(cur.old) /\ audited' = audited \ EntsOf(cur.old)
    BY DEF PurgeDone, Forget
<1>2. cur.old \in removing /\ EntsOf(cur.old) \subseteq audited
    BY <1>1 DEF Loops, Removals, ChangeOK, Unaudited
<1>3. HashByPath' /\ ListsInstalled' /\ DisownedStays'
    BY <1>1 DEF Ownership, HashByPath, ListsInstalled, DisownedStays, EntsOf
<1>4. HashListed'
    BY <1>1, <1>2 DEF Ownership, HashListed, DisownedStays, EntsOf
<1>5. UnauditedOwned'
    BY <1>1 DEF Ownership, UnauditedOwned, Pending
<1> QED
    BY <1>3, <1>4, <1>5, SMTT(60) DEF Ownership

(* Reading the database: every list is built from the hash.                 *)
LEMMA OwnershipOpen == TypeOK /\ Open => Ownership'
<1> SUFFICES ASSUME TypeOK, Open PROVE Ownership'
    OBVIOUS
<1>1. /\ pc' = "ready" /\ audited' = {} /\ ipkg' = saved.pkgs
      /\ hash' = [f \in Path |-> LoadedEntry(f)]
      /\ ents' = {e \in Entry : e = LoadedEntry(e[2])}
    BY SMTT(60) DEF Open
<1>2. \A f \in Path : LoadedEntry(f) \in Entry =>
                        LoadedEntry(f)[1] \in saved.pkgs /\ LoadedEntry(f)[2] = f
    BY LoadedType
<1>3. HashByPath' /\ DisownedStays'
    BY <1>1, <1>2 DEF HashByPath, DisownedStays
<1>4. ListsInstalled'
    BY <1>1, <1>2, EntryParts DEF ListsInstalled
<1>5. HashListed'
    BY <1>1, <1>2 DEF HashListed
<1>6. UnauditedOwned'
    BY <1>1, EntryParts DEF UnauditedOwned
<1> QED
    BY <1>3, <1>4, <1>5, <1>6, SMTT(60) DEF Ownership

(* The end of a process forgets every owner.                                *)
LEMMA OwnershipKill == Kill => Ownership'
<1> SUFFICES ASSUME Kill PROVE Ownership'
    OBVIOUS
<1>1. ents' = {} /\ audited' = {} /\ hash' = [f \in Path |-> NoEntry]
    BY SMTT(60) DEF Kill, NoMemory
<1> QED
    BY <1>1, DistinctAssumption
    DEF Ownership, HashByPath, ListsInstalled, HashListed, DisownedStays, UnauditedOwned

(* Every step keeps Ownership.                                              *)
LEMMA OwnershipStep ==
    ASSUME TypeOK, ChangeOK, Loops, Removals, Ownership, Next
    PROVE  Ownership'
<1> DEFINE Same == UNCHANGED <<hash, ents, audited, removing>> /\ ipkg \subseteq ipkg' /\ (failed => failed')
<1>1. CASE Open
    BY <1>1, OwnershipOpen, ZenonT(60)
<1>2. ASSUME NEW c \in changes, StartRemove(c) PROVE Ownership'
    <2>1. Same /\ pc = "ready"
        BY <1>2 DEF StartRemove, memory
    <2> QED
        BY <2>1, OwnershipIdle
<1>3. ASSUME NEW c \in changes, StartInstall(c) PROVE Ownership'
    <2>1. Same /\ pc = "ready"
        BY <1>3 DEF StartInstall
    <2> QED
        BY <2>1, OwnershipIdle
<1>4. ASSUME NEW c \in changes, KeepPackage(c) PROVE Ownership'
    <2>1. Same /\ pc = "ready"
        BY <1>4, Zenon DEF KeepPackage
    <2> QED
        BY <2>1, OwnershipIdle
<1>5. ASSUME NEW f \in archive, InstallFile(f) PROVE Ownership'
    BY <1>5, OwnershipInstall, SMTT(60)
<1>6. ASSUME NEW f \in archive, SkipFile(f) PROVE Ownership'
    <2>1. Same /\ UNCHANGED <<pc, cur, todo>>
        BY <1>6 DEF SkipFile
    <2> QED
        BY <2>1, OwnershipFrame DEF Pending
<1>7. CASE UnpackFail
    BY <1>7, OwnershipUnpackFail
<1>8. CASE UnpackDone
    <2>1. Same /\ pc = "unpack" /\ pc' = "migrate" /\ todo' = EntsOf(cur.new)
        BY <1>8 DEF UnpackDone
    <2>2. \A e \in ents : Pending(e[1]) => pc' = "migrate" /\ e \in todo'
        BY <2>1 DEF Pending, EntsOf
    <2>3. \A e \in ents : pc = "migrate" /\ e \in todo => pc' = "migrate" /\ e \in todo'
        BY <2>1
    <2> QED
        BY <2>1, <2>2, <2>3, OwnershipFrame
<1>9. ASSUME NEW e \in todo, MigrateFile(e) PROVE Ownership'
    BY <1>9, OwnershipMigrate, SMTT(60)
<1>10. ASSUME NEW e \in todo, PurgeFile(e) PROVE Ownership'
    BY <1>10, OwnershipPurge, SMTT(60)
<1>11. CASE MigrateDone
    <2>1. Same /\ pc = "migrate" /\ todo = {}
        BY <1>11 DEF MigrateDone, memory
    <2> QED
        BY <2>1, OwnershipIdle
<1>12. CASE PurgeDone
    BY <1>12, OwnershipPurgeDone, SMTT(60)
<1>13. CASE Finish
    <2>1. Same /\ pc = "finish"
        BY <1>13, Zenon DEF Finish
    <2> QED
        BY <2>1, OwnershipIdle
<1>14. CASE RunTriggers
    <2>1. Same /\ pc = "ready"
        BY <1>14, Zenon DEF RunTriggers
    <2> QED
        BY <2>1, OwnershipIdle
<1>15. CASE WriteConfig
    <2>1. Same /\ pc = "write"
        BY <1>15 DEF WriteConfig, memory
    <2> QED
        BY <2>1, OwnershipIdle
<1>16. CASE UserEdit
    <2>1. Same /\ UNCHANGED <<pc, cur, todo>>
        BY <1>16 DEF UserEdit, memory, control
    <2> QED
        BY <2>1, OwnershipFrame DEF Pending
<1>17. CASE Kill
    BY <1>17, OwnershipKill
<1> HIDE DEF Same
<1> QED
    BY <1>1, <1>2, <1>3, <1>4, <1>5, <1>6, <1>7, <1>8, <1>9, <1>10, <1>11, <1>12, <1>13,
       <1>14, <1>15, <1>16, <1>17, ZenonT(60) DEF Next, Step, NullOwner, Close, Crash

(* Every step keeps the file count exact.  Migrating counts a path that     *)
(* nobody owned; purging uncounts one that is owned.                        *)
LEMMA CountStep ==
    ASSUME TypeOK, ChangeOK, Loops, Removals, Ownership, FileCountExact, Next
    PROVE  FileCountExact'
<1> DEFINE Owned == {f \in Path : hash[f] # NoEntry}
<1>1. /\ IsFiniteSet(Owned) /\ nfiles = Cardinality(Owned)
      /\ hash \in [Path -> Entry \cup {NoEntry, OverlayEntry}]
    <2>1. IsFiniteSet(Owned)
        BY FiniteAssumption, FS_Subset
    <2> QED
        BY <2>1 DEF FileCountExact, TypeOK, MemoryTypeOK
<1>2. ASSUME UNCHANGED <<hash, nfiles>> PROVE FileCountExact'
    BY <1>2 DEF FileCountExact
<1>3. CASE Open
    <2>1. hash' = [f \in Path |-> LoadedEntry(f)]
          /\ nfiles' = Cardinality({f \in Path : LoadedEntry(f) # NoEntry})
        BY <1>3 DEF Open
    <2>2. {f \in Path : hash'[f] # NoEntry} = {f \in Path : LoadedEntry(f) # NoEntry}
        BY <2>1
    <2> QED
        BY <2>1, <2>2, SMTT(60) DEF FileCountExact
<1>4. ASSUME NEW e \in todo, MigrateFile(e) PROVE FileCountExact'
    <2>1. /\ hash' = [hash EXCEPT ![e[2]] = e]
          /\ nfiles' = IF hash[e[2]] = NoEntry THEN nfiles + 1 ELSE nfiles
        BY <1>4 DEF MigrateFile, Claim
    <2>2. e \in Entry /\ e[2] \in Path /\ e # NoEntry
        BY EntryParts, DistinctAssumption DEF TypeOK, ControlTypeOK
    <2>3. {f \in Path : hash'[f] # NoEntry} = Owned \cup {e[2]}
        BY <1>1, <2>1, <2>2, SMTT(60)
    <2>4. Cardinality(Owned \cup {e[2]}) = IF e[2] \in Owned THEN nfiles ELSE nfiles + 1
        <3> HIDE DEF Owned
        <3> QED  BY <1>1, FS_AddElement, SMTT(60)
    <2> QED
        BY <2>1, <2>2, <2>3, <2>4, SMTT(60) DEF FileCountExact
<1>5. ASSUME NEW e \in todo, PurgeFile(e) PROVE FileCountExact'
    <2>1. hash' = [hash EXCEPT ![e[2]] = NoEntry] /\ nfiles' = nfiles - 1
        BY <1>5 DEF PurgeFile
    <2>2. e \in Entry /\ e[2] \in Path /\ hash[e[2]] = e /\ e # NoEntry
        BY <1>5, OwnershipPurge, EntryParts, DistinctAssumption
    <2>3. {f \in Path : hash'[f] # NoEntry} = Owned \ {e[2]} /\ e[2] \in Owned
        BY <1>1, <2>1, <2>2
    <2>4. Cardinality(Owned \ {e[2]}) = nfiles - 1
        <3> HIDE DEF Owned
        <3> QED  BY <1>1, <2>3, FS_RemoveElement, ZenonT(60)
    <2> QED
        BY <2>1, <2>3, <2>4 DEF FileCountExact
<1>6. CASE Kill
    <2>1. {f \in Path : hash'[f] # NoEntry} = {} /\ nfiles' = 0
        BY <1>6 DEF Kill, NoMemory
    <2> QED
        BY <2>1, FS_EmptySet DEF FileCountExact
<1>7. Next => \/ Open \/ Kill \/ UNCHANGED <<hash, nfiles>>
              \/ \E e \in todo : MigrateFile(e) \/ PurgeFile(e)
    BY Zenon DEF Next, Step, StartRemove, StartInstall, KeepPackage, InstallFile, SkipFile, NullOwner,
           UnpackFail, UnpackDone, MigrateDone, PurgeDone, Finish, RunTriggers, WriteConfig,
           Close, Crash, UserEdit, memory
<1> QED
    BY <1>2, <1>3, <1>4, <1>5, <1>6, <1>7

(* Inv is inductive.                                                        *)
LEMMA InvInductive == (Init => Inv) /\ (Inv /\ [Next]_vars => Inv')
<1>1. ASSUME Init PROVE Inv
    <2>1. TypeOK /\ ChangeOK
        BY <1>1, TypeInit, SMTT(60)
    <2>2. Loops /\ Removals
        BY <1>1 DEF Init, Loops, Removals
    <2>3. Ownership
        BY <1>1, DistinctAssumption
        DEF Init, Ownership, HashByPath, ListsInstalled, HashListed, DisownedStays, UnauditedOwned
    <2>4. FileCountExact
        <3>1. {f \in Path : hash[f] # NoEntry} = {} /\ nfiles = 0
            BY <1>1 DEF Init
        <3> QED
            BY <3>1, FS_EmptySet DEF FileCountExact
    <2> QED
        BY <2>1, <2>2, <2>3, <2>4 DEF Inv
<1>2. ASSUME Inv, Next PROVE Inv'
    <2>1. TypeOK /\ ChangeOK /\ Loops /\ Removals /\ Ownership /\ FileCountExact
        BY <1>2 DEF Inv
    <2> QED
        BY <1>2, <2>1, TypeStep, LoopsStep, OwnershipStep, CountStep DEF Inv
<1>3. ASSUME Inv, UNCHANGED vars PROVE Inv'
    <2>1. UNCHANGED <<memory, saved, control>> /\ UNCHANGED memory /\ UNCHANGED control
        BY <1>3 DEF vars
    <2>2. TypeOK' /\ ChangeOK'
        BY <1>3, TypeStep, SMTT(60) DEF Inv
    <2>3. UNCHANGED <<pc, cur, changes, removing, todo, failed, ipkg, ents, audited, hash>>
        BY <2>1 DEF memory, control
    <2>4. Loops' /\ Removals'
        <3>1. Loops /\ Removals
            BY <1>3 DEF Inv
        <3> QED
            BY <2>3, <3>1 DEF Loops, Removals, Unaudited, EntsOf
    <2>5. Ownership'
        <3>1. Ownership
            BY <1>3 DEF Inv
        <3> QED
            BY <2>3, <3>1, OwnershipFrame DEF Pending
    <2>6. FileCountExact'
        BY <1>3, <2>1 DEF Inv, FileCountExact, memory
    <2> QED
        BY <2>2, <2>4, <2>5, <2>6 DEF Inv
<1> QED
    BY <1>1, <1>2, <1>3

(* An entry that nobody took over is the one in the hash, so that           *)
(* apk_db_purge_pkg only ever drops the ownership of the package it purges. *)
THEOREM PurgeOwnsWhatItDrops == Spec => []UnauditedOwned
<1>1. Inv => UnauditedOwned
    BY DEF Inv, Ownership
<1> QED
    BY <1>1, InvInductive, PTL DEF Spec

(* Until an error is met, every owner in the hash is an installed package   *)
(* whose list has the file: apk_pkg_replaces_file finds its ipkg.           *)
THEOREM OwnersAreInstalled == Spec => []NoDanglingOwner
<1>1. Inv => NoDanglingOwner
    BY DEF Inv, Ownership, HashListed, ListsInstalled, NoDanglingOwner
<1> QED
    BY <1>1, InvInductive, PTL DEF Spec

(* The file count is the number of owned paths.                             *)
THEOREM FileCountIsExact == Spec => []FileCountExact
<1>1. Inv => FileCountExact
    BY DEF Inv
<1> QED
    BY <1>1, InvInductive, PTL DEF Spec

(* A step of a purge changes the owner of no path but the ones the purged   *)
(* package owns: the hash keeps every other entry.                          *)
THEOREM PurgeKeepsOtherOwners ==
    Spec => [][pc = "purge" /\ pc' # "closed" =>
                 \A f \in Path : hash[f] # NoEntry /\ Owner(f) # cur.old => hash'[f] = hash[f]]_vars
<1> DEFINE Keeps == pc = "purge" /\ pc' # "closed" =>
                 \A f \in Path : hash[f] # NoEntry /\ Owner(f) # cur.old => hash'[f] = hash[f]
<1>1. ASSUME Inv, Next, pc = "purge", pc' # "closed", NEW f \in Path, Owner(f) # cur.old
      PROVE  hash'[f] = hash[f]
    <2>1. ASSUME NEW e \in todo, PurgeFile(e) PROVE hash'[f] = hash[f]
        <3>1. hash[e[2]] = e /\ e \in Entry /\ e[2] \in Path
            BY <1>1, <2>1, OwnershipPurge, EntryParts, ZenonT(60) DEF Inv
        <3>2. e[1] = cur.old
            BY <1>1, <2>1 DEF Inv, Loops, Unaudited, EntsOf
        <3>3. f # e[2]
            BY <1>1, <3>1, <3>2 DEF Owner
        <3>4. hash \in [Path -> Entry \cup {NoEntry, OverlayEntry}]
            BY <1>1, SMTT(60) DEF Inv, TypeOK, MemoryTypeOK
        <3> QED
            BY <2>1, <3>3, <3>4, ZenonT(60) DEF PurgeFile
    <2>2. Next => \/ hash' = hash \/ pc' = "closed" \/ pc # "purge"
                  \/ \E e \in todo : PurgeFile(e)
        BY Zenon DEF Next, Step, Open, StartRemove, StartInstall, KeepPackage, InstallFile, SkipFile,
               NullOwner, UnpackFail, UnpackDone, MigrateFile, MigrateDone, PurgeDone, Finish,
               RunTriggers, WriteConfig, Close, Crash, Kill, UserEdit, memory
    <2> QED
        BY <1>1, <2>1, <2>2, SMTT(60)
<1>2. Inv /\ [Next]_vars => [Keeps]_vars
    BY <1>1
<1> QED
    BY <1>2, InvInductive, PTL DEF Spec
=============================================================================
