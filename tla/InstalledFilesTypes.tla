------------------------ MODULE InstalledFilesTypes -------------------------
(***************************************************************************)
(* Type correctness of InstalledFiles, for every set of packages, paths and *)
(* locations and every combination of faults and options.                  *)
(***************************************************************************)
EXTENDS InstalledFiles, FiniteSetTheorems, TLAPS

-----------------------------------------------------------------------------
(* Least and Greatest pick packages of the set they are given *)

(* A nonempty set of natural numbers has a least element.                   *)
LEMMA LeastNatural ==
    ASSUME NEW T \in SUBSET Nat, T # {}
    PROVE  \E m \in T : \A k \in T : m <= k
<1> DEFINE R == {ss \in Nat \X Nat : ss[1] < ss[2]}
<1>1. IsWellFoundedOn(R, Nat)
    BY NatLessThanWellFounded DEF OpToRel
<1>2. \E m \in T : \A k \in T : ~(<<k, m>> \in R)
    <2> HIDE DEF R
    <2> QED  BY <1>1, WFMin, Zenon
<1>3. PICK m \in T : \A k \in T : ~(<<k, m>> \in R)
    BY <1>2
<1>4. \A k \in T : m <= k
    <2> TAKE k \in T
    <2>1. k \in Nat /\ m \in Nat
        OBVIOUS
    <2>2. ~(k < m)
        BY <2>1, <1>3, Zenon
    <2> QED
        BY <2>1, <2>2
<1> QED
    BY <1>4

(* The first and the last package of a nonempty set in the order in which   *)
(* apk_db_fdb_write writes packages exist.                                  *)
LEMMA LeastGreatest ==
    ASSUME NEW S \in SUBSET Pkg, S # {}
    PROVE  Least(S) \in S /\ Greatest(S) \in S
<1> DEFINE n == Cardinality(Pkg)
<1>1. n \in Nat /\ Order \in [Pkg -> 1..n]
    BY FS_CardinalityType, FiniteAssumption, ConstantsAssumption
<1> HIDE DEF n
<1>2. \E p \in S : \A q \in S : Order[p] <= Order[q]
    <2> DEFINE T == {Order[p] : p \in S}
    <2>1. T \in SUBSET Nat /\ T # {}
        BY <1>1
    <2>2. PICK m \in T : \A k \in T : m <= k
        <3> HIDE DEF T
        <3> QED  BY <2>1, LeastNatural
    <2> QED
        BY <2>2
<1>3. \E p \in S : \A q \in S : Order[q] <= Order[p]
    <2> DEFINE T == {n - Order[p] : p \in S}
    <2>1. T \in SUBSET Nat /\ T # {}
        BY <1>1
    <2>2. PICK m \in T : \A k \in T : m <= k
        <3> HIDE DEF T
        <3> QED  BY <2>1, LeastNatural
    <2>3. PICK p \in S : m = n - Order[p]
        BY <2>2
    <2>4. \A q \in S : n - Order[p] <= n - Order[q]
        BY <2>2, <2>3
    <2> QED
        BY <2>4, <1>1
<1> QED
    BY <1>2, <1>3 DEF Least, Greatest

-----------------------------------------------------------------------------
(* Type correctness *)

(* The change being made has the package that the step at hand works on:    *)
(* apk_db_install_pkg never dereferences a null oldpkg or newpkg.           *)
ChangeOK ==
    /\ \A c \in changes : c.old # None \/ c.new # None
    /\ pc \in {"unpack", "migrate", "finish"} => cur.new # None
    /\ pc = "purge" => cur.old # None
    /\ pc = "unpack" => archive \subseteq Shipped(cur.new)

(* The components of an entry.                                              *)
LEMMA EntryParts ==
    /\ \A e \in Entry : e[1] \in Pkg /\ e[2] \in Path
    /\ \A p \in Pkg, f \in Path, k \in {1, 2} :
          <<p, f, k>> \in Entry /\ <<p, f, k>>[1] = p /\ <<p, f, k>>[2] = f
BY DEF Entry

(* What the database gives back when it is read is well typed.              *)
LEMMA LoadedType ==
    ASSUME TypeOK
    PROVE  /\ \A f \in Path : /\ LoadedEntry(f) \in Entry \cup {NoEntry, OverlayEntry}
                              /\ LoadedDigest(f) \in Digest \cup {NoDigest}
                              /\ LoadedEntry(f) \in Entry =>
                                   LoadedEntry(f)[1] \in saved.pkgs /\ LoadedEntry(f)[2] = f
           /\ saved.pkgs \subseteq Pkg /\ saved.broken \subseteq Pkg
<1>1. saved.pkgs \subseteq Pkg /\ saved.broken \subseteq Pkg
      /\ saved.digest \in [Pkg -> [Path -> Digest \cup {NoDigest}]]
    BY DEF TypeOK, SavedDb
<1>2. ASSUME NEW f \in Path
      PROVE  /\ LoadedEntry(f) \in Entry \cup {NoEntry, OverlayEntry}
             /\ LoadedEntry(f) \in Entry => LoadedEntry(f)[1] \in saved.pkgs /\ LoadedEntry(f)[2] = f
    <2>1. Listing(f) \in SUBSET Pkg /\ Listing(f) \subseteq saved.pkgs
        BY <1>1 DEF Listing
    <2>2. Listing(f) # {} => Least(Listing(f)) \in Listing(f)
        BY <2>1, LeastGreatest
    <2> QED
        BY <2>1, <2>2, EntryParts, DistinctAssumption, Zenon DEF LoadedEntry
<1>3. ASSUME NEW f \in Path
      PROVE  LoadedDigest(f) \in Digest \cup {NoDigest}
    <2> DEFINE withDigest == {p \in Listing(f) : saved.digest[p][f] # NoDigest}
    <2>1. withDigest \in SUBSET Pkg
        BY <1>1 DEF Listing
    <2>2. withDigest # {} => Greatest(withDigest) \in withDigest
        <3> HIDE DEF withDigest
        <3> QED  BY <2>1, LeastGreatest
    <2>3. withDigest # {} => saved.digest[Greatest(withDigest)][f] \in Digest \cup {NoDigest}
        <3> HIDE DEF withDigest
        <3> QED  BY <1>1, <2>1, <2>2
    <2> QED
        BY <2>3 DEF LoadedDigest
<1> QED
    BY <1>1, <1>2, <1>3

(* The changes of a changeset are well formed.                              *)
LEMMA ChangesType ==
    ASSUME TypeOK, NEW target \in [PkgName -> Pkg \cup {None}], NEW redo \in SUBSET PkgName
    PROVE  /\ ChangesFor(target, redo) \subseteq Change
           /\ \A c \in ChangesFor(target, redo) : c.old # None \/ c.new # None
<1>1. saved.pkgs \subseteq Pkg
    BY LoadedType
<1>2. \A n \in PkgName : InstalledAs(n) \in Pkg \cup {None}
    BY <1>1 DEF InstalledAs
<1> SUFFICES ASSUME NEW c \in ChangesFor(target, redo)
             PROVE  c \in Change /\ (c.old # None \/ c.new # None)
    OBVIOUS
<1>3. PICK n \in PkgName : c = [old |-> InstalledAs(n), new |-> target[n]]
    BY DEF ChangesFor
<1>4. c \in Change
    BY <1>2, <1>3 DEF Change
<1>5. c.old # c.new \/ c.new # None
    BY DEF ChangesFor
<1> QED
    BY <1>4, <1>5

(* A process that ends leaves no state in memory.                           *)
LEMMA KillType == TypeOK /\ Kill => TypeOK' /\ ChangeOK'
<1> SUFFICES ASSUME TypeOK, Kill PROVE TypeOK' /\ ChangeOK'
    OBVIOUS
<1>1. UNCHANGED <<disk, apknew, tmp, saved>>
    BY DEF Kill, storage
<1>2. cur' = Idle /\ Idle \in Change
    BY DEF Kill, Idle, Change
<1>3. digest' \in [Entry -> Digest \cup {NoDigest}]
      /\ hash' \in [Path -> Entry \cup {NoEntry, OverlayEntry}]
    BY DEF Kill, NoMemory
<1>4. MemoryTypeOK'
    BY <1>3 DEF MemoryTypeOK, Kill, NoMemory
<1>5. StorageTypeOK' /\ saved' \in SavedDb
    BY <1>1 DEF TypeOK, StorageTypeOK
<1>6. ControlTypeOK'
    BY <1>2, Zenon DEF ControlTypeOK, Kill, Steps
<1> QED
    BY <1>4, <1>5, <1>6 DEF TypeOK, ChangeOK, Kill

(* What typing says of the change at hand.                                  *)
LEMMA ChangeType ==
    ASSUME TypeOK, ChangeOK
    PROVE  /\ \A c \in changes : /\ c \in Change
                                 /\ c.old \in Pkg \cup {None} /\ c.new \in Pkg \cup {None}
                                 /\ c.old \in Pkg \/ c.new \in Pkg
           /\ cur.old \in Pkg \cup {None} /\ cur.new \in Pkg \cup {None}
           /\ pc \in {"unpack", "migrate", "finish"} => cur.new \in Pkg
           /\ pc = "purge" => cur.old \in Pkg
BY DEF TypeOK, ControlTypeOK, ChangeOK, Change

(* The entry that apk_db_install_file fills in belongs to the new package.  *)
LEMMA EntryForType ==
    ASSUME TypeOK, ChangeOK, pc = "unpack", NEW f \in archive
    PROVE  /\ f \in Path /\ cur.new \in Pkg
           /\ EntryFor(f) \in Entry /\ EntryFor(f)[1] = cur.new
           /\ Ships[cur.new][f] \in Digest
<1>1. f \in Path /\ cur.new \in Pkg
    BY ChangeType DEF TypeOK, ControlTypeOK
<1>2. Ships[cur.new][f] \in Digest
    BY <1>1, ConstantsAssumption DEF ChangeOK, Shipped
<1>3. EntryFor(f) \in Entry /\ EntryFor(f)[1] = cur.new
    <2> DEFINE k == IF <<cur.new, f, 1>> \in ents THEN 2 ELSE 1
    <2>1. k \in {1, 2}
        OBVIOUS
    <2>2. <<cur.new, f, k>> \in Entry /\ <<cur.new, f, k>>[1] = cur.new
        <3> HIDE DEF k
        <3> QED  BY <2>1, <1>1, EntryParts, Zenon
    <2>3. EntryFor(f) = IF OwnsPath(f) THEN hash[f] ELSE <<cur.new, f, k>>
        BY DEF EntryFor
    <2> HIDE DEF k
    <2> QED
        BY <2>2, <2>3 DEF OwnsPath
<1> QED
    BY <1>1, <1>2, <1>3

(* apk_db_open builds a well-typed database.                                *)
LEMMA OpenMemory == TypeOK /\ Open => MemoryTypeOK'
<1> SUFFICES ASSUME TypeOK, Open PROVE MemoryTypeOK'
    OBVIOUS
<1>1. hash' \in [Path -> Entry \cup {NoEntry, OverlayEntry}]
    <2>1. \A f \in Path : LoadedEntry(f) \in Entry \cup {NoEntry, OverlayEntry}
        BY LoadedType
    <2> QED
        BY <2>1 DEF Open
<1>2. digest' \in [Entry -> Digest \cup {NoDigest}]
    <2>1. \A f \in Path : LoadedDigest(f) \in Digest \cup {NoDigest}
        BY LoadedType
    <2>2. \A e \in Entry : LoadedDigest(e[2]) \in Digest \cup {NoDigest}
        BY <2>1, EntryParts
    <2> QED
        BY <2>2 DEF Open
<1>3. nfiles' \in Int
    <2>1. IsFiniteSet({f \in Path : LoadedEntry(f) # NoEntry})
        BY FS_Subset, FiniteAssumption
    <2> QED
        BY <2>1, FS_CardinalityType DEF Open
<1>4. /\ ipkg' \subseteq Pkg /\ broken' \subseteq Pkg /\ ents' \subseteq Entry
      /\ audited' \subseteq Entry /\ brokenEnt' \subseteq Entry
    BY LoadedType, SMTT(60) DEF Open
<1> QED
    BY <1>1, <1>2, <1>3, <1>4 DEF MemoryTypeOK

(* Every step of the memory of the process keeps its type.                  *)
LEMMA MemoryStep ==
    ASSUME TypeOK, ChangeOK, Next
    PROVE  MemoryTypeOK'
<1> USE EntryParts, ChangeType DEF TypeOK, MemoryTypeOK
<1>1. CASE Open
    BY <1>1, OpenMemory
<1>2. ASSUME NEW c \in changes, StartRemove(c) PROVE MemoryTypeOK'
    BY <1>2 DEF StartRemove, memory
<1>3. ASSUME NEW c \in changes, StartInstall(c) PROVE MemoryTypeOK'
    BY <1>3 DEF StartInstall
<1>4. ASSUME NEW c \in changes, KeepPackage(c) PROVE MemoryTypeOK'
    BY <1>4 DEF KeepPackage, MayBreak
<1>5. ASSUME NEW f \in archive, InstallFile(f) PROVE MemoryTypeOK'
    <2> DEFINE e == EntryFor(f)
    <2>1. pc = "unpack" /\ e \in Entry /\ f \in Path /\ cur.new \in Pkg
          /\ Ships[cur.new][f] \in Digest
        BY <1>5, EntryForType DEF InstallFile
    <2> HIDE DEF e
    <2>2. broken' \subseteq Pkg
        BY <1>5, <2>1 DEF InstallFile, MayBreak
    <2>3. digest' \in [Entry -> Digest \cup {NoDigest}]
        <3>1. digest[e] \in Digest \cup {NoDigest}
            BY <2>1
        <3>2. digest' = [digest EXCEPT ![e] = Ships[cur.new][f]]
              \/ digest' = [digest EXCEPT ![e] = IF ~OwnsPath(f) THEN NoDigest ELSE digest[e]]
            BY <1>5 DEF InstallFile, e
        <3> QED
            BY <2>1, <3>1, <3>2
    <2>4. ents' \subseteq Entry /\ audited' \subseteq Entry /\ brokenEnt' \subseteq Entry
        BY <1>5, <2>1 DEF InstallFile, e
    <2>5. UNCHANGED <<ipkg, hash, nfiles>>
        BY <1>5 DEF InstallFile
    <2> QED
        BY <2>2, <2>3, <2>4, <2>5
<1>6. ASSUME NEW f \in archive, SkipFile(f) PROVE MemoryTypeOK'
    BY <1>6 DEF SkipFile, Breaks
<1>7. CASE UnpackFail
    BY <1>7 DEF UnpackFail, Forget
<1>8. CASE UnpackDone
    BY <1>8 DEF UnpackDone, MayBreak
<1>9. ASSUME NEW e \in todo, MigrateFile(e) PROVE MemoryTypeOK'
    <2>1. e \in Entry /\ e[2] \in Path /\ cur.new \in Pkg
        BY <1>9 DEF MigrateFile, ControlTypeOK
    <2>2. broken' \subseteq Pkg
        BY <1>9, <2>1 DEF MigrateFile, Commit, ApkNew, Cancel, ControlFails, MayBreak
    <2>3. hash' \in [Path -> Entry \cup {NoEntry, OverlayEntry}]
          /\ audited' \subseteq Entry /\ nfiles' \in Int
        BY <1>9, <2>1 DEF MigrateFile, Claim
    <2>4. UNCHANGED <<ipkg, ents, brokenEnt, digest>>
        BY <1>9 DEF MigrateFile
    <2> QED
        BY <2>2, <2>3, <2>4
<1>10. ASSUME NEW e \in todo, PurgeFile(e) PROVE MemoryTypeOK'
    BY <1>10 DEF PurgeFile, Forget, ControlTypeOK
<1>11. CASE MigrateDone
    BY <1>11 DEF MigrateDone, memory
<1>12. CASE PurgeDone
    BY <1>12 DEF PurgeDone, Forget
<1>13. CASE Finish
    BY <1>13 DEF Finish, MayBreak
<1>14. CASE RunTriggers
    BY <1>14 DEF RunTriggers, ControlTypeOK
<1>15. CASE WriteConfig
    BY <1>15 DEF WriteConfig, memory
<1>16. CASE UserEdit
    BY <1>16 DEF UserEdit, memory
<1>17. CASE Kill
    BY <1>17, KillType
<1> QED
    BY <1>1, <1>2, <1>3, <1>4, <1>5, <1>6, <1>7, <1>8, <1>9, <1>10, <1>11, <1>12, <1>13,
       <1>14, <1>15, <1>16, <1>17, ZenonT(60) DEF Next, Step, NullOwner, Close, Crash

(* Temporary files come and go one at a time.                               *)
LEMMA TmpType ==
    ASSUME StorageTypeOK, NEW p \in Pkg, NEW f \in Path
    PROVE  /\ [tmp EXCEPT ![p] = @ \cup {f}] \in [Pkg -> SUBSET Path]
           /\ [tmp EXCEPT ![p] = @ \ {f}] \in [Pkg -> SUBSET Path]
BY DEF StorageTypeOK

(* Every step keeps the type of what is on disk.                            *)
LEMMA StorageStep ==
    ASSUME TypeOK, ChangeOK, Next
    PROVE  StorageTypeOK' /\ saved' \in SavedDb
<1>0. /\ StorageTypeOK /\ saved \in SavedDb /\ MemoryTypeOK
      /\ todo \subseteq Entry /\ archive \subseteq Path
    BY DEF TypeOK, ControlTypeOK
<1>1. ASSUME UNCHANGED <<disk, apknew, tmp, saved>> PROVE StorageTypeOK' /\ saved' \in SavedDb
    BY <1>0, <1>1 DEF StorageTypeOK
<1>2. ASSUME NEW f \in archive, InstallFile(f) PROVE StorageTypeOK' /\ saved' \in SavedDb
    <2>1. f \in Path /\ cur.new \in Pkg /\ UNCHANGED <<disk, apknew, saved>>
        BY <1>0, <1>2, ChangeType DEF InstallFile
    <2>2. tmp' = [tmp EXCEPT ![cur.new] = @ \cup {f}] \/ tmp' = [tmp EXCEPT ![cur.new] = @ \ {f}]
        BY <1>2 DEF InstallFile
    <2>3. tmp' \in [Pkg -> SUBSET Path]
        BY <1>0, <2>1, <2>2, TmpType
    <2> QED
        BY <1>0, <2>1, <2>3 DEF StorageTypeOK
<1>3. CASE UnpackFail
    BY <1>0, <1>3, ZenonT(60) DEF UnpackFail, StorageTypeOK
<1>4. ASSUME NEW e \in todo, MigrateFile(e) PROVE StorageTypeOK' /\ saved' \in SavedDb
    <2>1. e[2] \in Path /\ cur.new \in Pkg /\ UNCHANGED saved
        BY <1>0, <1>4, EntryParts, ChangeType DEF MigrateFile
    <2>2. Loc[e[2]] \in Location /\ Ships[cur.new][e[2]] \in Digest \cup {Absent}
        BY <2>1, ConstantsAssumption
    <2>3. tmp' \in {tmp, [tmp EXCEPT ![cur.new] = @ \ {e[2]}]}
        BY <1>4 DEF MigrateFile, Commit, ApkNew, Cancel, storage
    <2>4. tmp' \in [Pkg -> SUBSET Path]
        BY <1>0, <2>1, <2>3, TmpType, SMTT(60) DEF StorageTypeOK
    <2>5. apknew' \in {apknew, [apknew EXCEPT ![Loc[e[2]]] = Ships[cur.new][e[2]]]}
        BY <1>4 DEF MigrateFile, Commit, ApkNew, Cancel, storage
    <2>6. disk' \in {disk, [disk EXCEPT ![Loc[e[2]]] = Ships[cur.new][e[2]]]}
        BY <1>4 DEF MigrateFile, Commit, ApkNew, Cancel, storage
    <2> QED
        BY <1>0, <2>1, <2>2, <2>4, <2>5, <2>6 DEF StorageTypeOK
<1>5. ASSUME NEW e \in todo, PurgeFile(e) PROVE StorageTypeOK' /\ saved' \in SavedDb
    <2>1. e[2] \in Path /\ Loc[e[2]] \in Location
        BY <1>0, <1>5, EntryParts, ConstantsAssumption
    <2> QED
        BY <1>0, <1>5, <2>1 DEF PurgeFile, StorageTypeOK
<1>6. CASE WriteConfig
    <2>1. StorageTypeOK'
        BY <1>0, <1>6 DEF WriteConfig, storage, StorageTypeOK
    <2>2. ASSUME NEW last \in {1, 2} PROVE Written(last) \in SavedDb
        <3>1. ipkg \in SUBSET Pkg /\ broken \in SUBSET Pkg
            BY <1>0 DEF MemoryTypeOK
        <3>2. [p \in Pkg |-> {e[2] : e \in EntsOf(p)}] \in [Pkg -> SUBSET Path]
            BY <1>0, EntryParts DEF MemoryTypeOK, EntsOf
        <3>3. \A d \in ents : digest[d] \in Digest \cup {NoDigest}
            BY <1>0 DEF MemoryTypeOK
        <3> QED
            BY <3>1, <3>2, <3>3 DEF Written, SavedDb
    <2> QED
        BY <1>0, <1>6, <2>1, <2>2 DEF WriteConfig
<1>7. CASE UserEdit
    BY <1>0, <1>7, ConstantsAssumption, SMTT(60) DEF UserEdit, StorageTypeOK
<1>8. Next => \/ UNCHANGED <<disk, apknew, tmp, saved>>
              \/ \E f \in archive : InstallFile(f)
              \/ \E e \in todo : MigrateFile(e) \/ PurgeFile(e)
              \/ UnpackFail \/ WriteConfig \/ UserEdit
    BY ZenonT(60) DEF Next, Step, Open, StartRemove, StartInstall, KeepPackage, SkipFile, NullOwner,
           UnpackDone, MigrateDone, PurgeDone, Finish, RunTriggers, Close, Crash, Kill, storage
<1> QED
    BY <1>1, <1>2, <1>3, <1>4, <1>5, <1>6, <1>7, <1>8

(* apk_db_open leaves a well-typed control state and well-formed changes.   *)
LEMMA OpenControl ==
    ASSUME TypeOK, ChangeOK, Open
    PROVE  ControlTypeOK' /\ ChangeOK'
<1>1. PICK target \in [PkgName -> Pkg \cup {None}], redo \in SUBSET PkgName :
          changes' = ChangesFor(target, redo)
    BY Zenon DEF Open
<1>2. changes' \subseteq Change /\ \A c \in changes' : c.old # None \/ c.new # None
    BY <1>1, ChangesType, Zenon
<1>3. /\ pc' = "ready" /\ failed' = FALSE /\ done' = {} /\ flags' \in FlagSets
      /\ cur' = cur /\ archive' = archive /\ todo' = todo /\ fileids' = fileids
    BY DEF Open
<1>4. removing' = {c.old : c \in {d \in changes' : d.old # d.new}} \ {None}
    BY Zenon DEF Open
<1>5. removing' \subseteq Pkg
    <2>1. \A c \in changes' : c.old \in Pkg \cup {None}
        BY <1>2 DEF Change
    <2> QED
        BY <1>4, <2>1
<1>6. flags' \subseteq Option
    BY <1>3, ConstantsAssumption
<1>7. ControlTypeOK'
    BY <1>2, <1>3, <1>5, <1>6, Zenon DEF TypeOK, ControlTypeOK, Steps
<1>8. ChangeOK'
    BY <1>2, <1>3 DEF ChangeOK
<1> QED
    BY <1>7, <1>8

(* apk_db_install_pkg starts on a change of the changeset.                  *)
LEMMA StartControl ==
    ASSUME TypeOK, ChangeOK, NEW c \in changes, StartRemove(c) \/ StartInstall(c)
    PROVE  ControlTypeOK' /\ ChangeOK'
<1>1. /\ changes' = changes \ {c} /\ cur' = c
      /\ removing' = removing /\ done' = done /\ fileids' = fileids
      /\ failed' = failed /\ flags' = flags
    BY DEF StartRemove, StartInstall
<1>2. pc' \in {"unpack", "purge", "finish"} /\ todo' \in {todo, {}, Unaudited(c.old)}
    BY DEF StartRemove, StartInstall, ThenPurgeOld
<1>3. Unaudited(c.old) \subseteq Entry
    BY DEF TypeOK, MemoryTypeOK, Unaudited, EntsOf
<1>4. archive' \in {archive, Shipped(c.new)} /\ (pc' = "unpack" => archive' = Shipped(c.new))
    BY DEF StartRemove, StartInstall
<1>5. Shipped(c.new) \subseteq Path
    BY DEF Shipped
<1>6. pc' \in {"unpack", "finish"} => c.new # None
    BY DEF StartRemove, StartInstall
<1>7. pc' = "purge" => c.old # None
    <2>1. CASE StartRemove(c)
        BY <2>1 DEF StartRemove, ChangeOK
    <2>2. CASE StartInstall(c)
        <3>1. pc' = "purge" => c.old \in ipkg
            BY <2>2 DEF StartInstall, ThenPurgeOld
        <3>2. ipkg \subseteq Pkg
            BY DEF TypeOK, MemoryTypeOK
        <3> QED
            BY <3>1, <3>2, DistinctAssumption
    <2> QED
        BY <2>1, <2>2
<1>8. ControlTypeOK'
    BY <1>1, <1>2, <1>3, <1>4, <1>5, SMTT(60) DEF TypeOK, ControlTypeOK, Steps
<1>9. ChangeOK'
    BY <1>1, <1>2, <1>4, <1>6, <1>7 DEF ChangeOK
<1> QED
    BY <1>8, <1>9

(* The steps that stay with the change at hand or go on to its next phase.  *)
LEMMA PhaseControl ==
    ASSUME TypeOK, ChangeOK, cur' = cur, changes' \subseteq changes, removing' = removing, done' = done,
           archive' \subseteq archive, todo' \subseteq Entry, fileids' \subseteq Location,
           failed' \in BOOLEAN, flags' = flags, pc' \in Steps,
           pc' = "unpack" => pc = "unpack",
           pc' \in {"migrate", "finish"} => pc \in {"unpack", "migrate", "finish"} \/ cur.new # None,
           pc' = "purge" => pc = "purge" \/ cur.old # None
    PROVE  ControlTypeOK' /\ ChangeOK'
<1>1. ControlTypeOK'
    BY DEF TypeOK, ControlTypeOK
<1>2. ChangeOK'
    BY DEF ChangeOK
<1> QED
    BY <1>1, <1>2, SMTT(60)

(* A change is over: the loop over the changeset goes on.                   *)
LEMMA ReadyControl ==
    ASSUME TypeOK, ChangeOK, pc' = "ready", cur' = Idle, changes' = changes, removing' = removing,
           done' \subseteq Pkg, archive' \subseteq Path, todo' \subseteq Entry,
           fileids' \subseteq Location, failed' \in BOOLEAN, flags' = flags
    PROVE  ControlTypeOK' /\ ChangeOK'
<1>1. ControlTypeOK'
    BY DEF TypeOK, ControlTypeOK, Steps, Idle, Change
<1>2. ChangeOK'
    BY DEF ChangeOK
<1> QED
    BY <1>1, <1>2

(* Every step keeps the type of the control state, and the change at hand.  *)
LEMMA ControlStep ==
    ASSUME TypeOK, ChangeOK, Next
    PROVE  ControlTypeOK' /\ ChangeOK'
<1> DEFINE Goal == ControlTypeOK' /\ ChangeOK'
           Same == /\ cur' = cur /\ changes' \subseteq changes /\ removing' = removing /\ done' = done
                   /\ archive' \subseteq archive /\ failed' \in BOOLEAN /\ flags' = flags
<1>0. /\ pc \in Steps /\ done \subseteq Pkg /\ archive \subseteq Path /\ todo \subseteq Entry
      /\ fileids \subseteq Location /\ failed \in BOOLEAN
    BY DEF TypeOK, ControlTypeOK
<1>1. CASE Open
    BY <1>1, OpenControl
<1>2. ASSUME NEW c \in changes, StartRemove(c) PROVE Goal
    BY <1>2, StartControl
<1>3. ASSUME NEW c \in changes, StartInstall(c) PROVE Goal
    BY <1>3, StartControl
<1>4. ASSUME NEW c \in changes, KeepPackage(c) PROVE Goal
    <2>1. Same /\ pc' = pc /\ todo' \subseteq todo /\ fileids' = fileids
        BY <1>0, <1>4 DEF KeepPackage
    <2> QED
        BY <1>0, <2>1, PhaseControl
<1>5. ASSUME NEW f \in archive, InstallFile(f) PROVE Goal
    <2>1. Same /\ pc' = pc /\ todo' \subseteq todo /\ fileids' = fileids
        BY <1>0, <1>5 DEF InstallFile
    <2> QED
        BY <1>0, <2>1, PhaseControl
<1>6. ASSUME NEW f \in archive, SkipFile(f) PROVE Goal
    <2>1. Same /\ pc' = pc /\ todo' \subseteq todo /\ fileids' = fileids
        BY <1>0, <1>6 DEF SkipFile
    <2> QED
        BY <1>0, <2>1, PhaseControl
<1>7. CASE UnpackFail
    <2>1. /\ pc' = "ready" /\ cur' = Idle /\ changes' = changes /\ removing' = removing /\ done' = done
          /\ archive' = {} /\ todo' = todo /\ fileids' = fileids /\ failed' = TRUE /\ flags' = flags
        BY <1>7, SMTT(60) DEF UnpackFail
    <2> QED
        BY <1>0, <2>1, ReadyControl
<1>8. CASE UnpackDone
    <2>1. Same /\ pc = "unpack" /\ pc' = "migrate" /\ todo' = EntsOf(cur.new) /\ fileids' = fileids
        BY <1>0, <1>8 DEF UnpackDone
    <2>2. EntsOf(cur.new) \subseteq Entry
        BY DEF TypeOK, MemoryTypeOK, EntsOf
    <2> QED
        BY <1>0, <2>1, <2>2, PhaseControl DEF Steps
<1>9. ASSUME NEW e \in todo, MigrateFile(e) PROVE Goal
    <2>1. Same /\ pc' = pc /\ todo' \subseteq todo
        BY <1>0, <1>9 DEF MigrateFile
    <2>2. fileids' \in {fileids, fileids \cup {Loc[e[2]]}}
        BY <1>9 DEF MigrateFile, Claim
    <2>3. Loc[e[2]] \in Location
        BY <1>0, EntryParts, ConstantsAssumption
    <2> QED
        BY <1>0, <2>1, <2>2, <2>3, PhaseControl
<1>10. ASSUME NEW e \in todo, PurgeFile(e) PROVE Goal
    <2>1. Same /\ pc' = pc /\ todo' \subseteq todo /\ fileids' = fileids
        BY <1>0, <1>10 DEF PurgeFile
    <2> QED
        BY <1>0, <2>1, PhaseControl
<1>11. CASE MigrateDone
    <2>1. Same /\ pc = "migrate" /\ fileids' = fileids
        BY <1>0, <1>11 DEF MigrateDone
    <2>2. /\ pc' \in {"purge", "finish"} /\ todo' \in {{}, Unaudited(cur.old)}
          /\ pc' = "purge" => cur.old \in ipkg
        BY <1>11 DEF MigrateDone, ThenPurgeOld
    <2>3. Unaudited(cur.old) \subseteq Entry /\ (pc' = "purge" => cur.old # None)
        BY <2>2, DistinctAssumption DEF TypeOK, MemoryTypeOK, Unaudited, EntsOf
    <2> QED
        BY <1>0, <2>1, <2>2, <2>3, PhaseControl DEF Steps
<1>12. CASE PurgeDone
    <2>1. /\ changes' = changes /\ removing' = removing /\ done' = done /\ archive' = archive
          /\ todo' = todo /\ fileids' = {} /\ failed' = failed /\ flags' = flags
        BY <1>12 DEF PurgeDone
    <2>2. CASE pc' = "ready" /\ cur' = Idle
        BY <1>0, <2>1, <2>2, ReadyControl
    <2>3. CASE pc' = "finish" /\ cur' = cur /\ cur.new # None
        BY <1>0, <2>1, <2>3, PhaseControl DEF Steps
    <2> QED
        BY <1>12, <2>2, <2>3 DEF PurgeDone
<1>13. CASE Finish
    <2>1. /\ pc = "finish" /\ pc' = "ready" /\ cur' = Idle /\ changes' = changes /\ removing' = removing
          /\ done' = done \cup {cur.new} /\ archive' = archive /\ todo' = todo /\ fileids' = {}
          /\ failed' \in BOOLEAN /\ flags' = flags
        BY <1>0, <1>13 DEF Finish
    <2>2. cur.new \in Pkg
        BY <2>1, ChangeType
    <2> QED
        BY <1>0, <2>1, <2>2, ReadyControl
<1>14. CASE RunTriggers
    <2>1. Same /\ pc' = "write" /\ todo' = todo /\ fileids' = fileids
        BY <1>0, <1>14 DEF RunTriggers
    <2> QED
        BY <1>0, <2>1, PhaseControl DEF Steps
<1>15. CASE WriteConfig
    <2>1. Same /\ pc' = "done" /\ todo' = todo /\ fileids' = fileids
        BY <1>0, <1>15, Zenon DEF WriteConfig
    <2> QED
        BY <1>0, <2>1, PhaseControl DEF Steps
<1>16. CASE UserEdit
    <2>1. Same /\ pc' = pc /\ todo' \subseteq todo /\ fileids' = fileids
        BY <1>0, <1>16 DEF UserEdit, control
    <2> QED
        BY <1>0, <2>1, PhaseControl
<1>17. CASE Kill
    BY <1>17, KillType DEF TypeOK
<1> HIDE DEF Goal, Same
<1> QED
    BY <1>1, <1>2, <1>3, <1>4, <1>5, <1>6, <1>7, <1>8, <1>9, <1>10, <1>11, <1>12, <1>13,
       <1>14, <1>15, <1>16, <1>17, ZenonT(60) DEF Next, Step, NullOwner, Close, Crash, Goal

(* The initial states have the right type.                                  *)
LEMMA TypeInit == Init => TypeOK /\ ChangeOK
<1> SUFFICES ASSUME Init PROVE TypeOK /\ ChangeOK
    OBVIOUS
<1>1. MemoryTypeOK
    BY DEF Init, MemoryTypeOK
<1>2. StorageTypeOK
    BY DEF Init, StorageTypeOK
<1>3. saved \in SavedDb
    BY DEF Init, EmptyDb, SavedDb
<1>4. ControlTypeOK
    BY Zenon DEF Init, ControlTypeOK, Steps, Change, Idle
<1>5. ChangeOK
    BY DEF Init, ChangeOK
<1> QED
    BY <1>1, <1>2, <1>3, <1>4, <1>5 DEF TypeOK

(* Typing is inductive together with ChangeOK.                              *)
LEMMA TypeStep == TypeOK /\ ChangeOK /\ [Next]_vars => TypeOK' /\ ChangeOK'
<1> SUFFICES ASSUME TypeOK, ChangeOK, [Next]_vars PROVE TypeOK' /\ ChangeOK'
    OBVIOUS
<1>1. CASE Next
    BY <1>1, MemoryStep, StorageStep, ControlStep DEF TypeOK
<1>2. CASE UNCHANGED vars
    <2>1. UNCHANGED <<memory, storage, saved, control>>
        BY <1>2 DEF vars
    <2>2. MemoryTypeOK'
        BY <2>1 DEF TypeOK, MemoryTypeOK, memory
    <2>3. StorageTypeOK' /\ saved' \in SavedDb
        BY <2>1 DEF TypeOK, StorageTypeOK, storage
    <2>4. ControlTypeOK' /\ ChangeOK'
        BY <2>1 DEF TypeOK, ControlTypeOK, ChangeOK, control
    <2> QED
        BY <2>2, <2>3, <2>4 DEF TypeOK
<1> QED
    BY <1>1, <1>2

(* TypeOK holds in every reachable state, whatever packages ship, however   *)
(* the run is cut short and whatever the administrator writes.              *)
THEOREM TypeCorrect == Spec => []TypeOK
<1>1. Init => TypeOK /\ ChangeOK
    BY TypeInit
<1>2. TypeOK /\ ChangeOK /\ [Next]_vars => TypeOK' /\ ChangeOK'
    BY TypeStep
<1> QED
    BY <1>1, <1>2, PTL DEF Spec
=============================================================================
