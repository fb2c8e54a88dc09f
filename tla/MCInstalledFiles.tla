-------------------------- MODULE MCInstalledFiles --------------------------
(***************************************************************************)
(* Instances of InstalledFiles.                                            *)
(*   Shared: a1, a2 and b1 ship one file; b1 may take it from a1 by        *)
(*           replaces and conflicts with a2.  a1 and a2 ship a             *)
(*           configuration file, b1 a file that an overlay lists.          *)
(*   Merged: the upgrade from a1 to a2 moves a file between two paths of   *)
(*           one location (/lib and /usr/lib after a merge of /usr).       *)
(***************************************************************************)
EXTENDS InstalledFiles

CONSTANTS a1, a2, b1, shared, conf, over, lib, usrlib, merged

SharedPkg == {a1, a2, b1}
MergedPkg == {a1, a2}

NameIn(pkgs) == [p \in pkgs |-> IF p = b1 THEN "b" ELSE "a"]
SharedName == NameIn(SharedPkg)
MergedName == NameIn(MergedPkg)

ContentOf(p) == CASE p = a1 -> "c1" [] p = a2 -> "c2" [] p = b1 -> "cb"

SharedPath == {shared, conf, over}
MergedPath == {lib, usrlib, conf}

SharedLoc == [f \in SharedPath |-> f]
MergedLoc == [f \in MergedPath |-> IF f = conf THEN conf ELSE merged]
MergedLocation == {merged, conf}

ShipsOnly(pkgs, paths, keep(_, _)) ==
    [p \in pkgs |-> [f \in paths |-> IF keep(p, f) THEN ContentOf(p) ELSE Absent]]
SharedShips ==
    LET Keep(p, f) == f = shared \/ f = (IF p = b1 THEN over ELSE conf)
    IN  ShipsOnly(SharedPkg, SharedPath, Keep)
MergedShips ==
    LET Keep(p, f) == f = conf \/ f = (IF p = a1 THEN lib ELSE usrlib)
    IN  ShipsOnly(MergedPkg, MergedPath, Keep)

Rank(p) == CASE p = a1 -> 1 [] p = a2 -> 2 [] p = b1 -> 3
OrderIn(pkgs) == [p \in pkgs |-> Cardinality({q \in pkgs : Rank(q) <= Rank(p)})]
SharedOrder == OrderIn(SharedPkg)
MergedOrder == OrderIn(MergedPkg)

SharedReplaces == {<<b1, a1>>}

ZeroIn(pkgs) == [p \in pkgs |-> 0]
SharedPriority == ZeroIn(SharedPkg)
MergedPriority == ZeroIn(MergedPkg)

NoneIn(pkgs) == [p \in pkgs |-> None]
SharedOrigin == NoneIn(SharedPkg)
MergedOrigin == NoneIn(MergedPkg)

(* The bound of the Merged instance: one broken entry or package at a time, *)
(* and one temporary file left behind by processes that were killed.        *)
OneFault ==
    /\ Cardinality(brokenEnt) + Cardinality(broken) <= 1
    /\ pc = "closed" => Cardinality({<<p, f>> \in Pkg \X Path : f \in tmp[p]}) <= 1
=============================================================================
