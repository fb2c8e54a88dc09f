----------------------------- MODULE Changeset -----------------------------
(***************************************************************************)
(* From a solution to an ordered list of changes (the cset functions and   *)
(* generate_changeset of solver.c).  The solver's record gets the fields   *)
(*   changes   the changes recorded so far, in order;                      *)
(*   total     num_total_changes # 0, which a restart does not reset;      *)
(*   ipkg      installed_pkg: the installed package of each name;          *)
(*   iname     installed_name: the name under which it is installed.       *)
(* requirers (req) now counts the installed packages that need a name.     *)
(***************************************************************************)
EXTENDS Solver

Width == 65536          \* requirers is an unsigned short

RecordChange(s, old, new) ==
    LET oldTag == IF old = None THEN DefaultTag ELSE installed[old]
        newTag == IF new = None THEN DefaultTag ELSE GetTag(s.p[new].allowed, Repos(new))
        again == new # None /\ "reinstall" \in s.p[new].flags
        counts == None \in {old, new} \/ new # old \/ again \/ newTag # oldTag
    IN  [s EXCEPT !.total = @ \/ counts,
                  !.changes = Append(@, [old |-> old, new |-> new, oldTag |-> oldTag,
                                         tag |-> newTag, reinstall |-> again])]

Needs(s, p) ==
    LET ds == SelectSeq(u.depends[p], LAMBDA d : ~d.not /\ s.iname[d.n] # None)
    IN  DepNames(ds)

TrackDepsAdded(s, p) ==
    FoldLeft(LAMBDA t, n : [t EXCEPT !.n[t.iname[n]].req = (@ + 1) % Width], s, Needs(s, p))

RECURSIVE GenNameChange(_, _)
RECURSIVE GenNameRemove(_, _)

TrackDepsRemoved(s, p) ==
    FoldLeft(LAMBDA t, n :
               LET t1 == [t EXCEPT !.n[t.iname[n]].req = (@ + Width - 1) % Width]
               IN  IF t1.n[t1.iname[n]].req > 0 \/ t1.ipkg[n] = None THEN t1
                   ELSE GenNameRemove(t1, t1.ipkg[n]),
             s, Needs(s, p))

CheckRemovalByDeps(s, p) ==
    IF s.n[PkgName(p)].req = 0 /\ s.n[PkgName(p)].chosen.pkg = None
    THEN GenNameRemove(s, p) ELSE s

CheckInstallByIif(s, n) ==
    LET p == s.n[n].chosen.pkg
    IN  IF \/ p = None \/ ~s.n[n].seen \/ s.n[n].processed
           \/ \E d \in ToSet(u.iif[p]) : \/ ~d.not /\ ~s.n[d.n].processed
                                         \/ ~IsProvided(p, d, s.n[d.n].chosen)
        THEN s ELSE GenNameChange(s, n)

CheckRemovalByIif(s, n) ==
    LET p == s.ipkg[n]
    IN  IF /\ p # None /\ s.n[n].chosen.pkg = None
           /\ ~s.n[n].processed /\ ~s.n[n].removed
           /\ \E d \in ToSet(u.iif[p]) : s.n[d.n].removed /\ s.n[d.n].chosen.pkg = None
        THEN CheckRemovalByDeps(s, p) ELSE s

(* cset_check_by_reverse_iif *)
ReverseIif(p) ==
    IF p = None THEN <<>>
    ELSE FlattenSeq([i \in DOMAIN OwnNames(p) |-> u.riif[OwnNames(p)[i]]])

RemoveAll(s, ps) == FoldLeft(LAMBDA t, p : GenNameRemove(t, p), s, ps)

Preprocess(s, n) ==
    IF s.n[n].processed THEN s
    ELSE LET s1 == [s EXCEPT !.n[n].processed = TRUE]
             c == s1.n[n].chosen.pkg
             orphan == s1.ipkg[n] # None /\ (c = None \/ PkgName(c) # n)
             dying(q) == /\ s1.ipkg[PkgName(q.pkg)] = q.pkg
                         /\ s1.n[PkgName(q.pkg)].chosen.pkg = None
             rest == SelectSeq(Providers(n), dying)
         IN  RemoveAll(s1, (IF orphan THEN <<s1.ipkg[n]>> ELSE <<>>)
                           \o [i \in DOMAIN rest |-> rest[i].pkg])

InheritError(s, by, p) ==
    IF p # None /\ s.p[p].error THEN MarkError(s, by) ELSE s
GenDep(s, by, d) ==
    LET c == s.n[d.n].chosen
    IN  IF d.not /\ s.ignore THEN s
        ELSE InheritError(GenNameChange(IF IsProvided(by, d, c) THEN s ELSE MarkError(s, by),
                                        d.n), by, c.pkg)

(* The change from what is installed, old, to p                             *)
GenChange(s, old, p) ==
    LET s1 == FoldLeft(CheckRemovalByIif, s, ReverseIif(old))
        s2 == FoldLeft(LAMBDA t, d : GenDep(t, p, d), s1, u.depends[p])
        s3 == FoldLeft(CheckInstallByIif, RecordChange(s2, old, p), ReverseIif(p))
    IN  TrackDepsAdded(s3, p)
ForgetOld(s, old) == IF old = None THEN s ELSE TrackDepsRemoved(s, old)
GenReplace(s, old, p) == ForgetOld(GenChange(s, old, p), old)
GenPkg(s, p) == GenReplace(s, s.ipkg[PkgName(p)], p)
GenChosen(s, p) ==
    IF p = None \/ s.p[p].inCs THEN s
    ELSE GenPkg(FoldLeft(Preprocess, [s EXCEPT !.p[p].inCs = TRUE], OwnNames(p)), p)
GenName(s, n) == GenChosen(s, s.n[n].chosen.pkg)
GenNameChange(s, n) == IF s.n[n].processed THEN s ELSE GenName(Preprocess(s, n), n)

(* Faulty: a package that needs a removed one goes although it is chosen.   *)
GenNameRemoveAny(s, p) ==
    LET s1 == [s EXCEPT !.n[PkgName(p)].removed = TRUE, !.p[p].inCs = TRUE]
        s2 == RemoveAll(s1, ReverseDependencies(p, Installed))
        s3 == FoldLeft(CheckRemovalByIif, s2, ReverseIif(p))
    IN  IF s.p[p].inCs THEN s ELSE TrackDepsRemoved(RecordChange(s3, p, None), p)

GenNameRemove(s, p) ==
    LET n == PkgName(p)
        c == s.n[n].chosen.pkg
        s1 == [s EXCEPT !.n[n].removed = TRUE, !.p[p].inCs = TRUE]
        s2 == RemoveAll(s1, ReverseDependencies(p, Installed))
        s3 == FoldLeft(CheckRemovalByIif, s2, ReverseIif(p))
    IN  IF s.p[p].inCs \/ (c # None /\ u.name[c] = n) THEN s
        ELSE TrackDepsRemoved(RecordChange(s3, p, None), p)

(* generate_changeset                                                       *)
InstalledLinks(s) ==
    LET ipkg(n) == LET c == SelectSeq(InstalledSeq, LAMBDA p : PkgName(p) = n)
                   IN  IF c = <<>> THEN None ELSE Last(c)
        owns(p, n) == PkgName(p) = n \/ \E d \in ToSet(u.provides[p]) : d.n = n /\ d.v # 0
        iname(n) == LET c == SelectSeq(InstalledSeq, LAMBDA p : owns(p, n))
                    IN  IF c = <<>> THEN None ELSE PkgName(Last(c))
    IN  [s EXCEPT !.changes = <<>>, !.ipkg = [n \in Name |-> ipkg(n)],
                  !.iname = [n \in Name |-> iname(n)],
                  !.n = [n \in Name |-> [s.n[n] EXCEPT !.req = 0]]]

Generated(s) ==
    LET s1 == FoldLeft(TrackDepsAdded, InstalledLinks(s), InstalledSeq)
        s2 == FoldLeft(CheckRemovalByDeps, s1, InstalledSeq)
        s3 == FoldLeft(LAMBDA t, d : GenDep(t, None, d), s2, world)
    IN  FoldLeft(LAMBDA t, p : GenNameChange(t, PkgName(p)), s3, InstalledSeq)
=============================================================================
