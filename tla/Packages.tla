------------------------------ MODULE Packages ------------------------------
(***************************************************************************)
(* Package names, packages and dependencies as the solver sees them: the   *)
(* indexed package database (apk_db_pkg_add, apk_db_name_rdepends), the    *)
(* dependency tests of package.c and the edits of a dependency list.       *)
(*                                                                         *)
(* The database u is a record chosen once:                                 *)
(*   pkgs       the packages, in the order in which they were read;        *)
(*   name, ver, prio          principal name, version, provider_priority;  *)
(*   depends, provides, iif   sequences of dependencies (iif: install_if); *)
(*   tags       the repository tags under which a package is found;        *)
(*   avail      packages of a repository that can be reached;              *)
(*   cached, local, empty   packages in the cache; packages given as a     *)
(*              file; packages without files, like those of --virtual;     *)
(*   unusable   packages marked uninstallable or of an inactive layer;     *)
(*   force      the values of --force-broken-world to consider.            *)
(* Index adds prov, rdep and riif, the reverse links.                      *)
(*                                                                         *)
(* A version is a number, 0 being the null version of a virtual provides.  *)
(* A dependency is [n, op, v, not, tag]; op is the set of comparison       *)
(* results it accepts, not says that it is a conflict.  The operator       *)
(* {"<", ">"} is apk's checksum operator: v is then a package.             *)
(***************************************************************************)
EXTENDS Integers, FiniteSets, Sequences, SequencesExt

CONSTANTS
    NameSeq,        \* the names, in the order in which apk lists them
    None            \* no package

VARIABLES
    u,              \* the package database
    installed       \* installed packages, each with its repository tag

Name == ToSet(NameSeq)
Pkg == ToSet(u.pkgs)
AnyOp == {"<", "=", ">"}
ChecksumOp == {"<", ">"}
DefaultTag == 0

-----------------------------------------------------------------------------
(* apk_db_pkg_add: a package provides its own name and those of provides.   *)
FromPackage(d, p) == [pkg |-> p, ver |-> d.ver[p]]
Provided(d, p, n) ==
    LET own == IF d.name[p] = n THEN <<FromPackage(d, p)>> ELSE <<>>
        virt == SelectSeq(d.provides[p], LAMBDA x : x.n = n)
    IN  own \o [i \in DOMAIN virt |-> [pkg |-> p, ver |-> virt[i].v]]
ProvidersOf(d, n) ==
    FlattenSeq([i \in DOMAIN d.pkgs |-> Provided(d, d.pkgs[i], n)])

Mentions(deps, n) == \E i \in DOMAIN deps : deps[i].n = n
(* apk_db_name_rdepends: names of whose providers one mentions n.           *)
ReverseOf(d, links, n) ==
    SelectSeq(NameSeq, LAMBDA m : \E p \in {q.pkg : q \in ToSet(ProvidersOf(d, m))} :
                                      Mentions(links[p], n))
Index(d) ==
    [prov |-> [n \in Name |-> ProvidersOf(d, n)],
     rdep |-> [n \in Name |-> ReverseOf(d, d.depends, n)],
     riif |-> [n \in Name |-> ReverseOf(d, d.iif, n)]] @@ d

-----------------------------------------------------------------------------
(* apk_version_compare for known versions; a null version compares as any.  *)
Compare(a, b) ==
    IF a = 0 /\ b = 0 THEN {"="}
    ELSE IF a = 0 \/ b = 0 THEN AnyOp
    ELSE IF a < b THEN {"<"} ELSE IF a > b THEN {">"} ELSE {"="}

VersionMatch(a, d) ==
    (d.op = AnyOp \/ Compare(a, d.v) \cap d.op # {}) # d.not

IsChecksum(d) == d.op = ChecksumOp /\ ~d.not

NoProvider == [pkg |-> None, ver |-> 0]

(* apk_dep_is_provided *)
IsProvided(by, d, q) ==
    IF q.pkg = None THEN d.not
    ELSE IF d.not /\ by = q.pkg THEN TRUE
    ELSE IF IsChecksum(d) THEN d.v = q.pkg ELSE VersionMatch(q.ver, d)

(* apk_dep_is_materialized *)
IsMaterialized(d, p) ==
    IF p = None \/ d.n # u.name[p] THEN d.not
    ELSE IF IsChecksum(d) THEN d.v = p ELSE VersionMatch(u.ver[p], d)

(* apk_dep_analyze *)
Analyze(by, d, p) ==
    LET verdict(ok) == IF ok THEN "satisfies" ELSE "conflicts"
        virt == SelectSeq(u.provides[p], LAMBDA x : x.n = d.n)
    IN  IF d.n = u.name[p] THEN verdict(IsMaterialized(d, p))
        ELSE IF virt = <<>> THEN "irrelevant"
        ELSE verdict(IsProvided(by, d, [pkg |-> p, ver |-> virt[1].v]))

(* apk_pkg_foreach_reverse_dependency over the packages of a set: those of  *)
(* whose dependencies one is met by p.                                      *)
ReverseDependencies(p, among) ==
    LET names == <<u.name[p]>> \o [i \in DOMAIN u.provides[p] |-> u.provides[p][i].n]
        rnames == FlattenSeq([i \in DOMAIN names |-> u.rdep[names[i]]])
        provs == FlattenSeq([i \in DOMAIN rnames |-> u.prov[rnames[i]]])
        hit(q) == \E i \in DOMAIN u.depends[q] :
                      Analyze(q, u.depends[q][i], p) = "satisfies"
    IN  SelectSeq([i \in DOMAIN provs |-> provs[i].pkg],
                  LAMBDA q : q \in among /\ hit(q))

-----------------------------------------------------------------------------
Installed == DOMAIN installed
InstalledSeq == SelectSeq(u.pkgs, LAMBDA p : p \in Installed)

(* apk_pkg_get_installed *)
InstalledOf(n) == {p \in Installed : u.name[p] = n}

(* apk_deps_add replaces the dependency on the same name; apk_deps_del      *)
(* removes it.                                                              *)
DepsDel(deps, n) == SelectSeq(deps, LAMBDA d : d.n # n)
DepsAdd(deps, d) ==
    IF Mentions(deps, d.n)
    THEN [i \in DOMAIN deps |-> IF deps[i].n = d.n THEN d ELSE deps[i]]
    ELSE Append(deps, d)

(* The world is sorted by name before it is solved or written.              *)
Sorted(deps) ==
    FlattenSeq([i \in DOMAIN NameSeq |->
                    SelectSeq(deps, LAMBDA d : d.n = NameSeq[i])])
=============================================================================
