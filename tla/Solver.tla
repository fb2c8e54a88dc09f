------------------------------- MODULE Solver -------------------------------
(***************************************************************************)
(* The dependency solver (solver.c): discovery of the names that matter,   *)
(* propagation of constraints through the queue of dirty names, and the    *)
(* choice of a provider for one unresolved name after the other.           *)
(*                                                                         *)
(* The solver is sequential C over one mutable structure.  Its state is    *)
(* the record ss, and every function of solver.c that changes it is an     *)
(* operator from such a record to the next.  One step of the model is one  *)
(* iteration of the main loop: a dirty name reconsidered or a name         *)
(* decided, so that invariants speak about the queues between iterations.  *)
(***************************************************************************)
EXTENDS Packages

VARIABLES
    ss,         \* struct apk_solver_state with the states of names, packages
    world,      \* the dependencies being solved
    broken      \* names of world dependencies disabled by force_broken_world

NameState0 ==
    [chosen |-> NoProvider, order |-> 0, req |-> 0, md |-> 0, mp |-> 0,
     seen |-> FALSE, locked |-> FALSE, processed |-> FALSE, removed |-> FALSE,
     reDeps |-> FALSE, reIif |-> FALSE, hasIif |-> FALSE, noIif |-> FALSE,
     options |-> FALSE, revDone |-> FALSE, virtual |-> FALSE, auto |-> FALSE,
     iifNeeded |-> FALSE, now |-> FALSE]

PkgState0 ==
    [conflicts |-> 0, allowed |-> {}, preferred |-> {}, flags |-> {}, inherit |-> {},
     seen |-> FALSE, avail |-> FALSE, sel |-> FALSE, tagOk |-> FALSE,
     tagPref |-> FALSE, used |-> FALSE, merged |-> FALSE, inCs |-> FALSE,
     trig |-> FALSE, failed |-> FALSE, error |-> FALSE]

(* The state at label restart: flags are those that the command has set on  *)
(* packages (apk_solver_set_name_flags), order ids start again.             *)
State0(pstate, flagged, opts) ==
    [n |-> [x \in Name |-> NameState0], p |-> pstate,
     dirty |-> <<>>, unresolved |-> <<>>, selectable |-> <<>>, resolvenow |-> <<>>,
     errors |-> 0, order |-> 0, inherit |-> opts, pin |-> {},
     flagged |-> flagged, ignore |-> "ignore_conflict" \in opts,
     self |-> "self_upgrade" \in opts,
     changes |-> <<>>, total |-> FALSE, ipkg |-> <<>>, iname |-> <<>>]

(* The restart of force_broken_world wipes the flags with the rest.         *)
Restarted(s, opts) ==
    [State0([p \in Pkg |-> PkgState0], s.flagged, opts) EXCEPT !.total = s.total]

-----------------------------------------------------------------------------
(* get_pkg_repos, by the tags of the repositories                           *)
Repos(p) == u.tags[p] \cup (IF p \in Installed THEN {installed[p]} ELSE {})
(* get_tag: the first tag of the mask under which the package is found      *)
GetTag(mask, repos) ==
    LET t == mask \cap repos
    IN  IF t = {} THEN DefaultTag ELSE CHOOSE x \in t : \A y \in t : x <= y

PkgName(p) == u.name[p]
ProvNames(p) == [i \in DOMAIN u.provides[p] |-> u.provides[p][i].n]
OwnNames(p) == <<PkgName(p)>> \o ProvNames(p)
DepNames(deps) == [i \in DOMAIN deps |-> deps[i].n]
Providers(n) == u.prov[n]
ProvPkgs(n) == {q.pkg : q \in ToSet(Providers(n))}

MarkError(s, p) ==
    IF p = None \/ s.p[p].error THEN s
    ELSE [s EXCEPT !.p[p].error = TRUE, !.errors = @ + 1]

-----------------------------------------------------------------------------
(* The queues.                                                              *)
Waiting(s) == ToSet(s.unresolved) \cup ToSet(s.selectable) \cup ToSet(s.resolvenow)

QueueDirty(s, n) ==
    IF \/ n \in ToSet(s.dirty) \/ s.n[n].locked
       \/ s.n[n].req = 0 /\ ~s.n[n].reIif
    THEN s
    ELSE [s EXCEPT !.dirty = Append(@, n)]

ResolveNow(x) == x.revDone /\ x.req > 0 /\ x.auto /\ ~x.options

QueueInsert(s, q, n) ==
    LET later == {i \in DOMAIN q : s.n[n].order >= s.n[q[i]].order}
    IN  IF later = {} THEN Append(q, n)
        ELSE InsertAt(q, CHOOSE i \in later : \A j \in later : i <= j, n)

Unqueue(s, n) ==
    [s EXCEPT !.unresolved = Remove(@, n), !.selectable = Remove(@, n),
              !.resolvenow = Remove(@, n)]

Enqueue(s, n) ==
    IF s.n[n].now THEN [s EXCEPT !.resolvenow = Append(@, n)]
    ELSE IF s.n[n].auto THEN [s EXCEPT !.selectable = QueueInsert(s, @, n)]
    ELSE [s EXCEPT !.unresolved = QueueInsert(s, @, n)]

QueueUnresolved(s, n, reevaluate) ==
    LET x == s.n[n]
    IN  IF x.locked THEN s
        ELSE IF n \in Waiting(s)
        THEN IF x.now \/ (~ResolveNow(x) /\ ~reevaluate) THEN s
             ELSE Enqueue([Unqueue(s, n) EXCEPT !.n[n].now = ResolveNow(x)], n)
        ELSE IF x.req = 0 /\ ~x.hasIif /\ ~x.iifNeeded THEN s
        ELSE Enqueue([s EXCEPT !.n[n].now = ResolveNow(x)], n)

ReevaluateReverseDeps(s, n) ==
    FoldLeft(LAMBDA t, m : IF ~t.n[m].seen THEN t
                           ELSE QueueDirty([t EXCEPT !.n[m].reDeps = TRUE], m),
             s, u.rdep[n])
ReevaluateReverseInstallIf(s, n) ==
    FoldLeft(LAMBDA t, m : IF ~t.n[m].seen \/ t.n[m].noIif THEN t
                           ELSE QueueDirty([t EXCEPT !.n[m].reIif = TRUE], m),
             s, u.riif[n])
ReevaluateReverseInstallIfPkg(s, p) ==
    FoldLeft(ReevaluateReverseInstallIf, s, OwnNames(p))

Disqualify(s, p) ==
    ReevaluateReverseInstallIfPkg(
        FoldLeft(ReevaluateReverseDeps, [s EXCEPT !.p[p].sel = FALSE], OwnNames(p)), p)

DependencySatisfiable(s, by, d) ==
    \/ d.not /\ s.ignore
    \/ s.n[d.n].locked /\ IsProvided(by, d, s.n[d.n].chosen)
    \/ /\ ~s.n[d.n].locked
       /\ \/ s.n[d.n].req = 0 /\ IsProvided(by, d, NoProvider)
          \/ \E q \in ToSet(Providers(d.n)) : s.p[q.pkg].sel /\ IsProvided(by, d, q)

-----------------------------------------------------------------------------
(* Discovery: every name that a solution may touch gets its state and an    *)
(* order id; names with flags of their own sort before the others.          *)
Selectable(p) ==
    p \notin u.unusable /\ p \in u.avail \cup u.cached \cup u.local \cup u.empty \cup Installed

PkgSeen(s, p) ==
    LET tagged == p \in u.local \cup u.empty \/ DefaultTag \in Repos(p)
    IN  [s.p[p] EXCEPT
            !.seen = TRUE, !.allowed = {DefaultTag}, !.preferred = {DefaultTag},
            !.avail = p \in u.avail \/ p \in u.local, !.sel = Selectable(p),
            !.failed = u.iif[p] = <<>> \/ ("available" \in s.inherit
                                           /\ p \notin u.avail /\ p \notin u.local),
            !.tagPref = tagged, !.tagOk = tagged \/ p \in Installed]

RECURSIVE DiscoverName(_, _)
DiscoverNames(s, names) == FoldLeft(LAMBDA t, n : DiscoverName(t, n), s, names)
DiscoverPkg(s, q) ==
    IF s.p[q.pkg].seen THEN s
    ELSE DiscoverNames([s EXCEPT !.p[q.pkg] = PkgSeen(s, q.pkg)], DepNames(u.depends[q.pkg]))
DiscoverName(s, n) ==
    IF s.n[n].seen THEN s
    ELSE LET around(q) == u.riif[PkgName(q.pkg)] \o ProvNames(q.pkg)
             triggers(q) == DepNames(u.iif[q.pkg])
             all(f(_)) == FlattenSeq([i \in DOMAIN Providers(n) |-> f(Providers(n)[i])])
             s1 == FoldLeft(DiscoverPkg, [s EXCEPT !.n[n].seen = TRUE], Providers(n))
             s2 == [s1 EXCEPT !.n[n].noIif = \A p \in ProvPkgs(n) : s1.p[p].failed]
             s3 == DiscoverNames(s2, u.riif[n] \o all(around))
             bias == IF n \in s.flagged THEN 0 ELSE Cardinality(Name) + 1
             s4 == [s3 EXCEPT !.order = @ + 1, !.n[n].order = s3.order + 1 - bias]
         IN  DiscoverNames(s4, all(triggers))

-----------------------------------------------------------------------------
(* Constraints.                                                             *)
NameRequirersChanged(s, n) ==
    QueueDirty(ReevaluateReverseInstallIf(QueueUnresolved(s, n, FALSE), n), n)

InheritPinningAndFlags(s, p, by) ==
    LET x == s.p[p]
        new == IF by = None THEN s.inherit ELSE s.p[by].inherit
        allowed == x.allowed \cup (IF by = None THEN s.pin ELSE s.p[by].allowed)
        y == [x EXCEPT !.flags = @ \cup new, !.inherit = @ \cup new, !.allowed = allowed,
                       !.tagOk = @ \/ Repos(p) \cap allowed # {}]
    IN  [s EXCEPT !.p[p] =
            IF by # None THEN y
            ELSE [y EXCEPT !.preferred = s.pin, !.tagPref = Repos(p) \cap s.pin # {}]]

ApplyToProvider(s, by, d, q) ==
    LET ok == IsProvided(by, d, q)
        s1 == [s EXCEPT !.p[q.pkg].conflicts = @ + (IF ok THEN 0 ELSE 1)]
        s2 == IF s1.p[q.pkg].sel /\ s1.p[q.pkg].conflicts > 0
              THEN Disqualify(s1, q.pkg) ELSE s1
    IN  IF ok THEN InheritPinningAndFlags(s2, q.pkg, by) ELSE s2

ApplyConstraint(s, by, d) ==
    IF d.not /\ s.ignore THEN s
    ELSE LET s1 == [s EXCEPT !.n[d.n].req = @ + (IF d.not THEN 0 ELSE 1)]
             s2 == IF s1.n[d.n].req = 1 /\ ~d.not
                   THEN NameRequirersChanged(s1, d.n) ELSE s1
         IN  FoldLeft(LAMBDA t, q : ApplyToProvider(t, by, d, q), s2, Providers(d.n))

ExcludeNonProviders(s, n, must, skipVirtual) ==
    IF n = must \/ s.ignore THEN s
    ELSE FoldLeft(
           LAMBDA t, q :
             IF \/ PkgName(q.pkg) = must \/ ~t.p[q.pkg].sel
                \/ skipVirtual /\ q.ver = 0
                \/ \E d \in ToSet(u.provides[q.pkg]) : d.n = must \/ (skipVirtual /\ d.v = 0)
             THEN t ELSE Disqualify(t, q.pkg),
           s, Providers(n))

AutoSelectable(s, q) ==
    q.ver # 0 \/ u.prio[q.pkg] > 0 \/ s.n[PkgName(q.pkg)].req > 0

-----------------------------------------------------------------------------
(* reconsider_name: the candidates that are left, and what they have in     *)
(* common.  Counters md and mp find the names that every candidate depends  *)
(* on or provides; they are zero again when the function returns.           *)
MergeDepends(s, p, k) ==
    FoldLeft(LAMBDA t, d : IF d.not \/ t.n[d.n].md # k THEN t
                           ELSE [t EXCEPT !.n[d.n].md = k + 1],
             s, u.depends[p])

MergeProvides(s, q, k) ==
    FoldLeft(LAMBDA t, d : IF t.n[d.n].mp # k THEN t
                           ELSE [t EXCEPT !.n[d.n].mp = k + 1,
                                          !.n[d.n].virtual = @ \/ d.v = 0],
             s, <<[n |-> PkgName(q.pkg), v |-> q.ver]>> \o u.provides[q.pkg])

(* Where the walk through install_if stops: 0 when all of it holds.         *)
IifStop(s, p) ==
    SelectInSeq(u.iif[p], LAMBDA d : \/ ~s.n[d.n].locked
                                     \/ ~IsProvided(p, d, s.n[d.n].chosen))

EvaluateIif(s, p) ==
    LET i == IifStop(s, p)
        d == u.iif[p][i]
    IN  IF i = 0 THEN [s EXCEPT !.p[p].trig = TRUE]
        ELSE IF s.n[d.n].locked THEN [s EXCEPT !.p[p].failed = TRUE]
        ELSE IF d.not THEN QueueUnresolved([s EXCEPT !.n[d.n].iifNeeded = TRUE], d.n, FALSE)
        ELSE s

InheritTriggers(s, p) ==
    FoldLeft(LAMBDA t, d : InheritPinningAndFlags(t, p, t.n[d.n].chosen.pkg), s, u.iif[p])

CheckDepends(s, p) ==
    IF s.p[p].sel /\ \E d \in ToSet(u.depends[p]) : ~DependencySatisfiable(s, p, d)
    THEN Disqualify(s, p) ELSE s
CheckIif(s, p) ==
    IF s.p[p].trig \/ s.p[p].failed THEN s ELSE EvaluateIif(s, p)
CheckTriggers(s, p) == IF s.p[p].trig THEN InheritTriggers(s, p) ELSE s

CountIif(acc, p) ==
    [acc EXCEPT !.hasIif = @ \/ acc.s.p[p].trig, !.noIif = @ /\ acc.s.p[p].failed,
                !.auto = @ \/ acc.s.p[p].trig]
CountOption(acc, q) ==
    [acc EXCEPT
        !.s = MergeProvides(MergeDepends([@ EXCEPT !.p[q.pkg].merged = TRUE],
                                         q.pkg, acc.num), q, acc.num),
        !.first = IF @ = None THEN q.pkg ELSE @, !.num = @ + 1,
        !.bad = @ \/ ~acc.s.p[q.pkg].tagOk, !.auto = @ \/ AutoSelectable(acc.s, q)]
Count(acc, q, n) ==
    IF acc.s.n[n].req = 0 THEN CountIif(acc, q.pkg)
    ELSE CountOption(CountIif(acc, q.pkg), q)

ConsiderIif(acc, q, n, reIif) ==
    IF ~acc.s.p[q.pkg].sel THEN acc
    ELSE Count([acc EXCEPT !.s = IF reIif THEN CheckTriggers(CheckIif(@, q.pkg), q.pkg)
                                 ELSE @], q, n)
Consider(acc, q, n, reDeps, reIif) ==
    LET s == [acc.s EXCEPT !.p[q.pkg].merged = FALSE]
    IN  ConsiderIif([acc EXCEPT !.s = IF reDeps THEN CheckDepends(s, q.pkg) ELSE s],
                    q, n, reIif)

PropagateDepends(s, p, num) ==
    FoldLeft(LAMBDA t, d :
               LET common == t.n[d.n].md = num
                   t1 == [t EXCEPT !.n[d.n].md = 0]
                   t2 == NameRequirersChanged([t1 EXCEPT !.n[d.n].req = 1], d.n)
               IN  IF ~common THEN t1
                   ELSE IF num = 1 THEN ApplyConstraint(t1, p, d)
                   ELSE IF t1.n[d.n].req > 0 THEN t1
                   ELSE FoldLeft(LAMBDA r, q : InheritPinningAndFlags(r, q.pkg, p),
                                 t2, Providers(d.n)),
             s, u.depends[p])

PropagateProvides(s, p, num, n) ==
    LET excl(t, m) ==
          LET t1 == [t EXCEPT !.n[m].mp = 0]
          IN  IF t.n[m].mp # num THEN t1
              ELSE ExcludeNonProviders(t1, m, n, t.n[m].virtual)
    IN  FoldLeft(LAMBDA t, m : [t EXCEPT !.n[m].virtual = FALSE],
                 FoldLeft(excl, s, OwnNames(p)), OwnNames(p))

Propagate(s, n, p, num) ==
    PropagateProvides(
        PropagateDepends([s EXCEPT !.p = [x \in Pkg |-> [s.p[x] EXCEPT !.used =
                             IF x \in ProvPkgs(n) THEN s.p[x].merged ELSE @]]], p, num),
        p, num, n)

Considered(s, n) ==
    FoldLeft(LAMBDA a, q : Consider(a, q, n, s.n[n].reDeps, s.n[n].reIif),
             [s |-> [s EXCEPT !.n[n].reDeps = FALSE, !.n[n].reIif = FALSE],
              first |-> None, num |-> 0, bad |-> FALSE,
              hasIif |-> FALSE, noIif |-> TRUE, auto |-> FALSE], Providers(n))

CheckReverseDeps(s, n) ==
    [s EXCEPT !.n[n].revDone = \A m \in ToSet(u.rdep[n]) : s.n[m].seen => s.n[m].locked]

Conclude(acc, n) ==
    LET s == [acc.s EXCEPT !.n[n].options = acc.num > 1 \/ acc.bad,
                           !.n[n].hasIif = acc.hasIif, !.n[n].noIif = acc.noIif,
                           !.n[n].auto = acc.auto]
    IN  QueueUnresolved(
            CheckReverseDeps(IF acc.first = None THEN s
                             ELSE Propagate(s, n, acc.first, acc.num), n),
            n, acc.auto # acc.s.n[n].auto)

ReconsiderName(s, n) == Conclude(Considered(s, n), n)

-----------------------------------------------------------------------------
(* compare_providers: the criteria in their order; the first that tells the *)
(* two providers apart decides.                                             *)
Bit(b) == IF b THEN 1 ELSE 0
Ffs(p) == IF u.tags[p] = {} THEN 0 ELSE 1 + GetTag(u.tags[p], u.tags[p])
ByVersion(a, b) ==
    CASE Compare(a, b) = {"<"} -> -1 [] Compare(a, b) = {">"} -> 1 [] OTHER -> 0

Criteria(s, qa, qb) ==
    LET a == s.p[qa.pkg]
        b == s.p[qb.pkg]
        flags == a.flags \cup b.flags
        if(c, r) == IF c THEN r ELSE 0
        sel == Bit(a.sel) - Bit(b.sel)
        tagOk == Bit(a.tagOk) - Bit(b.tagOk)
        avail == if("available" \in flags, Bit(a.avail) - Bit(b.avail))
        inst == Bit(qa.pkg \in Installed) - Bit(qb.pkg \in Installed)
        latest == /\ "latest" \in flags
                  /\ a.allowed = {DefaultTag} /\ b.allowed = {DefaultTag}
    IN  (IF latest
         THEN <<tagOk, avail, if({"available", "reinstall"} \cap flags = {"reinstall"}, sel)>>
         ELSE <<sel, Bit(a.used) - Bit(b.used), b.conflicts - a.conflicts,
                if((s.self /\ "upgrade" \notin flags) \/ "installed" \in flags, inst),
                tagOk, avail, Bit(a.tagPref) - Bit(b.tagPref),
                if(flags \cap {"remove", "upgrade"} = {}, inst)>>)
        \o <<ByVersion(qa.ver, qb.ver),
             if(PkgName(qa.pkg) = PkgName(qb.pkg), ByVersion(u.ver[qa.pkg], u.ver[qb.pkg])),
             u.prio[qa.pkg] - u.prio[qb.pkg], if("remove" \notin flags, inst), sel,
             Ffs(qb.pkg) - Ffs(qa.pkg)>>

Better(s, qa, qb) ==
    \/ qb.pkg = None
    \/ LET c == Criteria(s, qa, qb)
           i == SelectInSeq(c, LAMBDA r : r # 0)
       IN  i > 0 /\ c[i] > 0

Lock(s, n, q) ==
    [Unqueue(s, n) EXCEPT !.n[n].locked = TRUE, !.n[n].chosen = q, !.dirty = Remove(@, n)]
RequireTriggers(s, n, q) ==
    IF q.pkg = None \/ s.n[n].req > 0 \/ ~s.p[q.pkg].trig THEN s
    ELSE FoldLeft(LAMBDA t, d : IF t.n[d.n].locked THEN t ELSE ApplyConstraint(t, q.pkg, d),
                  s, u.iif[q.pkg])
DisqualifyRivals(s, n, q) ==
    LET rivals == SelectSeq(Providers(n), LAMBDA r :
                      r.pkg # q.pkg /\ ~(q.ver = 0 /\ r.ver = 0))
    IN  IF s.ignore THEN s ELSE FoldLeft(LAMBDA t, r : Disqualify(t, r.pkg), s, rivals)
ReevaluateInstallIf(s, n, p) ==
    IF p # None THEN ReevaluateReverseInstallIfPkg(s, p) ELSE ReevaluateReverseInstallIf(s, n)

AssignName(s, n, q) ==
    IF ~s.n[n].locked
    THEN ReevaluateInstallIf(
             ReevaluateReverseDeps(
                 DisqualifyRivals(RequireTriggers(Lock(s, n, q), n, q), n, q), n), n, q.pkg)
    ELSE IF s.ignore \/ (q.ver = 0 /\ s.n[n].chosen.ver = 0) THEN s
    ELSE MarkError(MarkError(s, q.pkg), s.n[n].chosen.pkg)

Eligible(s, n, q) ==
    /\ s.n[n].req = 0 => s.p[q.pkg].trig /\ s.p[q.pkg].tagOk /\ s.p[q.pkg].sel
    /\ AutoSelectable(s, q)

Best(s, n) ==
    FoldLeft(LAMBDA c, q : IF Eligible(s, n, q) /\ Better(s, q, c) THEN q ELSE c,
             NoProvider, Providers(n)).pkg

AssignPkg(s, p) ==
    FoldLeft(LAMBDA t, d : AssignName(t, d.n, [pkg |-> p, ver |-> d.v]),
             AssignName(s, PkgName(p), FromPackage(u, p)), u.provides[p])
AssignNone(s, n) ==
    [AssignName(s, n, NoProvider) EXCEPT !.errors = @ + Bit(s.n[n].req > 0)]

(* Faulty: the dependencies of the chosen package are not required.         *)
SelectAlone(s, n, p) == IF p = None THEN AssignNone(s, n) ELSE AssignPkg(s, p)

Select(s, n, p) ==
    IF (s.n[n].req = 0 /\ ~s.n[n].hasIif) \/ p = None THEN AssignNone(s, n)
    ELSE FoldLeft(LAMBDA t, d : ApplyConstraint(t, p, d),
                  AssignPkg(IF s.p[p].sel /\ s.p[p].tagOk THEN s ELSE MarkError(s, p), p),
                  u.depends[p])

SelectPackage(s, n) == Select(s, n, Best(s, n))

-----------------------------------------------------------------------------
(* The main loop of apk_solver_solve.                                       *)
Active == SelectSeq(world, LAMBDA d : d.n \notin broken)

(* From label restart to the loop: discover and apply the world.            *)
Started(s) ==
    LET s1 == DiscoverNames(s, DepNames(Active))
        s2 == FoldLeft(LAMBDA t, d : ApplyConstraint([t EXCEPT !.pin = {d.tag}], None, d),
                       s1, Active)
    IN  [s2 EXCEPT !.inherit = {}, !.pin = {}]

Popped(s) == [s EXCEPT !.dirty = Tail(@)]
Head3(s) ==
    IF s.resolvenow # <<>> THEN Head(s.resolvenow)
    ELSE IF s.selectable # <<>> THEN Head(s.selectable)
    ELSE Head(s.unresolved)

Reconsider ==
    /\ ss.dirty # <<>>
    /\ ss' = ReconsiderName(Popped(ss), Head(ss.dirty))

Decide ==
    /\ ss.dirty = <<>> /\ Waiting(ss) # {}
    /\ ss' = SelectPackage(Unqueue(ss, Head3(ss)), Head3(ss))

Settled == ss.dirty = <<>> /\ Waiting(ss) = {}
=============================================================================
