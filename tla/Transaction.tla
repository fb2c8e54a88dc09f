---------------------------- MODULE Transaction ----------------------------
(***************************************************************************)
(* Commands that change the system (app_add.c, app_del.c, app_upgrade.c,   *)
(* app_fix.c) around the solver: each edits a copy of the world, sets      *)
(* flags on names, solves, and commits the changes or reports errors       *)
(* (commit.c).  Every command is a new process; what stays between two of  *)
(* them is dbWorld and installed.  Applying a change is one step here;     *)
(* InstalledFiles and DirTree model what it does to files.                 *)
(***************************************************************************)
EXTENDS Changeset

CONSTANTS
    Args,           \* dependencies that users may type
    UpgradeFlags,   \* sets of solver flags of apk upgrade
    Virtual,        \* the package that add --virtual creates, or None
    Universes,      \* the package databases to start from
    MaxCommands     \* bound on the number of commands

VARIABLES
    dbWorld,        \* the world of the database, as last committed
    pc,             \* "idle", "start", "loop", "generated"
    opts,           \* the solver flags given to apk_solver_solve
    phase,          \* Whole, or what remains to do while apk upgrades itself
    cmds,           \* commands run so far
    forced          \* --force-broken-world, as the administrator gives it
tvars == <<u, installed, ss, world, broken, dbWorld, pc, opts, phase, cmds, forced>>

NoState == State0([p \in Pkg |-> PkgState0], {}, {})

(* apk_solver_set_name_flags on a set of names                              *)
FlagNames(names, own, inherited) ==
    LET hit == UNION {ProvPkgs(n) : n \in names}
    IN  State0([p \in Pkg |-> [PkgState0 EXCEPT
                    !.flags = IF p \in hit THEN own ELSE {},
                    !.inherit = IF p \in hit THEN inherited ELSE {}]], names, {})

CheckWorld(w) == forced \/ \A d \in ToSet(w) : d.tag = DefaultTag \/ d.tag \in u.repoTags

(* apk_solver_solve up to its loop                                          *)
Whole == [self |-> FALSE, flags |-> {}, prune |-> FALSE]
Solve(w, flagged, o, ph, given) ==
    /\ world' = Sorted(w) /\ broken' = given /\ opts' = o /\ phase' = ph /\ pc' = "start"
    /\ ss' = [flagged EXCEPT !.inherit = o, !.ignore = "ignore_conflict" \in o,
                             !.self = ph.self]

NewCommand == pc = "idle" /\ cmds < MaxCommands /\ cmds' = cmds + 1 /\ UNCHANGED forced

(* A command that ends before it has solved anything.                       *)
Refuse ==
    UNCHANGED <<u, installed, ss, world, broken, dbWorld, pc, opts, phase>>

-----------------------------------------------------------------------------
(* apk add DEP, with the flags of --upgrade and --latest                    *)
Add(d, flags) ==
    /\ NewCommand
    /\ LET w == DepsAdd(dbWorld, d)
       IN  IF CheckWorld(w)
           THEN Solve(w, FlagNames({d.n}, flags, flags), {}, Whole, {})
                /\ UNCHANGED <<u, installed, dbWorld>>
           ELSE Refuse

(* apk add --virtual: create_virtual_package and apk_db_pkg_rdepends.       *)
WithVirtual(n, d) ==
    LET grown(f, x) == f @@ (Virtual :> x)
    IN  Index([u EXCEPT !.pkgs = Append(@, Virtual), !.name = grown(@, n),
                 !.ver = grown(@, 1), !.prio = grown(@, 0), !.depends = grown(@, <<d>>),
                 !.provides = grown(@, <<>>), !.iif = grown(@, <<>>), !.tags = grown(@, {}),
                 !.cached = @ \cup {Virtual}, !.empty = @ \cup {Virtual}])

AddVirtual(n, d) ==
    /\ NewCommand /\ Virtual \notin Pkg \cup {None}
    /\ u' = WithVirtual(n, d)
    /\ world' = Sorted(DepsAdd(dbWorld, [n |-> n, op |-> {"="}, v |-> 1, not |-> FALSE,
                                         tag |-> DefaultTag]))
    /\ ss' = State0([p \in Pkg \cup {Virtual} |-> PkgState0], {n}, {})
    /\ broken' = {} /\ opts' = {} /\ phase' = Whole /\ pc' = "start"
    /\ UNCHANGED <<installed, dbWorld>>

-----------------------------------------------------------------------------
(* apk del: delete_pkg, and with --rdepends the installed packages that it  *)
(* satisfies.  Each package is looked at once: apk_pkg_match_genid marks it *)
(* before its dependencies are looked at.                                   *)
RECURSIVE DeletePkg(_, _, _)
Delete0(acc, p, recursive) ==
    LET own == IF recursive THEN ToSet(OwnNames(p)) ELSE {PkgName(p)}
    IN  [acc EXCEPT !.world = SelectSeq(@, LAMBDA d : d.n \notin own),
                    !.names = @ \cup {PkgName(p)}]
(* Faulty: the packages that need the deleted one go, not those that need   *)
(* them.                                                                    *)
DeletePkgOnce(acc, p, recursive) ==
    LET needs(q) == \E d \in ToSet(u.depends[q]) : Analyze(q, d, p) = "satisfies"
        gone == SelectSeq(InstalledSeq, LAMBDA q : needs(q))
    IN  IF recursive THEN FoldLeft(LAMBDA a, q : Delete0(a, q, TRUE), Delete0(acc, p, TRUE), gone)
        ELSE Delete0(acc, p, FALSE)

DeletePkg(acc, p, recursive) ==
    LET names == FlattenSeq([i \in DOMAIN OwnNames(p) |-> u.rdep[OwnNames(p)[i]]])
        provs == FlattenSeq([i \in DOMAIN names |-> Providers(names[i])])
        needs(q) == \E d \in ToSet(u.depends[q]) : Analyze(q, d, p) = "satisfies"
        visit(a, q) ==
            IF q.pkg \notin Installed \/ q.pkg \in a.visited THEN a
            ELSE LET a1 == [a EXCEPT !.visited = @ \cup {q.pkg}]
                 IN  IF needs(q.pkg) THEN DeletePkg(a1, q.pkg, recursive) ELSE a1
    IN  IF recursive THEN FoldLeft(visit, Delete0(acc, p, TRUE), provs)
        ELSE Delete0(acc, p, FALSE)

Deleted(n, recursive) ==
    LET acc == [world |-> dbWorld, names |-> {}, visited |-> {}]
    IN  IF InstalledOf(n) = {} THEN [acc EXCEPT !.world = DepsDel(@, n)]
        ELSE DeletePkg(acc, CHOOSE p \in InstalledOf(n) : TRUE, recursive)

Del(n, recursive) ==
    /\ NewCommand
    /\ LET d == Deleted(n, recursive)
       IN  Solve(d.world, FlagNames(d.names, {"remove"}, {}), {}, Whole, {})
    /\ UNCHANGED <<u, installed, dbWorld>>

-----------------------------------------------------------------------------
(* apk upgrade: the whole world, or the given names; with --available       *)
(* checksum dependencies are loosened, with --prune those without a         *)
(* repository are dropped.                                                  *)
UpgradedWorld(flags, prune) ==
    LET loose(d) == IF "available" \in flags /\ IsChecksum(d)
                    THEN [d EXCEPT !.op = AnyOp, !.v = 0] ELSE d
        w == [i \in DOMAIN dbWorld |-> loose(dbWorld[i])]
    IN  IF prune THEN SelectSeq(w, LAMBDA d : ProvPkgs(d.n) \cap u.avail # {}) ELSE w

(* apk_do_self_upgrade applies when a newer apk is in a repository.         *)
SelfUpgradable ==
    u.self # None /\ \E p \in InstalledOf(u.self), q \in ProvPkgs(u.self) :
        PkgName(q) = u.self /\ u.tags[q] # {} /\ u.ver[q] > u.ver[p]

FullUpgrade(flags, prune, flagged, given) ==
    Solve(UpgradedWorld(flags, prune), [NoState EXCEPT !.flagged = flagged],
          flags \cup {"upgrade"}, Whole, given)

Upgrade(flags, prune) ==
    /\ NewCommand
    /\ IF ~CheckWorld(dbWorld) THEN Refuse
       ELSE /\ IF SelfUpgradable
               THEN Solve(dbWorld, FlagNames({u.self}, flags \cup {"upgrade"}, {}), {},
                          [self |-> TRUE, flags |-> flags, prune |-> prune], {})
               ELSE FullUpgrade(flags, prune, {}, {})
            /\ UNCHANGED <<u, installed, dbWorld>>

UpgradeName(n, ignore) ==
    /\ NewCommand
    /\ IF ~CheckWorld(dbWorld) THEN Refuse
       ELSE /\ Solve(dbWorld, FlagNames({n}, {IF ignore THEN "installed" ELSE "upgrade"}, {}),
                     IF ignore THEN {"upgrade"} ELSE {}, Whole, {})
            /\ UNCHANGED <<u, installed, dbWorld>>

(* apk fix NAME, with --reinstall or --upgrade, and --depends               *)
Fix(n, flag, depends) ==
    /\ NewCommand
    /\ IF ~CheckWorld(dbWorld) THEN Refuse
       ELSE /\ Solve(dbWorld, FlagNames({n}, {flag}, IF depends THEN {flag} ELSE {}),
                     {}, Whole, {})
            /\ UNCHANGED <<u, installed, dbWorld>>

-----------------------------------------------------------------------------
(* Solving.                                                                 *)
Start ==
    /\ pc = "start" /\ pc' = "loop" /\ ss' = Started(ss)
    /\ UNCHANGED <<u, installed, world, broken, dbWorld, opts, phase, cmds, forced>>

Step ==
    /\ pc = "loop" /\ (Reconsider \/ Decide)
    /\ UNCHANGED <<u, installed, world, broken, dbWorld, pc, opts, phase, cmds, forced>>

Generate ==
    /\ pc = "loop" /\ Settled
    /\ pc' = "generated" /\ ss' = Generated(ss)
    /\ UNCHANGED <<u, installed, world, broken, dbWorld, opts, phase, cmds, forced>>

(* Faulty: only dependencies without a provider are given up.               *)
RestartMissing ==
    /\ pc = "generated" /\ ss.errors > 0 /\ forced
    /\ broken' = broken \cup {d.n : d \in {x \in ToSet(world) :
                                  ss.n[x.n].chosen.pkg = None}}
    /\ ss' = Restarted(ss, opts) /\ pc' = "start"
    /\ UNCHANGED <<u, installed, world, dbWorld, opts, phase, cmds, forced>>

Hopeless(d) ==
    LET p == ss.n[d.n].chosen.pkg IN p = None \/ ss.p[p].error
Restart ==
    /\ pc = "generated" /\ ss.errors > 0 /\ forced
    /\ broken' = broken \cup {d.n : d \in {x \in ToSet(world) : Hopeless(x)}}
    /\ ss' = Restarted(ss, opts) /\ pc' = "start"
    /\ UNCHANGED <<u, installed, world, dbWorld, opts, phase, cmds, forced>>

-----------------------------------------------------------------------------
(* apk_solver_commit_changeset.  Removing the old package and installing    *)
(* the new one is one change; a package that stays gets its new tag.        *)
Applied(inst, c) ==
    LET kept == [p \in DOMAIN inst \ {c.old} |-> inst[p]]
    IN  IF c.new = None THEN kept
        ELSE (c.new :> c.tag) @@ kept
AfterChanges(inst, changes) == FoldLeft(Applied, inst, changes)

Finish ==
    /\ pc' = "idle"
    /\ ss' = NoState /\ broken' = {} /\ opts' = {} /\ phase' = Whole
    /\ UNCHANGED <<u, cmds, forced>>

Solved == pc = "generated" /\ ss.errors = 0

Commit ==
    /\ Solved /\ ~phase.self
    /\ installed' = AfterChanges(installed, ss.changes)
    /\ dbWorld' = world /\ world' = world
    /\ Finish

(* Nothing is committed: with --simulate, when the user answers no, when a  *)
(* package cannot be downloaded beforehand, when a pre-commit hook fails.   *)
Uncommitted ==
    /\ Solved /\ ~phase.self
    /\ UNCHANGED <<installed, dbWorld, world>>
    /\ Finish
Simulated == Uncommitted
Declined == Uncommitted /\ \E c \in ToSet(ss.changes) : c.old # c.new \/ c.reinstall
ToDownload(c) ==
    c.new # None /\ c.new # c.old /\ c.new \in u.avail \ (u.cached \cup u.local \cup u.empty)
PrecacheFailed == Uncommitted /\ \E c \in ToSet(ss.changes) : ToDownload(c)
HookFailed == Uncommitted

(* The end of apk_do_self_upgrade: without changes, or when apk alone       *)
(* cannot be upgraded, the full upgrade follows; otherwise the new apk is   *)
(* executed with --no-self-upgrade.                                         *)
SelfUpgraded ==
    /\ Solved /\ phase.self
    /\ IF ~ss.total
       THEN /\ FullUpgrade(phase.flags, phase.prune, {u.self}, broken)
            /\ UNCHANGED installed
       ELSE /\ FullUpgrade(phase.flags, phase.prune, {}, {})
            /\ installed' = AfterChanges(installed, ss.changes)
    /\ UNCHANGED <<u, dbWorld, cmds, forced>>

SelfUpgradeFailed ==
    /\ pc = "generated" /\ ss.errors > 0 /\ ~forced /\ phase.self
    /\ FullUpgrade(phase.flags, phase.prune, {u.self}, broken)
    /\ UNCHANGED <<u, installed, dbWorld, cmds, forced>>

-----------------------------------------------------------------------------
(* apk_solver_print_errors: which packages and names are reported.          *)
Marked(s) == {c.new : c \in ToSet(s.changes)} \ {None}

PinningError(p, tag) ==
    /\ p \notin Installed
    /\ \/ p \notin u.avail \cup u.cached \cup u.local
       \/ u.tags[p] = {} /\ p \in u.cached
       \/ u.tags[p] # {} /\ u.tags[p] \cap {DefaultTag, tag} = {}

ConflictsWith(p, marked) ==
    \/ \E q \in ProvPkgs(PkgName(p)) \cap marked : q # p
    \/ \E d \in ToSet(u.provides[p]) :
          LET qs == Providers(d.n)
              self == SelectInSeq(qs, LAMBDA q : q.pkg = p /\ q.ver = d.v)
          IN  \E i \in DOMAIN qs \ {self} :
                 qs[i].pkg \in marked /\ (d.v # 0 \/ qs[i].ver # 0)

Breaks(p, marked) ==
    \/ \E d \in ToSet(world) : Analyze(None, d, p) = "conflicts"
    \/ \E q \in marked : \E d \in ToSet(u.depends[q]) : Analyze(q, d, p) = "conflicts"

Labelled(c, marked) ==
    \/ c.new \in u.unusable \/ PinningError(c.new, c.tag)
    \/ ConflictsWith(c.new, marked) \/ Breaks(c.new, marked)

(* discover_name of commit.c: the states of marked packages and of the      *)
(* names they provide, from the world along dependencies and install_if.    *)
Concrete(p, n) ==
    PkgName(p) = n \/ \E d \in ToSet(u.provides[p]) : d.n = n /\ d.v # 0

RECURSIVE DiscoverState(_, _, _, _)
RECURSIVE DiscoverRequired(_, _, _)
DiscoverIif(st, p, marked) ==
    LET rnames == FlattenSeq([i \in DOMAIN OwnNames(p) |-> u.riif[OwnNames(p)[i]]])
        provs == FlattenSeq([i \in DOMAIN rnames |-> Providers(rnames[i])])
        present(t, n) == t.n[n] \cap {"present", "installif"} # {}
        fires(t, q) == /\ q \in marked /\ u.iif[q] # <<>>
                       /\ \A d \in ToSet(u.iif[q]) : d.not # present(t, d.n)
    IN  FoldLeft(LAMBDA t, q :
                   IF ~fires(t, q.pkg) THEN t
                   ELSE FoldLeft(LAMBDA r, n : DiscoverState(r, n, "installif", marked),
                                 t, OwnNames(q.pkg)),
                 st, provs)
DiscoverRequired(st, deps, marked) ==
    FoldLeft(LAMBDA t, d : IF d.not THEN t ELSE DiscoverState(t, d.n, "present", marked),
             st, deps)
DiscoverState(st, n, how, marked) ==
    LET visit(t, q) ==
          LET p == q.pkg
              state == IF u.prio[p] = 0 /\ ~Concrete(p, n) THEN "virtual" ELSE how
              of(d) == IF state = "installif" /\ d.v = 0 THEN "virtual" ELSE state
              names == [m \in Name |->
                          t.n[m] \cup (IF m = PkgName(p) THEN {state} ELSE {})
                                 \cup {of(d) : d \in {x \in ToSet(u.provides[p]) : x.n = m}}]
              t1 == DiscoverRequired([p |-> [t.p EXCEPT ![p] = @ \cup {state}], n |-> names],
                                     u.depends[p], marked)
          IN  IF p \notin marked THEN t
              ELSE IF state \in t.p[p] THEN t
              ELSE IF state = "virtual" THEN t1 ELSE DiscoverIif(t1, p, marked)
    IN  FoldLeft(visit, st, Providers(n))

Missing(s) ==
    LET st == DiscoverRequired([p |-> [x \in Pkg |-> {}], n |-> [x \in Name |-> {}]],
                               world, Marked(s))
        deps == ToSet(world) \cup UNION {ToSet(u.depends[p]) : p \in Marked(s)}
    IN  {d.n : d \in {x \in deps : ~x.not /\ st.n[x.n] \cap {"present", "installif"} = {}}}

Labels(s) ==
    {c.new : c \in {x \in ToSet(s.changes) : x.new # None /\ Labelled(x, Marked(s))}}
      \cup Missing(s)

Report ==
    /\ pc = "generated" /\ ss.errors > 0 /\ ~forced /\ ~phase.self
    /\ UNCHANGED <<installed, dbWorld, world>>
    /\ Finish

-----------------------------------------------------------------------------
(* The repositories offer other packages; packages that are neither offered *)
(* nor installed are no longer in the database of the next process.         *)
Offer(d, S, kept) ==
    Index([d EXCEPT !.avail = S,
                    !.pkgs = SelectSeq(d.all, LAMBDA p : p \in S \cup kept),
                    !.tags = [p \in DOMAIN @ |-> IF p \in S THEN d.home[p] ELSE {}]])
RepoChange ==
    /\ pc = "idle" /\ cmds < MaxCommands /\ Virtual \notin Pkg
    /\ \E S \in u.offers : u.avail # S /\ u' = Offer(u, S, Installed)
    /\ UNCHANGED <<installed, ss, world, broken, dbWorld, pc, opts, phase, cmds, forced>>

Init ==
    /\ \E d \in Universes : \E S \in d.offers : u = Offer(d, S, {})
    /\ installed = [p \in {} |-> DefaultTag]
    /\ dbWorld = <<>> /\ world = <<>> /\ broken = {} /\ opts = {} /\ phase = Whole
    /\ ss = NoState /\ pc = "idle" /\ cmds = 0
    /\ forced \in u.force

(* Names that a pattern of the command line can match.                      *)
Matchable == {n \in Name : u.prov[n] # <<>>}
Command ==
    \/ \E d \in Args, flags \in {{}, {"latest"}} : Add(d, flags)
    \/ \E d \in Args, n \in Name : u.prov[n] = <<>> /\ AddVirtual(n, d)
    \/ \E n \in Matchable, recursive \in BOOLEAN : Del(n, recursive)
    \/ \E flags \in UpgradeFlags, prune \in BOOLEAN : Upgrade(flags, prune)
    \/ \E n \in Matchable, ignore \in BOOLEAN : UpgradeName(n, ignore)
    \/ \E n \in Matchable, flag \in {"reinstall", "upgrade"}, depends \in BOOLEAN :
          Fix(n, flag, depends)

Solving == Start \/ Step \/ Generate
Ending ==
    \/ Restart \/ Commit \/ SelfUpgraded \/ SelfUpgradeFailed \/ Report
    \/ Simulated \/ Declined \/ PrecacheFailed \/ HookFailed

Next == Command \/ Solving \/ Ending \/ RepoChange
(* A process that runs goes on.  The second conjunct is weak fairness of    *)
(* Solving, which is enabled exactly while pc is "start" or "loop".         *)
Fairness ==
    /\ WF_tvars(Ending)
    /\ []<>(pc \notin {"start", "loop"}) \/ []<><<pc \in {"start", "loop"}>>_tvars
Spec == Init /\ [][Next]_tvars /\ Fairness

-----------------------------------------------------------------------------
(* Properties.                                                              *)
Chosen(s) == {s.n[x].chosen.pkg : x \in Name} \ {None}

Met(S, by, d) ==
    LET among == {q \in ToSet(Providers(d.n)) : q.pkg \in S}
    IN  IF d.not THEN \A q \in among : IsProvided(by, d, q)
        ELSE \E q \in among : IsProvided(by, d, q)

Clash(p, q) ==
    \/ PkgName(p) = PkgName(q)
    \/ \E n \in Name : \E x \in ToSet(Provided(u, p, n)), y \in ToSet(Provided(u, q, n)) :
          x.ver # 0 \/ y.ver # 0

(* A solution without errors satisfies every dependency of the world and of *)
(* every chosen package, conflicts included, and no two chosen packages     *)
(* claim one name (solver.c: select_package, assign_name, cset_gen_dep).    *)
SolutionValid ==
    Solved => LET S == Chosen(ss)
              IN  /\ \A d \in ToSet(Active) : Met(S, None, d)
                  /\ \A p \in S : \A d \in ToSet(u.depends[p]) : Met(S, p, d)
                  /\ \A p, q \in S : p # q => ~Clash(p, q)

(* Applied in order to what is installed, the changes of a solution without *)
(* errors lead to exactly the chosen packages; each change finds its old    *)
(* package installed and its new one not (generate_changeset).              *)
ChangesetRealises ==
    Solved =>
        LET at(i) == DOMAIN AfterChanges(installed, SubSeq(ss.changes, 1, i - 1))
            ch(i) == ss.changes[i]
        IN  /\ DOMAIN AfterChanges(installed, ss.changes) = Chosen(ss)
            /\ \A i \in DOMAIN ss.changes :
                  /\ ch(i).old \in at(i) \cup {None}
                  /\ ch(i).new \in at(i) => ch(i).new = ch(i).old

(* A name that something requires is never forgotten: until it is decided   *)
(* it is on one of the queues, and a pending reevaluation is on the dirty   *)
(* queue (queue_dirty, queue_unresolved, assign_name).                      *)
NoNameForgotten ==
    pc = "loop" => \A n \in Name :
        LET x == ss.n[n]
        IN  x.req > 0 /\ ~x.locked =>
               /\ n \in Waiting(ss) \cup ToSet(ss.dirty)
               /\ x.reDeps \/ x.reIif => n \in ToSet(ss.dirty)

(* When solving fails the report names a package or a name: the line "Huh?  *)
(* Error reporter did not find the broken constraints" is never printed.    *)
ReportNamesCause ==
    pc = "generated" /\ ss.errors > 0 => Labels(ss) # {}

(* What solving comes to, when the loop ends and while it runs.             *)
SolutionSound == SolutionValid /\ NoNameForgotten /\ ReportNamesCause

DependsOn(S) ==
    {e \in S \X S : e[1] # e[2] /\ \E d \in ToSet(u.depends[e[1]]) :
        ~d.not /\ \E q \in ToSet(Providers(d.n)) : q.pkg = e[2] /\ IsProvided(e[1], d, q)}
Acyclic(R, S) ==
    \A T \in (SUBSET S) \ {{}} : \E p \in T : \A q \in T : <<p, q>> \notin R
(* A package without install_if is installed after the packages it depends  *)
(* on, unless packages depend on each other in a circle.                    *)
InstallsInOrder ==
    Solved /\ Acyclic(DependsOn(Chosen(ss)), Chosen(ss)) =>
        \A i \in DOMAIN ss.changes :
            LET ch == ss.changes[i]
                now == DOMAIN AfterChanges(installed, SubSeq(ss.changes, 1, i))
            IN  ch.new # None /\ ch.new # ch.old /\ u.iif[ch.new] = <<>> =>
                   \A d \in ToSet(u.depends[ch.new]) : d.not \/ Met(now, ch.new, d)

(* Packages without install_if are installed after what they depend on, and *)
(* of two packages that go the one that depends on the other goes first     *)
(* (cset_gen_name_change, cset_gen_name_remove).                            *)
PlainOrder ==
    /\ InstallsInOrder
    /\ Solved /\ Acyclic(DependsOn(Installed), Installed) =>
          \A i, j \in DOMAIN ss.changes :
              i < j /\ ss.changes[i].new = None /\ ss.changes[j].new = None =>
                  <<ss.changes[j].old, ss.changes[i].old>> \notin DependsOn(Installed)

(* The changes lead to the solution, in an order in which they can be made. *)
ChangesetSound == ChangesetRealises /\ PlainOrder

(* apk del --rdepends takes every installed package that needs the deleted  *)
(* one, directly or through others, out of the world (delete_pkg).          *)
RECURSIVE Needing(_)
Needing(S) ==
    LET T == S \cup {q \in Installed : \E p \in S : \E d \in ToSet(u.depends[q]) :
                        Analyze(q, d, p) = "satisfies" /\ ~d.not}
    IN  IF T = S THEN S ELSE Needing(T)
DelIsComplete ==
    [][\A n \in Name : Del(n, TRUE) =>
          \A q \in Needing(InstalledOf(n)) : ~Mentions(world', PkgName(q))]_tvars

(* Every command ends (apk_solver_solve: the loop, and the restarts of      *)
(* --force-broken-world).                                                   *)
CommandEnds == pc # "idle" ~> pc = "idle"

(* The solver's work shrinks: an iteration of the main loop decides a name, *)
(* or rules out a package, or requires a name for the first time, or leaves *)
(* fewer dirty names; a restart disables another world dependency, as long  *)
(* as no package has install_if.  Hence every other command ends.           *)
Measure(s) ==
    <<Cardinality({n \in Name : ~s.n[n].locked}), Cardinality({p \in Pkg : s.p[p].sel}),
      Cardinality({n \in Name : s.n[n].req = 0}), Len(s.dirty)>>
Below(x, y) == \E i \in DOMAIN x : x[i] < y[i] /\ \A j \in 1 .. i - 1 : x[j] = y[j]
SolverProgress ==
    [][/\ pc = "loop" /\ pc' = "loop" => Below(Measure(ss'), Measure(ss))
       /\ /\ pc = "generated" /\ pc' = "start" /\ ss.errors > 0 /\ forced
          /\ \A p \in Pkg : u.iif[p] = <<>>
          => broken # broken']_tvars
=============================================================================
