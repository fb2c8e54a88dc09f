----------------------------- MODULE CacheSteps -----------------------------
(***************************************************************************)
(* The cache directory, step by step: the types of the state, what the     *)
(* processes do when, which inode a name and an open file stand for, and   *)
(* that a file with its final name is whole.                               *)
(***************************************************************************)
EXTENDS Cache, TLAPS

(* The types of the state.  A version 0 is none, and so is a descriptor 0.  *)
Ver == 0 .. Len(Offers)
Suffix == {"", ".tmp"}
Names == File \X Suffix
Busy == {"fetch", "transfer", "fetched"}
Fd == Inode \cup {0}
Parts == 0 .. 2
Stages == {"idle", "load", "clean", "plan", "precache", "install"} \cup Busy
Results == {"none", "ok", "unchanged", "error", "nofile"}
ProcRec ==
    [pc : Stages,
     verb : Verbs \cup {"none"}, asked : Ver, since : Nat, refreshed : BOOLEAN,
     failed : BOOLEAN, view : Ver, known : SUBSET Pkgs, cached : SUBSET Pkgs,
     plan : SUBSET Pkgs, todo : SUBSET (Pkgs \cup Names), pre : BOOLEAN, bad : BOOLEAN,
     file : File, fd : Fd, ver : Ver, got : Parts,
     res : Results]
Types ==
    /\ now \in Nat /\ served \in DOMAIN Offers
    /\ DOMAIN dir \subseteq Names /\ dir \in [DOMAIN dir -> Inode]
    /\ data \in [Inode -> [part : Ver \X Ver, mtime : Nat]]
    /\ proc \in [Proc -> ProcRec]
    /\ DOMAIN installed \subseteq Pkgs

(* What a process is doing, from its program counter: apk cache downloads   *)
(* packages only and always in advance, a file is open during a transfer.   *)
Downloads(x) == x.pc \in Busy /\ x.file # Index
Role(p, x) ==
    /\ x.fd # 0 => x.pc = "transfer"
    /\ x.pc = "transfer" => x.ver # 0 /\ (x.pre \/ x.file = Index => x.fd # 0)
    /\ x.pc \in {"precache", "install"} \/ Downloads(x) => x.todo \subseteq Pkgs
    /\ (x.pc = "install" => ~x.pre) /\ (x.pc = "precache" => x.pre)
    /\ ~x.pre => ~x.bad
    /\ p = "cache" /\ x.pc # "idle" => x.pre /\ (x.pc \in Busy => x.file # Index)
    /\ x.res = "unchanged" => x.pc = "fetched" /\ x.file = Index
Roles == \A p \in Proc : Role(p, proc[p])

(* Names and open files.  No inode has two names; the one a process writes  *)
(* is named after the file it downloads, and holds what it has received as  *)
(* long as no other process downloads the same file.                        *)
Alone(f) == f = Index \/ "shared" \notin meddled
Writes(x) ==
    /\ \A n \in DOMAIN dir : dir[n] = x.fd => n[1] = x.file
    /\ Alone(x.file) =>
          /\ \A n \in DOMAIN dir : dir[n] = x.fd <=> n = Tmp(x.file)
          /\ x.got > 0 => data[x.fd].part[1] = x.ver
          /\ x.got > 1 => data[x.fd].part[2] = x.ver
Links ==
    /\ \A n, m \in DOMAIN dir : dir[n] = dir[m] => n = m
    /\ \A p \in Proc : proc[p].fd # 0 => Writes(proc[p])
    /\ \A p, q \in Proc : p # q /\ proc[p].fd # 0 /\ proc[q].fd # 0 =>
          IF proc[p].file = proc[q].file THEN "shared" \in meddled ELSE proc[p].fd # proc[q].fd
Complete == \A f \in File : Alone(f) /\ Exists(f) => Whole(Content(f).part)

(* What apk takes to be cached is there, or it will not look again.         *)
Committing(x) == x.pc \in {"plan", "precache", "install"} \/ Downloads(x)
Passed(x, q) == ~x.pre /\ x.pc # "plan" /\ q \notin x.todo
Believed ==
    LET x == proc["apk"] IN
    /\ Committing(x) /\ ~x.bad /\ meddled = {} => \A q \in x.cached : Exists(q) \/ Passed(x, q)
    /\ Downloads(x) /\ ~x.pre => x.file \notin x.todo
    /\ Downloads(x) /\ x.pre /\ x.pc = "fetched" /\ ~Bad(x.res) /\ meddled = {} => Exists(x.file)

(* apk update asks without a date, and what it gets is what was served.     *)
Updating ==
    LET x == proc["apk"] IN
    /\ x.asked <= served
    /\ x.verb = "update" =>
          /\ x.pc \in Busy \cup {"load"} /\ x.since = 0 /\ x.file = Index
          /\ x.pc = "transfer" => x.ver >= x.asked
          /\ (x.pc = "fetched" /\ ~Bad(x.res)) \/ (x.pc = "load" /\ ~x.failed) => View >= x.asked

(* As long as a temporary file can be missing, an inode is free.            *)
Free ==
    \A f \in File : Tmp(f) \notin DOMAIN dir =>
        \E i \in Inode : /\ i \notin {dir[x] : x \in DOMAIN dir}
                         /\ \A p \in Proc : proc[p].fd # i

(* The temporary file that a process opens is its own or nobody's.          *)
LEMMA OpenedIsFree ==
    ASSUME Types, Free, NEW f \in File
    PROVE  /\ Opened(f) \in Inode
           /\ IF Tmp(f) \in DOMAIN dir THEN Opened(f) = dir[Tmp(f)]
              ELSE /\ \A n \in DOMAIN dir : dir[n] # Opened(f)
                   /\ \A p \in Proc : proc[p].fd # Opened(f)
<1>1. CASE Tmp(f) \in DOMAIN dir
  BY <1>1, Zenon DEF Opened, Types
<1>2. CASE Tmp(f) \notin DOMAIN dir
  BY <1>2, Zenon DEF Opened, Free
<1>3. QED
  BY <1>1, <1>2, Zenon

(* What a process reads in the directory has its type.                      *)
LEMMA ReadTypes ==
    ASSUME Types
    PROVE  /\ \A f \in File : Exists(f) => /\ dir[Final(f)] \in Inode
                                           /\ Content(f).part \in Ver \X Ver
                                           /\ Content(f).mtime \in Nat
           /\ View \in Ver
           /\ \A v \in Ver : Seen(v) \subseteq Pkgs
           /\ served \in Ver /\ served # 0 /\ 1 \in Ver /\ 0 \in Ver
<1>1. \A f \in File : Exists(f) => /\ dir[Final(f)] \in Inode
                                   /\ Content(f).part \in Ver \X Ver
                                   /\ Content(f).mtime \in Nat
  BY Zenon DEF Types, Exists, Content
<1>2. served \in Ver /\ served # 0 /\ 1 \in Ver /\ 0 \in Ver
  BY CacheAssumption DEF Types, Ver
<1>3. View \in Ver
  BY <1>1, <1>2, Zenon DEF View, File
<1>4. \A v \in Ver : Seen(v) \subseteq Pkgs
  BY CacheAssumption DEF Seen, Ver, Types
<1>5. QED
  BY <1>1, <1>2, <1>3, <1>4, Zenon

(* Versions, descriptors and parts are small numbers.                       *)
LEMMA Numbers ==
    /\ 0 \in Ver /\ 1 \in Ver /\ 0 \in Fd /\ Inode \subseteq Fd /\ 0 \in Parts
    /\ \A g \in Parts : g < 2 => g + 1 \in Parts
BY CacheAssumption DEF Ver, Fd, Parts

(* The stages and results that the actions set.                             *)
LEMMA Words ==
    /\ \A c \in {"idle", "load", "clean", "plan", "precache", "install", "fetch", "transfer",
                 "fetched"} : c \in Stages
    /\ \A r \in {"none", "ok", "unchanged", "error", "nofile"} : r \in Results
BY Zenon DEF Stages, Busy, Results

(* A process that does not run.                                             *)
LEMMA IdleType == Idle \in ProcRec
BY Numbers, Words, Zenon DEF Idle, ProcRec, File

(* One process is set.                                                      *)
LEMMA SetType ==
    ASSUME Types, NEW p \in Proc, NEW r \in ProcRec, Set(p, r)
    PROVE  proc' \in [Proc -> ProcRec]
BY Zenon DEF Types, Set

(* Every step keeps the types of the processes.                             *)
LEMMA ProcTypes ==
    ASSUME Types, Free, Roles, Next
    PROVE  proc' \in [Proc -> ProcRec]
<1>1. ASSUME NEW verb \in Verbs \ CacheVerbs, NEW pre \in BOOLEAN, Begin(verb, pre)
      PROVE  proc' \in [Proc -> ProcRec]
  <2>1. Since(verb) \in Nat
    BY ReadTypes, Zenon DEF Since, File
  <2>2. IsIndexStale(verb) \in BOOLEAN
    BY Zenon DEF IsIndexStale
  <2> DEFINE r == [Idle EXCEPT !.verb = verb, !.pre = pre /\ verb # "update", !.asked = served,
                         !.since = Since(verb), !.refreshed = IsIndexStale(verb),
                         !.pc = IF IsIndexStale(verb) THEN "fetch" ELSE "load"]
  <2>3. r \in ProcRec
    <3>1. (pre /\ verb # "update") \in BOOLEAN /\ served \in Ver
          /\ (IF IsIndexStale(verb) THEN "fetch" ELSE "load") \in Stages
      BY ReadTypes, Words, Zenon
    <3>2. QED
      BY <2>1, <2>2, <3>1, IdleType, Zenon DEF ProcRec
  <2>4. Set("apk", r)
    BY <1>1, Zenon DEF Begin
  <2>5. QED
    BY <2>3, <2>4, SetType, Zenon DEF Proc
<1>2. ASSUME NEW verb \in Verbs \cap CacheVerbs, BeginCache(verb)
      PROVE  proc' \in [Proc -> ProcRec]
  <2> DEFINE r == [Idle EXCEPT !.verb = verb, !.pre = TRUE, !.pc = "load"]
  <2>1. r \in ProcRec
    BY IdleType, Words, Zenon DEF ProcRec
  <2>2. Set("cache", r)
    BY <1>2, Zenon DEF BeginCache
  <2>3. QED
    BY <2>1, <2>2, SetType, Zenon DEF Proc
<1>3. ASSUME NEW p \in Proc, Fetch(p)
      PROVE  proc' \in [Proc -> ProcRec]
  <2>0. proc[p] \in ProcRec
    BY Zenon DEF Types
  <2>1. \A r \in {"ok", "unchanged", "error", "nofile"} :
           [proc[p] EXCEPT !.pc = "fetched", !.res = r] \in ProcRec
    BY <2>0, Words, Zenon DEF ProcRec
  <2>2. \A i \in Fd : Teed(proc[p], i) \in ProcRec
    <3>1. (IF proc[p].file = Index THEN served ELSE 1) \in Ver
      BY ReadTypes, Zenon
    <3>2. QED
      BY <2>0, <3>1, Numbers, Words, Zenon DEF ProcRec, Teed
  <2>3. Opened(proc[p].file) \in Inode
    BY OpenedIsFree, Zenon DEF Types, ProcRec
  <2>4. Answers(proc[p].file, proc[p].since) \subseteq {"ok", "unchanged", "error", "nofile"}
    BY Zenon DEF Answers
  <2>5. \E r \in ProcRec : Set(p, r)
    BY <1>3, <2>1, <2>2, <2>3, <2>4, Numbers, Zenon DEF Fetch
  <2>6. QED
    BY <2>5, SetType, Zenon
<1>4. ASSUME NEW p \in Proc, Transfer(p) \/ Rename(p) \/ Precached(p) \/ Crash(p)
      PROVE  proc' \in [Proc -> ProcRec]
  <2>1. proc[p] \in ProcRec
    BY Zenon DEF Types
  <2>2. CASE Transfer(p)
    <3>1. proc[p].got < 2 => [proc[p] EXCEPT !.got = @ + 1] \in ProcRec
      BY <2>1, Numbers, Zenon DEF ProcRec
    <3>2. [proc[p] EXCEPT !.pc = "fetched", !.res = "error", !.fd = 0, !.got = 0, !.ver = 0]
             \in ProcRec
      BY <2>1, Numbers, Words, Zenon DEF ProcRec
    <3>3. QED
      BY <2>2, <3>1, <3>2, SetType, Zenon DEF Transfer
  <2>3. CASE Rename(p)
    <3>1. \A r \in {"ok", "error"} :
            [proc[p] EXCEPT !.pc = "fetched", !.fd = 0, !.got = 0, !.ver = 0, !.res = r]
               \in ProcRec
      BY <2>1, Numbers, Words, Zenon DEF ProcRec
    <3>2. \E r \in {"ok", "error"} : Set(p,
            [proc[p] EXCEPT !.pc = "fetched", !.fd = 0, !.got = 0, !.ver = 0, !.res = r])
      BY <2>3, Zenon DEF Rename
    <3>3. QED
      BY <3>1, <3>2, SetType, Zenon
  <2>4. CASE Precached(p)
    <3>1. \A S \in SUBSET Pkgs, b \in BOOLEAN :
            [Over(proc[p]) EXCEPT !.cached = S, !.bad = b, !.pc = "precache"] \in ProcRec
      BY <2>1, Words, Zenon DEF ProcRec, Over, File
    <3>2. Over(proc[p]).cached = proc[p].cached /\ Over(proc[p]).bad = proc[p].bad
      BY <2>1, Words, Zenon DEF ProcRec, Over
    <3>3. proc[p].file # Index => proc[p].cached \cup {proc[p].file} \in SUBSET Pkgs
      BY <2>1, Words, Zenon DEF ProcRec, File
    <3>4. \E S \in SUBSET Pkgs, b \in BOOLEAN :
            Set(p, [Over(proc[p]) EXCEPT !.cached = S, !.bad = b, !.pc = "precache"])
      <4> DEFINE S == IF proc[p].res = "nofile" THEN proc[p].cached ELSE proc[p].cached \cup {proc[p].file}
                 b == proc[p].bad \/ Bad(proc[p].res)
      <4>1. S \in SUBSET Pkgs /\ b \in BOOLEAN
        BY <2>1, <2>4, <3>3, Zenon DEF ProcRec, Precached, Bad
      <4>2. Set(p, [Over(proc[p]) EXCEPT !.cached = S, !.bad = b, !.pc = "precache"])
        BY <2>4, <3>2, Zenon DEF Precached, Over
      <4>3. QED
        BY <4>1, <4>2, Zenon
    <3>5. QED
      BY <3>1, <3>4, SetType, Zenon
  <2>5. CASE Crash(p)
    BY <2>5, IdleType, SetType, Zenon DEF Crash
  <2>6. QED
    BY <1>4, <2>2, <2>3, <2>4, <2>5, Zenon
<1>5. ASSUME NEW p \in Proc, Load(p)
      PROVE  proc' \in [Proc -> ProcRec]
  <2>0. proc[p] \in ProcRec
    BY Zenon DEF Types
  <2>1. {q \in Seen(View) : InCache(q)} \in SUBSET Pkgs /\ View \in Ver
        /\ DOMAIN installed \in SUBSET Pkgs /\ DOMAIN dir \in SUBSET (Pkgs \cup Names)
    BY ReadTypes, Zenon DEF Types
  <2>2. \A S \in SUBSET (Pkgs \cup Names), c \in {"clean", "plan"} :
          [proc[p] EXCEPT !.asked = 0, !.since = 0, !.refreshed = FALSE, !.failed = FALSE,
                                 !.view = View, !.known = DOMAIN installed,
                                 !.cached = {q \in Seen(View) : InCache(q)},
                                 !.todo = S, !.pc = c] \in ProcRec
    BY <2>0, <2>1, ReadTypes, Words, Zenon DEF ProcRec
  <2>3. \/ Set(p, Idle)
        \/ \E S \in SUBSET (Pkgs \cup Names), c \in {"clean", "plan"} :
           Set(p, [proc[p] EXCEPT !.asked = 0, !.since = 0, !.refreshed = FALSE, !.failed = FALSE,
                                 !.view = View, !.known = DOMAIN installed,
                                 !.cached = {q \in Seen(View) : InCache(q)},
                                 !.todo = S, !.pc = c])
    BY <1>5, <2>1, Zenon DEF Load
  <2>4. QED
    BY <2>2, <2>3, IdleType, SetType, Zenon
<1>6. ASSUME NEW p \in Proc, Plan(p)
      PROVE  proc' \in [Proc -> ProcRec]
  <2>0. proc[p] \in ProcRec
    BY Zenon DEF Types
  <2>1. \A S \in SUBSET Pkgs, R \in SUBSET Pkgs, c \in {"precache", "install"} :
           [proc[p] EXCEPT !.verb = "none", !.view = 0, !.known = {},
                           !.plan = R, !.todo = S, !.pc = c] \in ProcRec
    BY <2>0, ReadTypes, Words, Zenon DEF ProcRec
  <2>2. proc[p].view \in Ver
    BY Zenon DEF Types, ProcRec
  <2>3. \E S \in SUBSET Pkgs, R \in SUBSET Pkgs, c \in {"precache", "install"} :
           Set(p, [proc[p] EXCEPT !.verb = "none", !.view = 0, !.known = {},
                           !.plan = R, !.todo = S, !.pc = c])
    <3>1. (IF proc[p].view = 0 THEN {} ELSE Offers[proc[p].view]) \subseteq Pkgs
      BY <2>2, CacheAssumption DEF Ver
    <3>2. QED
      BY <1>6, <3>1, Zenon DEF Plan
  <2>4. QED
    BY <2>1, <2>3, SetType, Zenon
<1>7. ASSUME NEW p \in Proc, Precache(p)
      PROVE  proc' \in [Proc -> ProcRec]
  <2>1. proc[p] \in ProcRec /\ (proc[p].pc = "precache" => proc[p].todo \subseteq Pkgs)
    BY Zenon DEF Types, Roles, Role
  <2>2. \A q \in Pkgs : [proc[p] EXCEPT !.file = q, !.since = 0, !.todo = @ \ {q}, !.pc = "fetch"]
                            \in ProcRec
    BY <2>1, Words, Zenon DEF ProcRec, File
  <2>3. [proc[p] EXCEPT !.todo = proc[p].plan, !.plan = {}, !.pre = FALSE, !.pc = "install"]
           \in ProcRec
    BY <2>1, Words, Zenon DEF ProcRec
  <2>4. ToFetch(proc[p]) # {} => Pick(ToFetch(proc[p])) \in ToFetch(proc[p])
    BY Zenon DEF Pick
  <2>5. \E r \in ProcRec : Set(p, r)
    BY <1>7, <2>1, <2>2, <2>3, <2>4, IdleType, Zenon DEF Precache, ToFetch
  <2>6. QED
    BY <2>5, SetType, Zenon
<1>8. CASE IndexFetched
  <2>1. proc["apk"] \in ProcRec
    BY Zenon DEF Types, Proc
  <2>2. \A b \in BOOLEAN : [Over(proc["apk"]) EXCEPT !.failed = b, !.pc = "load"] \in ProcRec
    BY <2>1, Words, Zenon DEF ProcRec, Over, File
  <2>3. \E b \in BOOLEAN : Set("apk", [Over(proc["apk"]) EXCEPT !.failed = b, !.pc = "load"])
    <3>1. Bad(proc["apk"].res) \in BOOLEAN
      BY DEF Bad
    <3>2. QED
      BY <1>8, <3>1, Zenon DEF IndexFetched
  <2>4. QED
    BY <2>2, <2>3, SetType, Zenon DEF Proc
<1>9. CASE Install
  <2>1. proc["apk"] \in ProcRec /\ (proc["apk"].pc = "install" => proc["apk"].todo \subseteq Pkgs)
    BY Zenon DEF Types, Roles, Role, Proc
  <2>2. \A q \in Pkgs : /\ [proc["apk"] EXCEPT !.todo = @ \ {q}] \in ProcRec
                        /\ [proc["apk"] EXCEPT !.file = q, !.since = 0, !.todo = @ \ {q},
                                               !.pc = "fetch"] \in ProcRec
    BY <2>1, Words, Zenon DEF ProcRec, File
  <2>3. proc["apk"].todo # {} => Pick(proc["apk"].todo) \in proc["apk"].todo
    BY Zenon DEF Pick
  <2>4. \E r \in ProcRec : Set("apk", r)
    BY <1>9, <2>1, <2>2, <2>3, IdleType, Zenon DEF Install
  <2>5. QED
    BY <2>4, SetType, Zenon DEF Proc
<1>10. CASE InstallFetched
  <2>1. proc["apk"] \in ProcRec
    BY Zenon DEF Types, Proc
  <2>2. \A S \in SUBSET Pkgs :
           [Over(proc["apk"]) EXCEPT !.pc = "install", !.cached = S] \in ProcRec
    BY <2>1, Words, Zenon DEF ProcRec, Over, File
  <2>3. Over(proc["apk"]).cached = proc["apk"].cached /\ proc["apk"].cached \in SUBSET Pkgs
    BY <2>1, Words, Zenon DEF ProcRec, Over
  <2>4. proc["apk"].file # Index => proc["apk"].cached \cup {proc["apk"].file} \in SUBSET Pkgs
    BY <2>1, Words, Zenon DEF ProcRec, File
  <2>5. \E S \in SUBSET Pkgs :
           Set("apk", [Over(proc["apk"]) EXCEPT !.pc = "install", !.cached = S])
    <3> DEFINE S == IF proc["apk"].res = "ok" THEN proc["apk"].cached \cup {proc["apk"].file}
                    ELSE proc["apk"].cached
    <3>1. S \in SUBSET Pkgs
      BY <1>10, <2>3, <2>4, Zenon DEF InstallFetched
    <3>2. Set("apk", [Over(proc["apk"]) EXCEPT !.pc = "install", !.cached = S])
      BY <1>10, <2>3, Zenon DEF InstallFetched
    <3>3. QED
      BY <3>1, <3>2, Zenon
  <2>6. QED
    BY <2>2, <2>5, SetType, Zenon DEF Proc
<1>11. CASE Clean
  <2>1. proc["cache"] \in ProcRec
    BY Zenon DEF Types, Proc
  <2>2. /\ \A n : [proc["cache"] EXCEPT !.todo = @ \ {n}] \in ProcRec
        /\ [proc["cache"] EXCEPT !.pc = "plan"] \in ProcRec
    BY <2>1, Words, Zenon DEF ProcRec
  <2>3. \E r \in ProcRec : Set("cache", r)
    BY <1>11, <2>2, IdleType, Zenon DEF Clean
  <2>4. QED
    BY <2>3, SetType, Zenon DEF Proc
<1>12. CASE Publish \/ Tick
  BY <1>12, Zenon DEF Publish, Tick, Types
<1>13. QED
  BY <1>1, <1>2, <1>3, <1>4, <1>5, <1>6, <1>7, <1>8, <1>9, <1>10, <1>11, <1>12, Zenon DEF Next

(* The steps that change the cache directory or the files in it, one form   *)
(* for each, and what the others leave alone.                               *)
Opens(p) ==
    /\ proc[p].pc = "fetch" /\ OpenTmp(p, proc[p].file)
    /\ Set(p, Teed(proc[p], Opened(proc[p].file)))
Drops(p) ==
    LET f == proc[p].file
    IN  /\ proc[p].pc = "fetch" /\ dir' = Without(Tmp(f)) /\ meddled' = meddled \cup Sharing(p, f)
        /\ data' = IF Tmp(f) \in DOMAIN dir
                   THEN [data EXCEPT ![Opened(f)].part = <<0, 0>>] ELSE data
        /\ \E r \in Results : Set(p, [proc[p] EXCEPT !.pc = "fetched", !.res = r])
Fills(p) ==
    LET x == proc[p]
    IN  /\ x.pc = "transfer" /\ x.fd # 0 /\ x.got < 2 /\ Set(p, [x EXCEPT !.got = @ + 1])
        /\ data' = [data EXCEPT ![x.fd].part[x.got + 1] = x.ver, ![x.fd].mtime = Stamp(x.file)]
        /\ UNCHANGED <<dir, meddled>>
Breaks(p) ==
    /\ proc[p].pc = "transfer" /\ proc[p].fd # 0 /\ dir' = Without(Tmp(proc[p].file))
    /\ Set(p, [proc[p] EXCEPT !.pc = "fetched", !.res = "error", !.fd = 0, !.got = 0, !.ver = 0])
    /\ UNCHANGED <<data, meddled>>
Renames(p) ==
    LET x == proc[p]
    IN  /\ x.pc = "transfer" /\ x.got = 2 /\ x.fd # 0 /\ Tmp(x.file) \in DOMAIN dir
        /\ dir' = With(Without(Tmp(x.file)), Final(x.file), dir[Tmp(x.file)])
        /\ Set(p, [x EXCEPT !.pc = "fetched", !.fd = 0, !.got = 0, !.ver = 0, !.res = "ok"])
        /\ UNCHANGED <<data, meddled>>
Sweeps ==
    \E name \in DOMAIN dir :
        /\ proc["cache"].pc = "clean" /\ ~Keeps(proc["cache"], name)
        /\ dir' = Without(name) /\ UNCHANGED data
        /\ Set("cache", [proc["cache"] EXCEPT !.todo = @ \ {name}])
        /\ meddled' = meddled \cup (IF proc["apk"].pc # "idle" THEN {"removed"} ELSE {})
Touches ==
    /\ IndexFetched /\ Exists(Index) /\ UNCHANGED <<dir, meddled>>
    /\ data' = [data EXCEPT ![dir[Final(Index)]].mtime = now]

SameFile(x, y) == y.fd = x.fd /\ y.file = x.file /\ y.got = x.got /\ y.ver = x.ver
Quiet ==
    /\ UNCHANGED <<dir, data, meddled>>
    /\ \A p \in Proc : proc'[p].fd # 0 => SameFile(proc[p], proc'[p])

(* A step that sets one process and leaves it no open file.                 *)
LEMMA QuietSet ==
    ASSUME Types, NEW p \in Proc, NEW r, Set(p, r), r.fd # 0 => SameFile(proc[p], r),
           UNCHANGED <<dir, data, meddled>>
    PROVE  Quiet
BY Zenon DEF Quiet, Set, Types, SameFile

(* What a fetch does to the directory.                                      *)
LEMMA FetchKinds ==
    ASSUME Types, Roles, NEW p \in Proc, Fetch(p)
    PROVE  Opens(p) \/ Drops(p) \/ Quiet
<1> DEFINE x == proc[p]
           f == x.file
           copy == x.pre = FALSE /\ f # Index /\ p = "apk"
           ended(r) == Set(p, [x EXCEPT !.pc = "fetched", !.res = r])
<1>1. x \in ProcRec /\ x.fd = 0
  BY Zenon DEF Types, Roles, Role, Fetch
<1>2. ASSUME NEW r \in Results, ended(r), UNCHANGED <<dir, data, meddled>> PROVE Quiet
  <2>1. [x EXCEPT !.pc = "fetched", !.res = r].fd = 0
    BY <1>1, Zenon DEF ProcRec
  <2>2. QED
    BY <1>2, <2>1, QuietSet, Zenon
<1>3. Set(p, Teed(x, 0)) /\ UNCHANGED <<dir, data, meddled>> => Quiet
  <2>1. Teed(x, 0).fd = 0
    BY <1>1, Zenon DEF ProcRec, Teed
  <2>2. QED
    BY <2>1, QuietSet, Zenon
<1>4. Answers(f, x.since) \subseteq Results
  BY Zenon DEF Answers, Results
<1>5. CASE \E r \in Answers(f, x.since) :
                 \/ r = "ok" /\ OpenTmp(p, f) /\ Set(p, Teed(x, Opened(f)))
                 \/ r # "ok" /\ copy /\ ended(r) /\ UNCHANGED <<dir, data, meddled>>
                 \/ /\ r # "ok" /\ ~copy /\ ended(r) /\ dir' = Without(Tmp(f))
                    /\ data' = IF Tmp(f) \in DOMAIN dir
                               THEN [data EXCEPT ![Opened(f)].part = <<0, 0>>] ELSE data
                    /\ meddled' = meddled \cup Sharing(p, f)
  BY <1>2, <1>4, <1>5, Zenon DEF Opens, Drops, Fetch
<1>6. CASE /\ UNCHANGED <<dir, data, meddled>>
           /\ Set(p, Teed(x, 0)) \/ ended("nofile")
  BY <1>2, <1>3, <1>6, Zenon DEF Results
<1>7. QED
  BY <1>5, <1>6, Zenon DEF Fetch

(* What a transfer and its end do to the directory.                         *)
LEMMA TransferKinds ==
    ASSUME Types, Roles, NEW p \in Proc, Transfer(p) \/ Rename(p)
    PROVE  Fills(p) \/ Breaks(p) \/ Renames(p) \/ Quiet
<1> DEFINE x == proc[p]
           broken == [x EXCEPT !.pc = "fetched", !.res = "error", !.fd = 0, !.got = 0, !.ver = 0]
           done(r) == [x EXCEPT !.pc = "fetched", !.fd = 0, !.got = 0, !.ver = 0, !.res = r]
<1>1. x \in ProcRec
  BY Zenon DEF Types
<1>2. broken.fd = 0 /\ [x EXCEPT !.got = @ + 1].fd = x.fd /\ \A r : done(r).fd = 0
  BY <1>1, Zenon DEF ProcRec
<1>3. CASE Transfer(p)
  <2>1. CASE x.fd = 0
    <3>1. \E r : Set(p, r) /\ r.fd = 0
      BY <1>2, <1>3, <2>1, Zenon DEF Transfer
    <3>2. UNCHANGED <<dir, data, meddled>>
      BY <1>3, <2>1, Zenon DEF Transfer
    <3>3. QED
      BY <3>1, <3>2, QuietSet, Zenon
  <2>2. CASE x.fd # 0
    BY <1>3, <2>2, Zenon DEF Transfer, Fills, Breaks
  <2>3. QED
    BY <2>1, <2>2, Zenon
<1>4. CASE Rename(p)
  <2>1. CASE x.fd = 0 \/ Tmp(x.file) \notin DOMAIN dir
    <3>1. UNCHANGED <<dir, data, meddled>> /\ \E r : Set(p, done(r))
      BY <1>4, <2>1, Zenon DEF Rename
    <3>2. QED
      BY <1>2, <3>1, QuietSet, Zenon
  <2>2. CASE ~(x.fd = 0 \/ Tmp(x.file) \notin DOMAIN dir)
    BY <1>4, <2>2, Zenon DEF Rename, Renames
  <2>3. QED
    BY <2>1, <2>2, Zenon
<1>5. QED
  BY <1>3, <1>4, Zenon

(* The other process is left alone.                                         *)
Only(p) == \A q \in Proc \ {p} : proc'[q] = proc[q]

(* What the other steps of a process do to the directory.                   *)
LEMMA OtherKinds ==
    ASSUME Types, Roles, NEW p \in Proc, Only(p), UNCHANGED <<dir, data, meddled>>,
           proc'[p].fd \in {0, proc[p].fd}, proc[p].pc # "transfer"
    PROVE  Quiet
<1>1. proc[p].fd = 0
  BY Zenon DEF Roles, Role
<1>2. QED
  BY <1>1, Zenon DEF Quiet, Only, SameFile

(* A process that has ended has nothing open.                               *)
LEMMA IdleFd == Idle.fd = 0 /\ Idle.pc = "idle" /\ Idle.verb = "none" /\ Idle.asked = 0
BY Zenon DEF Idle

(* Every step is of one of these kinds.                                     *)
LEMMA StepKinds ==
    ASSUME Types, Roles, [Next]_cvars
    PROVE  \/ \E p \in Proc : Opens(p) \/ Drops(p) \/ Fills(p) \/ Breaks(p) \/ Renames(p)
           \/ Sweeps \/ Touches \/ Quiet
<1>0. CASE UNCHANGED cvars
  BY <1>0, Zenon DEF cvars, Quiet, SameFile
<1>1. ASSUME NEW verb \in Verbs \ CacheVerbs, NEW pre \in BOOLEAN, Begin(verb, pre) PROVE Quiet
  <2> DEFINE r == [Idle EXCEPT !.verb = verb, !.pre = pre /\ verb # "update", !.asked = served,
                         !.since = Since(verb), !.refreshed = IsIndexStale(verb),
                         !.pc = IF IsIndexStale(verb) THEN "fetch" ELSE "load"]
  <2>1. Set("apk", r) /\ proc["apk"].pc # "transfer" /\ UNCHANGED <<dir, data, meddled>>
    BY <1>1, Zenon DEF Begin
  <2>2. r.fd = 0
    BY Zenon DEF Idle
  <2> HIDE DEF r
  <2>3. QED
    BY <2>1, <2>2, OtherKinds, Zenon DEF Proc, Set, Types, Only
<1>2. ASSUME NEW verb, BeginCache(verb) PROVE Quiet
  <2> DEFINE r == [Idle EXCEPT !.verb = verb, !.pre = TRUE, !.pc = "load"]
  <2>1. Set("cache", r) /\ proc["cache"].pc # "transfer" /\ UNCHANGED <<dir, data, meddled>>
    BY <1>2, Zenon DEF BeginCache
  <2>2. r.fd = 0
    BY Zenon DEF Idle
  <2> HIDE DEF r
  <2>3. QED
    BY <2>1, <2>2, OtherKinds, Zenon DEF Proc, Set, Types, Only
<1>3. ASSUME NEW p \in Proc, Fetch(p) \/ Transfer(p) \/ Rename(p)
      PROVE  \/ Opens(p) \/ Drops(p) \/ Fills(p) \/ Breaks(p) \/ Renames(p) \/ Quiet
  BY <1>3, FetchKinds, TransferKinds, Zenon
<1>4. ASSUME NEW p \in Proc, Load(p) PROVE Quiet
  <2>1. proc[p] \in ProcRec
    BY Zenon DEF Types
  <2>2. Only(p) /\ proc'[p].fd \in {0, proc[p].fd}
    BY <1>4, <2>1, IdleFd, Zenon DEF Load, ProcRec, Types, Set, Only, Proc
  <2>3. QED
    BY <1>4, <2>2, OtherKinds, Zenon DEF Load
<1>5. ASSUME NEW p \in Proc, Plan(p) PROVE Quiet
  <2>1. proc[p] \in ProcRec
    BY Zenon DEF Types
  <2>2. Only(p) /\ proc'[p].fd \in {0, proc[p].fd}
    BY <1>5, <2>1 DEF Plan, ProcRec, Types, Set, Only, Proc
  <2>3. QED
    BY <1>5, <2>2, OtherKinds, Zenon DEF Plan
<1>6. ASSUME NEW p \in Proc, Precache(p) PROVE Quiet
  <2>1. proc[p] \in ProcRec
    BY Zenon DEF Types
  <2>2. Only(p) /\ proc'[p].fd \in {0, proc[p].fd}
    BY <1>6, <2>1, IdleFd, Zenon DEF Precache, ProcRec, Types, Set, Only, Proc
  <2>3. QED
    BY <1>6, <2>2, OtherKinds, Zenon DEF Precache
<1>7. ASSUME NEW p \in Proc, Precached(p) PROVE Quiet
  <2>1. proc[p] \in ProcRec
    BY Zenon DEF Types
  <2>2. Only(p) /\ proc'[p].fd \in {0, proc[p].fd}
    BY <1>7, <2>1, Zenon DEF Precached, Over, ProcRec, Types, Set, Only, Proc
  <2>3. QED
    BY <1>7, <2>2, OtherKinds, Zenon DEF Precached
<1>8. ASSUME NEW p \in Proc, Crash(p) PROVE Quiet
  BY <1>8, IdleFd, QuietSet, Zenon DEF Crash
<1>9. CASE IndexFetched
  <2>1. proc["apk"] \in ProcRec
    BY Zenon DEF Types, Proc
  <2>2. Only("apk") /\ proc'["apk"].fd \in {0, proc["apk"].fd}
    BY <1>9, <2>1, Zenon DEF IndexFetched, Over, ProcRec, Types, Set, Only, Proc
  <2>3. CASE UNCHANGED data
    BY <1>9, <2>2, <2>3, OtherKinds, Zenon DEF IndexFetched, Proc
  <2>4. CASE data' = [data EXCEPT ![dir[Final(Index)]].mtime = now] /\ Exists(Index)
    BY <1>9, <2>4, Zenon DEF IndexFetched, Touches
  <2>5. QED
    BY <1>9, <2>3, <2>4, Zenon DEF IndexFetched
<1>10. CASE Install
  <2>1. proc["apk"] \in ProcRec
    BY Zenon DEF Types, Proc
  <2>2. Only("apk") /\ proc'["apk"].fd \in {0, proc["apk"].fd}
    <3>1. \/ Set("apk", Idle) \/ \E q : Set("apk", [proc["apk"] EXCEPT !.todo = @ \ {q}])
          \/ \E q : Set("apk", [proc["apk"] EXCEPT !.file = q, !.since = 0, !.todo = @ \ {q},
                                                  !.pc = "fetch"])
      BY <1>10, Zenon DEF Install
    <3>2. CASE Set("apk", Idle)
      BY <3>2, IdleFd, Zenon DEF Types, Set, Only, Proc
    <3>3. ASSUME NEW q, Set("apk", [proc["apk"] EXCEPT !.todo = @ \ {q}])
          PROVE  Only("apk") /\ proc'["apk"].fd \in {0, proc["apk"].fd}
      BY <2>1, <3>3, Zenon DEF ProcRec, Types, Set, Only, Proc
    <3>4. ASSUME NEW q, Set("apk", [proc["apk"] EXCEPT !.file = q, !.since = 0, !.todo = @ \ {q},
                                                        !.pc = "fetch"])
          PROVE  Only("apk") /\ proc'["apk"].fd \in {0, proc["apk"].fd}
      BY <2>1, <3>4, Zenon DEF ProcRec, Types, Set, Only, Proc
    <3>5. QED
      BY <3>1, <3>2, <3>3, <3>4, Zenon
  <2>3. QED
    BY <1>10, <2>2, OtherKinds, Zenon DEF Install, Proc
<1>11. CASE InstallFetched
  <2>1. proc["apk"] \in ProcRec
    BY Zenon DEF Types, Proc
  <2>2. Only("apk") /\ proc'["apk"].fd \in {0, proc["apk"].fd}
    BY <1>11, <2>1, Zenon DEF InstallFetched, Over, ProcRec, Types, Set, Only, Proc
  <2>3. QED
    BY <1>11, <2>2, OtherKinds, Zenon DEF InstallFetched, Proc
<1>12. CASE Clean
  <2> DEFINE x == proc["cache"]
             name == Pick(x.todo)
             gone == x.todo # {} /\ name \in DOMAIN dir /\ ~Keeps(x, name)
  <2>1. x \in ProcRec
    BY Zenon DEF Types, Proc
  <2>2. CASE gone
    BY <1>12, <2>2, Zenon DEF Clean, Sweeps
  <2>3. CASE ~gone
    <3>1. Only("cache") /\ proc'["cache"].fd \in {0, x.fd}
      BY <1>12, <2>1, IdleFd, Zenon DEF Clean, ProcRec, Types, Set, Only, Proc
    <3>2. UNCHANGED <<dir, data, meddled>>
      BY <1>12, <2>3, Zenon DEF Clean
    <3>3. QED
      BY <1>12, <3>1, <3>2, OtherKinds, Zenon DEF Clean, Proc
  <2>4. QED
    BY <2>2, <2>3, Zenon
<1>13. CASE Publish \/ Tick
  BY <1>13, Zenon DEF Publish, Tick, Quiet, SameFile
<1>14. QED
  BY <1>0, <1>1, <1>2, <1>3, <1>4, <1>5, <1>6, <1>7, <1>8, <1>9, <1>10, <1>11, <1>12, <1>13, Zenon DEF Next

(* What a file is made of.                                                  *)
FileData == [part : Ver \X Ver, mtime : Nat]

(* Names of the directory.                                                  *)
LEMMA NameFacts ==
    /\ \A f, g : Final(f) # Tmp(g) /\ (Final(f) = Final(g) => f = g) /\ (Tmp(f) = Tmp(g) => f = g)
    /\ \A f : Final(f)[1] = f /\ Tmp(f)[1] = f
    /\ \A f \in File : Final(f) \in Names /\ Tmp(f) \in Names
BY Zenon DEF Final, Tmp, Names, Suffix

(* Directory and files keep their types.                                    *)
LEMMA DirTypes ==
    ASSUME Types, Free, Roles, [Next]_cvars
    PROVE  DOMAIN dir' \subseteq Names /\ dir' \in [DOMAIN dir' -> Inode]
           /\ data' \in [Inode -> FileData]
<1>0. DOMAIN dir \subseteq Names /\ dir \in [DOMAIN dir -> Inode] /\ data \in [Inode -> FileData]
  BY Zenon DEF Types, FileData
<1>1. \A n : DOMAIN Without(n) \subseteq Names /\ Without(n) \in [DOMAIN Without(n) -> Inode]
  BY <1>0, Zenon DEF Without
<1>2. ASSUME NEW p \in Proc
      PROVE  /\ proc[p] \in ProcRec /\ proc[p].file \in File
             /\ Opened(proc[p].file) \in Inode /\ Stamp(proc[p].file) \in Nat
  BY OpenedIsFree, Zenon DEF Types, ProcRec, Stamp
<1>3. ASSUME NEW p \in Proc, Opens(p)
      PROVE  DOMAIN dir' \subseteq Names /\ dir' \in [DOMAIN dir' -> Inode]
             /\ data' \in [Inode -> FileData]
  <2>1. [Blank EXCEPT !.mtime = Stamp(proc[p].file)] \in FileData
    BY <1>2, Numbers, Zenon DEF Blank, FileData
  <2>2. QED
    BY <1>0, <1>2, <1>3, <2>1, NameFacts DEF Opens, OpenTmp, With
<1>4. ASSUME NEW p \in Proc, Drops(p)
      PROVE  DOMAIN dir' \subseteq Names /\ dir' \in [DOMAIN dir' -> Inode]
             /\ data' \in [Inode -> FileData]
  <2>1. \A i \in Inode : [data[i] EXCEPT !.part = <<0, 0>>] \in FileData
    BY <1>0, Numbers, Zenon DEF FileData
  <2>2. QED
    BY <1>0, <1>1, <1>2, <1>4, <2>1, Zenon DEF Drops
<1>5. ASSUME NEW p \in Proc, Fills(p)
      PROVE  DOMAIN dir' \subseteq Names /\ dir' \in [DOMAIN dir' -> Inode]
             /\ data' \in [Inode -> FileData]
  <2> DEFINE x == proc[p]
             d == [[data[x.fd] EXCEPT !.part[x.got + 1] = x.ver] EXCEPT !.mtime = Stamp(x.file)]
  <2>1. x.fd \in Inode /\ x.ver \in Ver /\ x.got \in {0, 1}
    BY <1>2, <1>5 DEF Fills, ProcRec, Fd, Parts
  <2>2. d \in FileData
    <3>1. data[x.fd] \in FileData /\ data[x.fd].part \in Ver \X Ver
      BY <1>0, <2>1, Zenon DEF FileData
    <3>2. \A c \in Ver \X Ver : [c EXCEPT ![1] = x.ver] \in Ver \X Ver
                                /\ [c EXCEPT ![2] = x.ver] \in Ver \X Ver
      BY <2>1
    <3>3. x.got + 1 = 1 \/ x.got + 1 = 2
      BY <2>1
    <3>4. [data[x.fd].part EXCEPT ![x.got + 1] = x.ver] \in Ver \X Ver
      BY <3>1, <3>2, <3>3, Zenon
    <3>5. QED
      BY <1>2, <3>1, <3>4, Zenon DEF FileData
  <2>3. data' = [data EXCEPT ![x.fd] = d]
    BY <1>0, <1>5, <2>1, Zenon DEF Fills
  <2>4. QED
    BY <1>0, <1>5, <2>1, <2>2, <2>3 DEF Fills
<1>6. ASSUME NEW p \in Proc, Breaks(p)
      PROVE  DOMAIN dir' \subseteq Names /\ dir' \in [DOMAIN dir' -> Inode]
             /\ data' \in [Inode -> FileData]
  BY <1>0, <1>1, <1>6, Zenon DEF Breaks
<1>7. ASSUME NEW p \in Proc, Renames(p)
      PROVE  DOMAIN dir' \subseteq Names /\ dir' \in [DOMAIN dir' -> Inode]
             /\ data' \in [Inode -> FileData]
  <2>1. dir[Tmp(proc[p].file)] \in Inode
    BY <1>0, <1>7, Zenon DEF Renames
  <2>2. QED
    BY <1>0, <1>1, <1>2, <1>7, <2>1, NameFacts DEF Renames, With
<1>8. CASE Sweeps
  BY <1>0, <1>1, <1>8, Zenon DEF Sweeps
<1>9. CASE Touches
  <2>1. now \in Nat /\ dir[Final(Index)] \in Inode
    BY <1>0, <1>9, Zenon DEF Touches, Exists, Types
  <2>2. [data[dir[Final(Index)]] EXCEPT !.mtime = now] \in FileData
    BY <1>0, <2>1, Zenon DEF FileData
  <2>3. QED
    BY <1>0, <1>9, <2>1, <2>2, Zenon DEF Touches
<1>10. CASE Quiet
  BY <1>0, <1>10, Zenon DEF Quiet
<1>11. QED
  BY <1>3, <1>4, <1>5, <1>6, <1>7, <1>8, <1>9, <1>10, StepKinds, Zenon

(* Every step keeps the types.                                              *)
LEMMA TypesStep ==
    ASSUME Types, Free, Roles, [Next]_cvars
    PROVE  Types'
<1>1. proc' \in [Proc -> ProcRec]
  BY ProcTypes, Zenon DEF cvars, Types
<1>2. now' \in Nat /\ served' \in DOMAIN Offers
  <2>1. CASE Publish
    BY <2>1, Zenon DEF Publish, Types
  <2>2. CASE Tick
    BY <2>2, CacheAssumption DEF Tick, Types
  <2>3. CASE ~Publish /\ ~Tick
    <3>1. UNCHANGED <<now, served>>
      BY <2>3, Zenon DEF Next, Begin, BeginCache, Fetch, Transfer, Rename, Load, Plan, Precache, Precached,
                  Crash, IndexFetched, Install, InstallFetched, Clean, cvars
    <3>2. QED
      BY <3>1, Zenon DEF Types
  <2>4. QED
    BY <2>1, <2>2, <2>3, Zenon
<1>3. DOMAIN installed' \subseteq Pkgs
  <2>1. CASE Install
    <3>1. proc["apk"].pc = "install" /\ proc["apk"].todo \subseteq Pkgs
      BY <2>1, Zenon DEF Install, Roles, Role, Proc
    <3>2. UNCHANGED installed \/ \E q \in Pkgs : \E c : installed' = With(installed, q, c)
      BY <2>1, <3>1, Zenon DEF Install, Pick
    <3>3. \A q \in Pkgs : \A c : DOMAIN With(installed, q, c) \subseteq Pkgs
      BY Zenon DEF With, Types
    <3>4. QED
      BY <3>2, <3>3, Zenon DEF Types
  <2>2. CASE InstallFetched
    <3>1. proc["apk"].file \in Pkgs
      BY <2>2, Zenon DEF InstallFetched, Types, ProcRec, File, Proc
    <3>2. QED
      BY <2>2, <3>1, Zenon DEF InstallFetched, With, Types
  <2>3. CASE ~Install /\ ~InstallFetched
    BY <2>3, Zenon DEF Types, Next, Begin, BeginCache, Fetch, Transfer, Rename, Load, Plan, Precache,
                Precached, Crash, IndexFetched, Clean, Publish, Tick, cvars
  <2>4. QED
    BY <2>1, <2>2, <2>3, Zenon
<1>4. QED
  BY <1>1, <1>2, <1>3, DirTypes, Zenon DEF Types, FileData

-----------------------------------------------------------------------------
(* The part of the invariant that is about files.                           *)
Files == Types /\ Free /\ Roles /\ Links /\ Complete

(* Two processes never have the index open together.                        *)
LEMMA OthersFile ==
    ASSUME Types, Roles, NEW p \in Proc, NEW q \in Proc \ {p},
           proc[p].pc \in Busy, proc[q].pc \in Busy, proc[p].file = proc[q].file
    PROVE  proc[p].file # Index
<1>1. p = "cache" \/ q = "cache"
  BY Zenon DEF Proc
<1>2. Role(p, proc[p]) /\ Role(q, proc[q])
  BY Zenon DEF Roles
<1>3. proc[p].pc # "idle" /\ proc[q].pc # "idle"
  BY Zenon DEF Busy
<1>4. QED
  BY <1>1, <1>2, <1>3, Zenon DEF Role

(* What the other process writes to is out of reach when it is alone.       *)
LEMMA OthersInode ==
    ASSUME Files, NEW p \in Proc, NEW q \in Proc \ {p}, proc[p].pc \in {"fetch", "transfer"},
           proc[q].fd # 0
    PROVE  /\ proc[q].pc = "transfer" /\ proc[q].fd \in Inode /\ Writes(proc[q])
           /\ proc[q].file = proc[p].file => Sharing(p, proc[p].file) = {"shared"}
           /\ proc[q].file = proc[p].file /\ "shared" \notin meddled => proc[p].fd = 0
           /\ proc[q].file = proc[p].file => proc[p].file # Index
           /\ proc[q].file # proc[p].file =>
                 /\ proc[p].fd # proc[q].fd
                 /\ \A n \in DOMAIN dir : n[1] = proc[p].file => dir[n] # proc[q].fd
<1>1. proc[q].pc = "transfer" /\ Writes(proc[q])
  BY Zenon DEF Files, Roles, Role, Links
<1>2. proc[q].fd \in Inode
  BY Zenon DEF Files, Types, ProcRec, Fd
<1>3. proc[q].file = proc[p].file => proc[p].file # Index
  BY <1>1, OthersFile, Zenon DEF Files, Busy
<1>4. proc[q].file = proc[p].file => Sharing(p, proc[p].file) = {"shared"}
  BY <1>1, Zenon DEF Sharing
<1>5. proc[p].fd # 0 => IF proc[p].file = proc[q].file THEN "shared" \in meddled
                        ELSE proc[p].fd # proc[q].fd
  BY Zenon DEF Files, Links
<1>6. proc[q].file # proc[p].file =>
          \A n \in DOMAIN dir : n[1] = proc[p].file => dir[n] # proc[q].fd
  BY <1>1, Zenon DEF Writes
<1>7. QED
  BY <1>1, <1>2, <1>3, <1>4, <1>5, <1>6, Zenon

(* A download opens the temporary file, its own or a new one.               *)
LEMMA OpensKeeps ==
    ASSUME Files, NEW p \in Proc, Opens(p)
    PROVE  Links' /\ Complete'
<1> SUFFICES ASSUME NEW x, x = proc[p], NEW f, f = x.file, NEW i, i = Opened(f)
             PROVE  Links' /\ Complete'
  BY Zenon
<1>1. x \in ProcRec /\ f \in File /\ i \in Inode /\ x.pc = "fetch"
  BY OpenedIsFree, Zenon DEF Files, Types, ProcRec, Opens
<1>2. IF Tmp(f) \in DOMAIN dir THEN i = dir[Tmp(f)]
      ELSE (\A n \in DOMAIN dir : dir[n] # i) /\ \A q \in Proc : proc[q].fd # i
  BY <1>1, OpenedIsFree, Zenon DEF Files
<1>3. /\ DOMAIN dir' = DOMAIN dir \cup {Tmp(f)} /\ dir'[Tmp(f)] = i
      /\ \A n \in DOMAIN dir \ {Tmp(f)} : dir'[n] = dir[n]
  BY Zenon DEF Opens, OpenTmp, With
<1>4. \A n \in DOMAIN dir : dir[n] = i => n = Tmp(f)
  BY <1>2, Zenon DEF Files, Links
<1>5. /\ \A j \in Inode \ {i} : data'[j] = data[j]
      /\ meddled' = meddled \cup Sharing(p, f)
  BY <1>1, Zenon DEF Opens, OpenTmp, Files, Types
<1>6. /\ \A q \in Proc \ {p} : proc'[q] = proc[q]
      /\ proc'[p].fd = i /\ proc'[p].file = f /\ proc'[p].got = 0
  BY <1>1, Zenon DEF Opens, Set, Teed, Files, Types, ProcRec
<1>7. ASSUME NEW q \in Proc \ {p}, NEW y, y = proc[q], y.fd # 0
      PROVE  /\ y.file = f => "shared" \in meddled' /\ f # Index
             /\ y.file # f => y.fd # i
             /\ y.fd \in Inode /\ Writes(y)
  <2>1. Tmp(f)[1] = f
    BY NameFacts, Zenon
  <2>2. QED
    BY <1>1, <1>2, <1>5, <1>7, <2>1, OthersInode
<1>8. \A n, m \in DOMAIN dir' : dir'[n] = dir'[m] => n = m
  BY <1>3, <1>4 DEF Files, Links
<1>9. Writes(proc[p])'
  <2>1. \A n \in DOMAIN dir' : dir'[n] = i <=> n = Tmp(f)
    BY <1>3, <1>4, Zenon
  <2>2. QED
    BY <1>6, <2>1, NameFacts DEF Writes, Tmp
<1>10. ASSUME NEW q \in Proc \ {p}, NEW y, y = proc[q], y.fd # 0
       PROVE  Writes(y)'
  <2>1. CASE y.file = f
    <3>1. \A n \in DOMAIN dir' : dir'[n] = y.fd => n[1] = f
      BY <1>3, <1>7, <1>10, <2>1, NameFacts DEF Writes
    <3>2. ~Alone(f)'
      BY <1>7, <1>10, <2>1, Zenon DEF Alone
    <3>3. QED
      BY <2>1, <3>1, <3>2, Zenon DEF Writes, Alone
  <2>2. CASE y.file # f
    <3>1. \A n \in DOMAIN dir' : dir'[n] = y.fd <=> n \in DOMAIN dir /\ dir[n] = y.fd
      BY <1>2, <1>3, <1>7, <1>10, <2>2, Zenon
    <3>2. data'[y.fd] = data[y.fd]
      BY <1>5, <1>7, <1>10, <2>2, Zenon
    <3>3. Alone(y.file)' => Alone(y.file)
      BY <1>5, Zenon DEF Alone
    <3>4. Tmp(y.file) # Tmp(f)
      BY <2>2, NameFacts, Zenon
    <3>5. QED
      BY <1>3, <1>7, <1>10, <3>1, <3>2, <3>3, <3>4 DEF Writes, Tmp, Alone
  <2>3. QED
    BY <2>1, <2>2, Zenon
<1>11. Links'
  BY <1>6, <1>7, <1>8, <1>9, <1>10 DEF Links, Proc
<1>12. Complete'
  <2> SUFFICES ASSUME NEW g \in File, Alone(g)', Exists(g)' PROVE Whole(Content(g).part)'
    BY Zenon DEF Complete
  <2>1. Final(g) \in DOMAIN dir /\ dir'[Final(g)] = dir[Final(g)] /\ dir[Final(g)] # i
        /\ dir[Final(g)] \in Inode
    BY <1>3, <1>4, NameFacts, Zenon DEF Exists, Final, Files, Types
  <2>2. Whole(Content(g).part)
    BY <1>5, <2>1, Zenon DEF Files, Complete, Alone, Exists
  <2>3. QED
    BY <1>5, <2>1, <2>2, Zenon DEF Content, Whole, Final
<1>13. QED
  BY <1>11, <1>12, Zenon

(* A download that was refused unlinks the temporary name.                  *)
LEMMA DropsKeeps ==
    ASSUME Files, NEW p \in Proc, Drops(p)
    PROVE  Links' /\ Complete'
<1> SUFFICES ASSUME NEW x, x = proc[p], NEW f, f = x.file
             PROVE  Links' /\ Complete'
  BY Zenon
<1>1. x \in ProcRec /\ f \in File /\ x.pc = "fetch" /\ x.fd = 0
  BY Zenon DEF Files, Types, ProcRec, Drops, Roles, Role
<1>2. DOMAIN dir' = DOMAIN dir \ {Tmp(f)} /\ \A n \in DOMAIN dir' : dir'[n] = dir[n]
  BY Zenon DEF Drops, Without
<1>3. \A j \in Inode : (Tmp(f) \in DOMAIN dir => j # dir[Tmp(f)]) => data'[j] = data[j]
  BY Zenon DEF Drops, Opened, Files, Types
<1>4. meddled' = meddled \cup Sharing(p, f)
  BY Zenon DEF Drops
<1>5. proc'[p].fd = 0 /\ \A q \in Proc \ {p} : proc'[q] = proc[q]
  BY <1>1 DEF Drops, Set, Files, Types, ProcRec
<1>6. ASSUME NEW q \in Proc \ {p}, NEW y, y = proc[q], y.fd # 0
      PROVE  Writes(y)'
  <2>1. CASE y.file = f
    <3>1. "shared" \in meddled' /\ f # Index /\ Writes(y)
      BY <1>1, <1>4, <1>6, <2>1, OthersInode
    <3>2. QED
      BY <1>2, <2>1, <3>1, Zenon DEF Writes, Alone
  <2>2. CASE y.file # f
    <3>1. Writes(y) /\ y.fd \in Inode
      BY <1>1, <1>6, OthersInode, Zenon
    <3>2. Tmp(f) \in DOMAIN dir => dir[Tmp(f)] # y.fd
      BY <1>1, <1>6, <2>2, OthersInode, NameFacts
    <3>3. data'[y.fd] = data[y.fd]
      BY <1>3, <3>1, <3>2, Zenon
    <3>4. Alone(y.file)' => Alone(y.file)
      BY <1>4, Zenon DEF Alone
    <3>5. QED
      BY <1>2, <3>1, <3>3, <3>4, Zenon DEF Writes, Tmp, Alone
  <2>3. QED
    BY <2>1, <2>2, Zenon
<1>7. Links'
  BY <1>2, <1>4, <1>5, <1>6 DEF Files, Links
<1>8. Complete'
  <2> SUFFICES ASSUME NEW g \in File, Alone(g)', Exists(g)' PROVE Whole(Content(g).part)'
    BY Zenon DEF Complete
  <2>1. Final(g) \in DOMAIN dir /\ dir'[Final(g)] = dir[Final(g)] /\ dir[Final(g)] \in Inode
        /\ (Tmp(f) \in DOMAIN dir => dir[Final(g)] # dir[Tmp(f)])
    BY <1>2, NameFacts, Zenon DEF Exists, Final, Files, Types, Links
  <2>2. Whole(Content(g).part)
    BY <1>4, <2>1, Zenon DEF Files, Complete, Alone, Exists
  <2>3. QED
    BY <1>3, <2>1, <2>2, Zenon DEF Content, Whole, Final
<1>9. QED
  BY <1>7, <1>8, Zenon

(* A part is written to the open file.                                      *)
LEMMA FillsKeeps ==
    ASSUME Files, NEW p \in Proc, Fills(p)
    PROVE  Links' /\ Complete'
<1> SUFFICES ASSUME NEW x, x = proc[p], NEW i, i = x.fd
             PROVE  Links' /\ Complete'
  BY Zenon
<1>1. x \in ProcRec /\ x.file \in File /\ x.pc = "transfer" /\ i # 0 /\ i \in Inode
      /\ x.got \in {0, 1} /\ Writes(x) /\ x.ver \in Ver
  BY DEF Files, Types, ProcRec, Fills, Links, Fd, Parts
<1>2. UNCHANGED <<dir, meddled>>
  BY Zenon DEF Fills
<1>3. \A j \in Inode \ {i} : data'[j] = data[j]
  BY <1>1, Zenon DEF Fills, Files, Types
<1>4. /\ \A q \in Proc \ {p} : proc'[q] = proc[q]
      /\ proc'[p].fd = i /\ proc'[p].file = x.file /\ proc'[p].got = x.got + 1
      /\ proc'[p].ver = x.ver
  BY <1>1, Zenon DEF Fills, Set, Files, Types, ProcRec
<1>5. data'[i].part = [data[i].part EXCEPT ![x.got + 1] = x.ver]
  BY <1>1 DEF Fills, Files, Types
<1>6. Writes(proc[p])'
  <2>1. data[i].part \in Ver \X Ver
    BY <1>1, Zenon DEF Files, Types
  <2>2. CASE x.got = 0
    <3>1. data'[i].part[1] = x.ver
      BY <1>5, <2>1, <2>2
    <3>2. proc'[p].got = 1
      BY <1>4, <2>2
    <3>3. QED
      BY <1>1, <1>2, <1>4, <3>1, <3>2 DEF Writes, Alone, Tmp
  <2>3. CASE x.got = 1
    <3>1. data'[i].part[1] = data[i].part[1] /\ data'[i].part[2] = x.ver
      BY <1>5, <2>1, <2>3
    <3>2. Alone(x.file) => data[i].part[1] = x.ver
      BY <1>1, <2>3 DEF Writes
    <3>3. proc'[p].got = 2
      BY <1>4, <2>3
    <3>4. QED
      BY <1>1, <1>2, <1>4, <3>1, <3>2, <3>3 DEF Writes, Alone, Tmp
  <2>4. QED
    BY <1>1, <2>2, <2>3, Zenon
<1>7. ASSUME NEW q \in Proc \ {p}, NEW y, y = proc[q], y.fd # 0
      PROVE  Writes(y)'
  <2>1. Writes(y) /\ y.fd \in Inode
    BY <1>1, <1>7, OthersInode, Zenon
  <2>2. CASE y.file = x.file
    <3>1. ~Alone(y.file)
      BY <1>1, <1>7, <2>2, OthersInode, Zenon DEF Alone
    <3>2. QED
      BY <1>2, <2>1, <3>1, Zenon DEF Writes, Alone
  <2>3. CASE y.file # x.file
    <3>1. y.fd # i
      BY <1>1, <1>7, <2>3, OthersInode, Zenon
    <3>2. QED
      BY <1>2, <1>3, <2>1, <3>1, Zenon DEF Writes, Alone, Tmp
  <2>4. QED
    BY <2>2, <2>3, Zenon
<1>8. Links'
  <2>1. \A q \in Proc : proc'[q].fd = proc[q].fd /\ proc'[q].file = proc[q].file
    BY <1>4, Zenon
  <2>2. QED
    BY <1>2, <1>4, <1>6, <1>7, <2>1 DEF Files, Links
<1>9. Complete'
  <2> SUFFICES ASSUME NEW g \in File, Alone(g), Exists(g) PROVE Whole(Content(g).part)'
    BY <1>2, Zenon DEF Complete, Alone, Exists, Final
  <2>1. dir[Final(g)] # i /\ dir[Final(g)] \in Inode
    <3>1. Final(g) \in DOMAIN dir /\ dir[Final(g)] \in Inode
      BY Zenon DEF Exists, Files, Types
    <3>2. dir[Final(g)] = i => g = x.file
      BY <1>1, <3>1, NameFacts, Zenon DEF Writes
    <3>3. QED
      BY <1>1, <3>1, <3>2, NameFacts DEF Writes
  <2>2. QED
    BY <1>2, <1>3, <2>1, Zenon DEF Files, Complete, Content, Final
<1>10. QED
  BY <1>8, <1>9, Zenon

(* An error unlinks the temporary name.                                     *)
LEMMA BreaksKeeps ==
    ASSUME Files, NEW p \in Proc, Breaks(p)
    PROVE  Links' /\ Complete'
<1> SUFFICES ASSUME NEW x, x = proc[p], NEW f, f = x.file
             PROVE  Links' /\ Complete'
  BY Zenon
<1>1. x \in ProcRec /\ f \in File /\ x.pc = "transfer" /\ x.fd # 0
  BY Zenon DEF Files, Types, ProcRec, Breaks
<1>2. DOMAIN dir' = DOMAIN dir \ {Tmp(f)} /\ \A n \in DOMAIN dir' : dir'[n] = dir[n]
  BY Zenon DEF Breaks, Without
<1>3. UNCHANGED <<data, meddled>>
  BY Zenon DEF Breaks
<1>4. proc'[p].fd = 0 /\ \A q \in Proc \ {p} : proc'[q] = proc[q]
  BY <1>1, Zenon DEF Breaks, Set, Files, Types, ProcRec
<1>5. ASSUME NEW q \in Proc \ {p}, NEW y, y = proc[q], y.fd # 0
      PROVE  Writes(y)'
  <2>1. Writes(y)
    BY <1>1, <1>5, OthersInode, Zenon
  <2>2. CASE y.file = f
    <3>1. ~Alone(f)
      BY <1>1, <1>5, <2>2, OthersInode, Zenon DEF Alone
    <3>2. QED
      BY <1>2, <1>3, <2>1, <2>2, <3>1, Zenon DEF Writes, Alone
  <2>3. CASE y.file # f
    BY <1>2, <1>3, <2>1, Zenon DEF Writes, Tmp, Alone
  <2>4. QED
    BY <2>2, <2>3, Zenon
<1>6. Links'
  BY <1>2, <1>3, <1>4, <1>5 DEF Files, Links
<1>7. Complete'
  BY <1>2, <1>3, NameFacts, Zenon DEF Files, Complete, Content, Exists, Alone, Final
<1>8. QED
  BY <1>6, <1>7, Zenon

(* The temporary file that gets its name is the one that was written, and   *)
(* it is whole.                                                             *)
LEMMA RenamesKeeps ==
    ASSUME Files, NEW p \in Proc, Renames(p)
    PROVE  Links' /\ Complete'
<1> SUFFICES ASSUME NEW x, x = proc[p], NEW f, f = x.file, NEW i, i = dir[Tmp(f)]
             PROVE  Links' /\ Complete'
  BY Zenon
<1>1. x \in ProcRec /\ f \in File /\ x.pc = "transfer" /\ x.fd # 0 /\ x.got = 2 /\ x.ver # 0
      /\ Tmp(f) \in DOMAIN dir /\ Writes(x)
  BY Zenon DEF Files, Types, ProcRec, Renames, Roles, Role, Links
<1>2. /\ DOMAIN dir' = (DOMAIN dir \ {Tmp(f)}) \cup {Final(f)} /\ dir'[Final(f)] = i
      /\ \A n \in DOMAIN dir' : n # Final(f) => n \in DOMAIN dir /\ dir'[n] = dir[n] /\ n # Tmp(f)
  BY Zenon DEF Renames, Without, With
<1>3. UNCHANGED <<data, meddled>>
  BY Zenon DEF Renames
<1>4. proc'[p].fd = 0 /\ \A q \in Proc \ {p} : proc'[q] = proc[q]
  BY <1>1, Zenon DEF Renames, Set, Files, Types, ProcRec
<1>5. ASSUME NEW q \in Proc \ {p}, NEW y, y = proc[q], y.fd # 0
      PROVE  Writes(y)'
  <2>1. Writes(y)
    BY <1>1, <1>5, OthersInode, Zenon
  <2>2. CASE y.file = f
    <3>1. ~Alone(f)
      BY <1>1, <1>5, <2>2, OthersInode DEF Alone
    <3>2. \A n \in DOMAIN dir' : dir'[n] = y.fd => n[1] = f
      BY <1>2, <2>1, <2>2, NameFacts, Zenon DEF Writes
    <3>3. QED
      BY <1>3, <2>2, <3>1, <3>2, Zenon DEF Writes, Alone
  <2>3. CASE y.file # f
    <3>1. i # y.fd
      BY <1>1, <1>5, <2>3, OthersInode, NameFacts
    <3>2. \A n \in DOMAIN dir' : dir'[n] = y.fd => n \in DOMAIN dir /\ dir[n] = y.fd
      BY <1>2, <3>1, Zenon
    <3>3. Tmp(y.file) # Final(f)
      BY NameFacts, Zenon
    <3>4. QED
      BY <1>2, <1>3, <2>1, <3>2, <3>3, Zenon DEF Writes, Tmp, Alone
  <2>4. QED
    BY <2>2, <2>3, Zenon
<1>6. \A n, m \in DOMAIN dir' : dir'[n] = dir'[m] => n = m
  BY <1>1, <1>2 DEF Files, Links
<1>7. Links'
  BY <1>3, <1>4, <1>5, <1>6 DEF Files, Links
<1>8. Complete'
  <2> SUFFICES ASSUME NEW g \in File, Alone(g), Exists(g)' PROVE Whole(Content(g).part)'
    BY <1>3, Zenon DEF Complete, Alone
  <2>1. CASE g = f
    <3>1. i = x.fd /\ data[x.fd].part[1] # 0 /\ data[x.fd].part[1] = data[x.fd].part[2]
      BY <1>1, <2>1 DEF Writes
    <3>2. QED
      BY <1>2, <1>3, <2>1, <3>1, Zenon DEF Content, Whole, Final
  <2>2. CASE g # f
    <3>1. Final(g) \in DOMAIN dir /\ dir'[Final(g)] = dir[Final(g)]
      BY <1>2, <2>2, NameFacts, Zenon DEF Exists
    <3>2. QED
      BY <1>3, <3>1, Zenon DEF Files, Complete, Content, Exists, Final
  <2>3. QED
    BY <2>1, <2>2, Zenon
<1>9. QED
  BY <1>7, <1>8, Zenon

(* apk cache clean takes one name away.                                     *)
LEMMA SweepsKeeps ==
    ASSUME Files, Sweeps
    PROVE  Links' /\ Complete'
<1>1. PICK name \in DOMAIN dir :
        /\ proc["cache"].pc = "clean"
        /\ dir' = Without(name) /\ UNCHANGED data
        /\ Set("cache", [proc["cache"] EXCEPT !.todo = @ \ {name}])
        /\ meddled' = meddled \cup (IF proc["apk"].pc # "idle" THEN {"removed"} ELSE {})
  BY Zenon DEF Sweeps
<1>2. DOMAIN dir' \subseteq DOMAIN dir /\ \A n \in DOMAIN dir' : dir'[n] = dir[n]
  BY <1>1, Zenon DEF Without
<1>3. "cache" \in Proc /\ proc["cache"].fd = 0
  BY <1>1, Zenon DEF Files, Roles, Role, Proc
<1>4. /\ proc["cache"] \in ProcRec
      /\ \A q \in Proc \ {"cache"} : proc'[q] = proc[q]
  BY <1>1, <1>3, Zenon DEF Set, Files, Types
<1>5. proc'["cache"].fd = 0
  BY <1>1, <1>3, <1>4, Zenon DEF Set, Files, Types, ProcRec
<1>6. "shared" \in meddled' <=> "shared" \in meddled
  BY <1>1, Zenon
<1>7. ASSUME NEW q \in Proc \ {"cache"}, NEW y, y = proc[q], y.fd # 0
      PROVE  Writes(y)'
  <2>1. Writes(y)
    BY <1>7, Zenon DEF Files, Links
  <2>2. QED
    BY <1>1, <1>2, <1>6, <2>1, Zenon DEF Writes, Alone, Tmp
<1>8. Links'
  BY <1>2, <1>4, <1>5, <1>6, <1>7 DEF Files, Links
<1>9. Complete'
  BY <1>1, <1>2, <1>6, Zenon DEF Files, Complete, Content, Exists, Alone, Final
<1>10. QED
  BY <1>8, <1>9, Zenon

(* A step that changes no part of any file, no name and no open file.       *)
LEMMA SamePartsKeeps ==
    ASSUME Files, UNCHANGED <<dir, meddled>>, \A i \in Inode : data'[i].part = data[i].part,
           \A p \in Proc : proc'[p].fd # 0 => SameFile(proc[p], proc'[p])
    PROVE  Links' /\ Complete'
<1>1. ASSUME NEW p \in Proc, NEW y, y = proc[p], NEW z, z = proc'[p], z.fd # 0
      PROVE  Writes(z)'
  <2>1. SameFile(y, z)
    BY <1>1, Zenon
  <2>2. Writes(y) /\ y.fd \in Inode
    BY <1>1, <2>1 DEF Files, Links, Types, ProcRec, Fd, SameFile
  <2>3. QED
    BY <2>1, <2>2, Zenon DEF SameFile, Writes, Alone, Tmp
<1>2. Links'
  <2>1. \A p \in Proc : proc'[p].fd # 0 => Writes(proc[p])'
    BY <1>1, Zenon
  <2>2. \A p \in Proc : proc'[p].fd # 0 => proc'[p].fd = proc[p].fd /\ proc'[p].file = proc[p].file
    BY Zenon DEF SameFile
  <2>3. QED
    BY <2>1, <2>2 DEF Files, Links
<1>3. Complete'
  BY Zenon DEF Files, Types, Complete, Content, Exists, Alone, Final
<1>4. QED
  BY <1>2, <1>3, Zenon

(* The date of the index changes nothing else.                              *)
LEMMA TouchesKeeps ==
    ASSUME Files, Touches
    PROVE  Links' /\ Complete'
<1>1. \A i \in Inode : data'[i].part = data[i].part
  BY Zenon DEF Touches, Files, Types
<1>2. /\ proc["apk"].pc = "fetched" /\ "apk" \in Proc /\ proc["apk"] \in ProcRec
      /\ \A q \in Proc \ {"apk"} : proc'[q] = proc[q]
  BY Zenon DEF Touches, IndexFetched, Set, Proc, Files, Types
<1>3. proc["apk"].fd = 0
  BY <1>2, Zenon DEF Files, Roles, Role
<1>4. proc'["apk"].fd = 0
  BY <1>2, <1>3, Zenon DEF Touches, IndexFetched, Set, Over, Files, Types, ProcRec
<1>5. \A p \in Proc : proc'[p].fd # 0 => SameFile(proc[p], proc'[p])
  BY <1>2, <1>4, Zenon DEF SameFile
<1>6. QED
  BY <1>1, <1>5, SamePartsKeeps, Zenon DEF Touches

(* Open files and whole ones, through every step.                           *)
LEMMA LinksStep ==
    ASSUME Files, [Next]_cvars
    PROVE  Links' /\ Complete'
<1>1. Quiet => Links' /\ Complete'
  BY SamePartsKeeps, Zenon DEF Quiet
<1>2. QED
  BY <1>1, StepKinds, OpensKeeps, DropsKeeps, FillsKeeps, BreaksKeeps, RenamesKeeps, SweepsKeeps,
     TouchesKeeps, Zenon DEF Files

(* A process that is set to a record that fits it.                          *)
LEMMA RoleSet ==
    ASSUME Types, Roles, NEW p \in Proc, NEW r, Set(p, r), Role(p, r)
    PROVE  Roles'
<1>1. proc'[p] = r /\ \A q \in Proc \ {p} : proc'[q] = proc[q]
  BY Zenon DEF Set, Types
<1>2. QED
  BY <1>1, Zenon DEF Roles

(* A process that has ended.                                                *)
LEMMA IdleRole == ASSUME NEW p PROVE Role(p, Idle)
  BY Zenon DEF Role, Idle, Downloads, Busy

(* Downloading keeps to the roles.                                          *)
LEMMA RoleDownloads ==
    ASSUME Types, Free, Roles, NEW p \in Proc, Fetch(p) \/ Transfer(p) \/ Rename(p)
    PROVE  Roles'
<1> SUFFICES ASSUME NEW x, x = proc[p]
             PROVE  Roles'
  BY Zenon
<1>1. x \in ProcRec /\ Role(p, x) /\ x.file \in File
  BY Zenon DEF Types, Roles, ProcRec
<1>2. CASE Fetch(p)
  <2>0. x.pc = "fetch" /\ x.fd = 0
    BY <1>1, <1>2, Zenon DEF Fetch, Role
  <2>1. ASSUME NEW r \in Results, r # "unchanged" \/ x.file = Index,
               Set(p, [x EXCEPT !.pc = "fetched", !.res = r])
        PROVE  Roles'
    <3>1. Role(p, [x EXCEPT !.pc = "fetched", !.res = r])
      BY <1>1, <2>0, <2>1, Zenon DEF Role, ProcRec, Downloads, Busy
    <3>2. QED
      BY <2>1, <3>1, RoleSet, Zenon
  <2>2. ASSUME NEW i, i # 0 \/ (~x.pre /\ x.file # Index), Set(p, Teed(x, i))
        PROVE  Roles'
    <3>1. served # 0 /\ 1 # 0
      BY CacheAssumption DEF Types
    <3>2. Role(p, Teed(x, i))
      BY <1>1, <2>0, <2>2, <3>1, Zenon DEF Role, ProcRec, Downloads, Busy, Teed
    <3>3. QED
      BY <2>2, <3>2, RoleSet, Zenon
  <2>3. Opened(x.file) # 0
    BY <1>1, OpenedIsFree DEF Inode
  <2>4. Answers(x.file, x.since) \subseteq Results /\ (x.file # Index => "unchanged" \notin Answers(x.file, x.since))
    BY Zenon DEF Answers, Results
  <2>5. "nofile" \in Results /\ "nofile" # "unchanged"
    BY Zenon DEF Results
  <2>6. QED
    BY <1>2, <2>1, <2>2, <2>3, <2>4, <2>5, Zenon DEF Fetch
<1>3. CASE Transfer(p)
  <2>0. x.pc = "transfer"
    BY <1>3, Zenon DEF Transfer
  <2>1. Role(p, [x EXCEPT !.got = @ + 1])
    BY <1>1, Zenon DEF Role, ProcRec, Downloads
  <2>2. Role(p, [x EXCEPT !.pc = "fetched", !.res = "error", !.fd = 0, !.got = 0, !.ver = 0])
    BY <1>1, <2>0, Zenon DEF Role, ProcRec, Downloads, Busy
  <2>3. QED
    BY <1>3, <2>1, <2>2, RoleSet, Zenon DEF Transfer
<1>4. CASE Rename(p)
  <2>0. x.pc = "transfer"
    BY <1>4, Zenon DEF Rename
  <2>1. ASSUME NEW r \in {"ok", "error"}
        PROVE  Role(p, [x EXCEPT !.pc = "fetched", !.fd = 0, !.got = 0, !.ver = 0, !.res = r])
    BY <1>1, <2>0, Zenon DEF Role, ProcRec, Downloads, Busy
  <2>2. PICK r \in {"ok", "error"} :
            Set(p, [x EXCEPT !.pc = "fetched", !.fd = 0, !.got = 0, !.ver = 0, !.res = r])
    BY <1>4, Zenon DEF Rename
  <2>3. QED
    BY <2>1, <2>2, RoleSet, Zenon
<1>5. QED
  BY <1>2, <1>3, <1>4, Zenon

(* A process that turns to a package.                                       *)
LEMMA FetchRole ==
    ASSUME NEW p, NEW x \in ProcRec, Role(p, x), x.pc \in {"precache", "install"},
           NEW q, q # Index \/ p = "apk"
    PROVE  Role(p, [x EXCEPT !.file = q, !.since = 0, !.todo = @ \ {q}, !.pc = "fetch"])
<1> SUFFICES ASSUME NEW t, t = x.todo \ {q}
             PROVE  Role(p, [x EXCEPT !.file = q, !.since = 0, !.todo = t, !.pc = "fetch"])
  BY Zenon
<1>1. x.fd = 0 /\ x.todo \subseteq Pkgs
  BY Zenon DEF Role
<1>2. t \subseteq Pkgs
  BY <1>1, Zenon
<1>3. QED
  BY <1>1, <1>2, Zenon DEF Role, ProcRec, Downloads, Busy

(* Committing keeps to the roles.                                           *)
LEMMA RoleCommits ==
    ASSUME Types, Roles, NEW p \in Proc,
           Load(p) \/ Plan(p) \/ Precache(p) \/ Precached(p) \/ Crash(p)
    PROVE  Roles'
<1> SUFFICES ASSUME NEW x, x = proc[p]
             PROVE  Roles'
  BY Zenon
<1>1. x \in ProcRec /\ Role(p, x) /\ x.file \in File /\ x.todo \subseteq Pkgs \cup Names
      /\ x.plan \subseteq Pkgs
  BY Zenon DEF Types, Roles, ProcRec
<1>2. CASE Load(p)
  <2>1. ASSUME NEW c, NEW t, NEW k, NEW v, NEW s \in {"clean", "plan"}
        PROVE  Role(p, [x EXCEPT !.asked = 0, !.since = 0, !.refreshed = FALSE, !.failed = FALSE,
                                 !.view = v, !.known = k, !.cached = c, !.todo = t, !.pc = s])
    BY <1>1, <1>2, Zenon DEF Role, ProcRec, Downloads, Busy, Load
  <2>2. Set(p, Idle) \/ \E c, t, k, v : \E s \in {"clean", "plan"} :
            Set(p, [x EXCEPT !.asked = 0, !.since = 0, !.refreshed = FALSE, !.failed = FALSE,
                             !.view = v, !.known = k, !.cached = c, !.todo = t, !.pc = s])
    BY <1>2, Zenon DEF Load
  <2>3. QED
    BY <2>1, <2>2, IdleRole, RoleSet, Zenon
<1>3. CASE Plan(p)
  <2>1. x.view \in Ver /\ x.pc = "plan"
    BY <1>1, <1>3, Zenon DEF ProcRec, Plan
  <2>2. IF x.view = 0 THEN TRUE ELSE Offers[x.view] \subseteq Pkgs
    BY <2>1, CacheAssumption DEF Ver
  <2>3. PICK S \in SUBSET Pkgs :
            Set(p, [x EXCEPT !.verb = "none", !.view = 0, !.known = {},
                               !.plan = IF x.pre THEN S ELSE {}, !.todo = S,
                               !.pc = IF x.pre THEN "precache" ELSE "install"])
    BY <1>3, <2>2, Zenon DEF Plan
  <2>4. Role(p, [x EXCEPT !.verb = "none", !.view = 0, !.known = {},
                               !.plan = IF x.pre THEN S ELSE {}, !.todo = S,
                               !.pc = IF x.pre THEN "precache" ELSE "install"])
    BY <1>1, <2>1, Zenon DEF Role, ProcRec, Downloads, Busy
  <2>5. QED
    BY <2>3, <2>4, RoleSet, Zenon
<1>4. CASE Precache(p)
  <2>0. x.pc = "precache" /\ x.todo \subseteq Pkgs
    BY <1>1, <1>4, Zenon DEF Precache, Role
  <2>1. ASSUME ToFetch(x) # {}, NEW q, q = Pick(ToFetch(x))
        PROVE  Role(p, [x EXCEPT !.file = q, !.since = 0, !.todo = @ \ {q}, !.pc = "fetch"])
    <3>1. q \in Pkgs
      BY <2>0, <2>1, Zenon DEF ToFetch, Pick
    <3>2. QED
      BY <1>1, <2>0, <3>1, FetchRole, CacheAssumption, Zenon
  <2>2. ~x.bad /\ p # "cache" =>
          Role(p, [x EXCEPT !.todo = x.plan, !.plan = {}, !.pre = FALSE, !.pc = "install"])
    BY <1>1, <2>0, Zenon DEF Role, ProcRec, Downloads, Busy
  <2>3. QED
    BY <1>4, <2>1, <2>2, IdleRole, RoleSet, Zenon DEF Precache
<1>5. CASE Precached(p)
  <2>0. x.pc = "fetched" /\ x.todo \subseteq Pkgs /\ x.pre
    BY <1>1, <1>5, Zenon DEF Precached, Role, Downloads, Busy
  <2>1. ASSUME NEW c, NEW b
        PROVE  Role(p, [Over(x) EXCEPT !.cached = c, !.bad = b, !.pc = "precache"])
    BY <1>1, <2>0, Zenon DEF Role, ProcRec, Downloads, Busy, Over
  <2>2. \E c, b : Set(p, [Over(x) EXCEPT !.cached = c, !.bad = b, !.pc = "precache"])
    BY <1>5, Zenon DEF Precached, Over
  <2>3. QED
    BY <2>1, <2>2, RoleSet, Zenon
<1>6. CASE Crash(p)
  BY <1>6, IdleRole, RoleSet, Zenon DEF Crash
<1>7. QED
  BY <1>2, <1>3, <1>4, <1>5, <1>6, Zenon

(* Every step keeps the processes to their roles.                           *)
LEMMA RolesStep ==
    ASSUME Types, Free, Roles, [Next]_cvars
    PROVE  Roles'
<1>0. CASE UNCHANGED cvars
  BY <1>0, Zenon DEF cvars, Roles
<1>1. ASSUME NEW verb \in Verbs \ CacheVerbs, NEW pre \in BOOLEAN, Begin(verb, pre) PROVE Roles'
  <2>1. ASSUME NEW s \in {"fetch", "load"}, NEW b, NEW a, NEW n, NEW c \in BOOLEAN
        PROVE  Role("apk", [Idle EXCEPT !.verb = verb, !.pre = c, !.asked = a, !.since = n,
                                        !.refreshed = b, !.pc = s])
    BY Zenon DEF Role, Idle, Downloads, Busy
  <2>2. \E s \in {"fetch", "load"}, c \in BOOLEAN : \E b, a, n :
            Set("apk", [Idle EXCEPT !.verb = verb, !.pre = c, !.asked = a, !.since = n,
                                    !.refreshed = b, !.pc = s])
    BY <1>1, Zenon DEF Begin
  <2>3. QED
    BY <2>1, <2>2, RoleSet, Zenon DEF Proc
<1>2. ASSUME NEW verb \in Verbs \cap CacheVerbs, BeginCache(verb) PROVE Roles'
  <2>1. Role("cache", [Idle EXCEPT !.verb = verb, !.pre = TRUE, !.pc = "load"])
    BY Zenon DEF Role, Idle, Downloads, Busy
  <2>2. QED
    BY <1>2, <2>1, RoleSet, Zenon DEF BeginCache, Proc
<1>3. ASSUME NEW x, x = proc["apk"] PROVE x \in ProcRec /\ Role("apk", x) /\ "apk" \in Proc
  BY <1>3, Zenon DEF Types, Roles, Proc
<1>4. CASE IndexFetched
  <2>1. ASSUME NEW x, x = proc["apk"], NEW b
        PROVE  Role("apk", [Over(x) EXCEPT !.failed = b, !.pc = "load"])
    BY <1>3, <1>4, <2>1 DEF IndexFetched, Role, ProcRec, Downloads, Busy, Over
  <2>2. QED
    BY <1>3, <1>4, <2>1, RoleSet, Zenon DEF IndexFetched
<1>5. CASE Install
  <2> SUFFICES ASSUME NEW x, x = proc["apk"] PROVE Roles'
    BY Zenon
  <2>0. x.pc = "install" /\ x.todo \subseteq Pkgs /\ x \in ProcRec /\ Role("apk", x) /\ "apk" \in Proc
    BY <1>3, <1>5, Zenon DEF Install, Role
  <2>1. ASSUME NEW t, t \subseteq Pkgs PROVE Role("apk", [x EXCEPT !.todo = t])
    BY <2>0, <2>1, Zenon DEF Role, ProcRec, Downloads
  <2>2. \A q : x.todo \ {q} \subseteq Pkgs
    BY <2>0, Zenon
  <2>3. \A q : Role("apk", [x EXCEPT !.file = q, !.since = 0, !.todo = @ \ {q}, !.pc = "fetch"])
    BY <2>0, FetchRole, Zenon
  <2>4. QED
    BY <1>5, <2>0, <2>1, <2>2, <2>3, IdleRole, RoleSet, Zenon DEF Install
<1>6. CASE InstallFetched
  <2> SUFFICES ASSUME NEW x, x = proc["apk"] PROVE Roles'
    BY Zenon
  <2>0. x.pc = "fetched" /\ x.todo \subseteq Pkgs /\ ~x.pre /\ x \in ProcRec /\ Role("apk", x) /\ "apk" \in Proc
    BY <1>3, <1>6, Zenon DEF InstallFetched, Role, Downloads, Busy
  <2>1. ASSUME NEW c PROVE Role("apk", [Over(x) EXCEPT !.pc = "install", !.cached = c])
    BY <2>0, Zenon DEF Role, ProcRec, Downloads, Busy, Over
  <2>2. \E c : Set("apk", [Over(x) EXCEPT !.pc = "install", !.cached = c])
    BY <1>6, Zenon DEF InstallFetched, Over
  <2>3. QED
    BY <2>0, <2>1, <2>2, RoleSet, Zenon
<1>7. CASE Clean
  <2> SUFFICES ASSUME NEW x, x = proc["cache"] PROVE Roles'
    BY Zenon
  <2>0. x.pc = "clean" /\ x \in ProcRec /\ Role("cache", x) /\ "cache" \in Proc
    BY <1>7, Zenon DEF Clean, Types, Roles, Proc
  <2>1. \A t : Role("cache", [x EXCEPT !.todo = t])
    BY <2>0, Zenon DEF Role, ProcRec, Downloads, Busy
  <2>2. Role("cache", [x EXCEPT !.pc = "plan"])
    BY <2>0, Zenon DEF Role, ProcRec, Downloads, Busy
  <2>3. QED
    BY <1>7, <2>0, <2>1, <2>2, IdleRole, RoleSet, Zenon DEF Clean
<1>8. CASE Publish \/ Tick
  BY <1>8, Zenon DEF Publish, Tick, Roles
<1>9. QED
  BY <1>0, <1>1, <1>2, <1>4, <1>5, <1>6, <1>7, <1>8, RoleDownloads, RoleCommits, Zenon DEF Next
=============================================================================
