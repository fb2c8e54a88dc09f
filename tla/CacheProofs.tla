---------------------------- MODULE CacheProofs ----------------------------
(***************************************************************************)
(* What the cache model promises for any packages, any sequence of index   *)
(* versions, any number of commands and every kind of failure: nothing is  *)
(* installed that was not verified, cleaning keeps what is installed, what *)
(* is cached is whole and where it is believed to be, and apk update gets  *)
(* the index that is served.                                               *)
(***************************************************************************)
EXTENDS CacheSteps, FiniteSetTheorems

(* What one step installs is what was verified: apk_db_unpack_pkg installs  *)
(* nothing that apk_extract_verify_identity has not accepted.               *)
LEMMA InstallsVerified ==
    ASSUME InstalledVerified, [Next]_cvars
    PROVE  InstalledVerified'
<1>1. CASE Install \/ InstallFetched
  <2>1. \/ UNCHANGED installed
        \/ \E q, part : VerifyIdentity(part) /\ installed' = With(installed, q, part)
    BY <1>1, Zenon DEF Install, InstallFetched, VerifyIdentity
  <2>2. ASSUME NEW q, NEW part, VerifyIdentity(part), installed' = With(installed, q, part)
        PROVE  InstalledVerified'
    BY <2>2, Zenon DEF InstalledVerified, VerifyIdentity, With
  <2>3. QED
    BY <2>1, <2>2, Zenon DEF InstalledVerified
<1>2. CASE ~Install /\ ~InstallFetched
  <2>1. UNCHANGED installed
    BY <1>2, Zenon DEF Next, Begin, BeginCache, Fetch, Transfer, Rename, Load, Plan, Precache, Precached,
                Crash, IndexFetched, Clean, Publish, Tick, cvars
  <2>2. QED
    BY <2>1, Zenon DEF InstalledVerified
<1>3. QED
  BY <1>1, <1>2, Zenon

(* Whatever is in the cache, torn, stale or somebody else's, only verified  *)
(* content is ever installed (apk_extract_verify_identity in                *)
(* apk_db_unpack_pkg).                                                      *)
THEOREM OnlyVerifiedIsInstalled == Spec => []InstalledVerified
<1>1. Init => InstalledVerified
  BY Zenon DEF Init, InstalledVerified
<1>2. InstalledVerified /\ [Next]_cvars => InstalledVerified'
  BY InstallsVerified, Zenon
<1>3. QED
  BY <1>1, <1>2, PTL DEF Spec

(* The file of an installed package, whole and in no local repository, is   *)
(* not one that cache_clean_item deletes.                                   *)
LEMMA InstalledIsKept ==
    ASSUME NEW q \in (Pkgs \cap proc["cache"].known) \ Locals,
           proc["cache"].verb # "purge", Whole(Content(q).part)
    PROVE  Keeps(proc["cache"], Final(q))
<1>1. Final(q)[1] = q /\ Final(q)[2] = ""
  BY Zenon DEF Final
<1>2. IsPkgFile(proc["cache"], Final(q))
  BY <1>1, Zenon DEF IsPkgFile, Whole, Content
<1>3. QED
  BY <1>1, <1>2, Zenon DEF Keeps

(* A step that neither cleans nor stutters adds names to the cache          *)
(* directory and takes away temporary ones.                                 *)
LEMMA FinalNamesStay ==
    ASSUME NEW q, Exists(q), Next, ~Clean
    PROVE  Exists(q)'
<1>1. Final(q) \in DOMAIN dir
  BY Zenon DEF Exists
<1>2. \A f : Final(q) # Tmp(f)
  BY Zenon DEF Final, Tmp
<1>3. \A f : Final(q) \in DOMAIN Without(Tmp(f))
  BY <1>1, <1>2, Zenon DEF Without
<1>4. \A n, i : Final(q) \in DOMAIN With(dir, n, i)
  BY <1>1, Zenon DEF With
<1>5. \A f, n, i : Final(q) \in DOMAIN With(Without(Tmp(f)), n, i)
  BY <1>3, Zenon DEF With
<1>6. Final(q) \in DOMAIN dir'
  <2>1. CASE \E p \in Proc : Fetch(p)
    <3>1. PICK p \in Proc : Fetch(p)
      BY <2>1, Zenon
    <3>2. \/ UNCHANGED dir
          \/ \E f : dir' = Without(Tmp(f))
          \/ \E n, i : dir' = With(dir, n, i)
      BY <3>1, Zenon DEF Fetch, OpenTmp
    <3>3. QED
      BY <3>2, <1>1, <1>3, <1>4, Zenon
  <2>2. CASE \E p \in Proc : Transfer(p)
    <3>1. UNCHANGED dir \/ \E f : dir' = Without(Tmp(f))
      BY <2>2, Zenon DEF Transfer
    <3>2. QED
      BY <3>1, <1>1, <1>3, Zenon
  <2>3. CASE \E p \in Proc : Rename(p)
    <3>1. UNCHANGED dir \/ \E f, n, i : dir' = With(Without(Tmp(f)), n, i)
      BY <2>3, Zenon DEF Rename
    <3>2. QED
      BY <3>1, <1>1, <1>5, Zenon
  <2>4. CASE ~\E p \in Proc : Fetch(p) \/ Transfer(p) \/ Rename(p)
    <3>1. UNCHANGED dir
      BY <2>4, Zenon DEF Next, Begin, BeginCache, Load, Plan, Precache, Precached, Crash, IndexFetched,
                  Install, InstallFetched, Publish, Tick
    <3>2. QED
      BY <3>1, <1>1, Zenon
  <2>5. QED
    BY <2>1, <2>2, <2>3, <2>4, Zenon
<1>7. QED
  BY <1>6, Zenon DEF Exists, Final

(* While apk cache clean or sync runs, no step of it or of a concurrent     *)
(* apk takes away the file of a package it has seen installed               *)
(* (cache_clean_item, fdo_close, tee_close).                                *)
THEOREM CleaningKeepsInstalled == Spec => CleanKeepsInstalled
<1> DEFINE Kept == \A q \in (Pkgs \cap proc["cache"].known) \ Locals :
          (proc["cache"].pc = "clean" /\ proc["cache"].verb # "purge"
             /\ Exists(q) /\ Whole(Content(q).part))
          => Exists(q)'
<1>1. Next => Kept
  <2> SUFFICES ASSUME Next,
                      NEW q \in (Pkgs \cap proc["cache"].known) \ Locals,
                      proc["cache"].pc = "clean", proc["cache"].verb # "purge",
                      Exists(q), Whole(Content(q).part)
               PROVE  Exists(q)'
    BY Zenon
  <2>1. CASE Clean
    <3>1. UNCHANGED dir \/ \E name : ~Keeps(proc["cache"], name) /\ dir' = Without(name)
      BY <2>1, Zenon DEF Clean
    <3>2. ASSUME NEW name, ~Keeps(proc["cache"], name), dir' = Without(name)
          PROVE  Exists(q)'
      <4>1. name # Final(q)
        BY <3>2, InstalledIsKept, Zenon
      <4>2. QED
        BY <3>2, <4>1, Zenon DEF Exists, Without, Final
    <3>3. QED
      BY <3>1, <3>2, Zenon DEF Exists, Final
  <2>2. CASE ~Clean
    BY <2>2, FinalNamesStay, Zenon
  <2>3. QED
    BY <2>1, <2>2, Zenon
<1>2. [Next]_cvars => [Kept]_cvars
  BY <1>1, Zenon
<1>3. QED
  BY <1>2, PTL DEF Spec, CleanKeepsInstalled

-----------------------------------------------------------------------------
(* The steps of apk; the others leave it alone.                             *)
ApkStep ==
    \/ \E verb \in Verbs \ CacheVerbs, pre \in BOOLEAN : Begin(verb, pre)
    \/ Fetch("apk") \/ Transfer("apk") \/ Rename("apk") \/ Load("apk") \/ Plan("apk")
    \/ Precache("apk") \/ Precached("apk") \/ Crash("apk")
    \/ IndexFetched \/ Install \/ InstallFetched
(* Every step is one of apk or leaves it alone.                             *)
LEMMA ApkSteps ==
    ASSUME Types, [Next]_cvars
    PROVE  ApkStep \/ proc'["apk"] = proc["apk"]
<1>1. ASSUME NEW r, Set("cache", r) PROVE proc'["apk"] = proc["apk"]
  BY <1>1, Zenon DEF Set, Types, Proc
<1>2. ASSUME NEW p \in Proc, Fetch(p) \/ Transfer(p) \/ Rename(p) \/ Load(p) \/ Plan(p)
                             \/ Precache(p) \/ Precached(p) \/ Crash(p)
      PROVE  ApkStep \/ proc'["apk"] = proc["apk"]
  <2>1. CASE p = "apk"
    BY <1>2, <2>1, Zenon DEF ApkStep
  <2>2. CASE p = "cache"
    <3>1. \E r : Set("cache", r)
      BY <1>2, <2>2, Zenon DEF Fetch, Transfer, Rename, Load, Plan, Precache, Precached, Crash
    <3>2. QED
      BY <1>1, <3>1, Zenon
  <2>3. QED
    BY <2>1, <2>2, Zenon DEF Proc
<1>3. CASE Clean
  BY <1>1, <1>3, Zenon DEF Clean
<1>4. ASSUME NEW verb, BeginCache(verb) PROVE proc'["apk"] = proc["apk"]
  BY <1>1, <1>4, Zenon DEF BeginCache
<1>5. CASE Publish \/ Tick \/ UNCHANGED cvars
  BY <1>5, Zenon DEF Publish, Tick, cvars
<1>6. QED
  BY <1>2, <1>3, <1>4, <1>5, Zenon DEF Next, ApkStep

(* While apk runs, what is in the cache stays, unless it is told.           *)
LEMMA StaysThere ==
    ASSUME [Next]_cvars, proc["apk"].pc # "idle", meddled' = {}
    PROVE  meddled = {} /\ \A q : Exists(q) => Exists(q)'
<1>1. meddled \subseteq meddled'
  BY ZenonT(60) DEF Next, Begin, BeginCache, Fetch, Transfer, Rename, Load, Plan, Precache, Precached,
         Crash, IndexFetched, Install, InstallFetched, Clean, Publish, Tick, cvars, OpenTmp
<1>2. CASE Clean
  <2>1. UNCHANGED dir
    BY <1>2, Zenon DEF Clean
  <2>2. QED
    BY <1>1, <2>1, Zenon DEF Exists, Final
<1>3. CASE UNCHANGED cvars
  BY <1>1, <1>3, Zenon DEF cvars, Exists, Final
<1>4. QED
  BY <1>1, <1>2, <1>3, FinalNamesStay, Zenon

(* What apk believes after a step of its own, from what it did to itself.   *)
BelievedOf(x) ==
    /\ Committing(x) /\ ~x.bad /\ meddled = {} => \A q \in x.cached : Exists(q) \/ Passed(x, q)
    /\ Downloads(x) /\ ~x.pre => x.file \notin x.todo
    /\ Downloads(x) /\ x.pre /\ x.pc = "fetched" /\ ~Bad(x.res) /\ meddled = {} => Exists(x.file)

(* A command that is neither committing nor downloading believes nothing.   *)
LEMMA NoBelief ==
    ASSUME NEW y, ~Committing(y)
    PROVE  BelievedOf(y)
BY Zenon DEF BelievedOf, Committing

(* apk goes on downloading.                                                 *)
LEMMA BelievedDownload ==
    ASSUME Files, BelievedOf(proc["apk"]), [Next]_cvars, NEW x, x = proc["apk"], x.pc \in Busy,
           NEW y, y.pc \in Busy, y.file = x.file, y.pre = x.pre, y.bad = x.bad, y.todo = x.todo,
           y.cached = x.cached,
           Downloads(y) /\ y.pre /\ y.pc = "fetched" /\ ~Bad(y.res) => Exists(y.file)'
    PROVE  BelievedOf(y)'
<1>1. x.pc # "idle" /\ x.pc # "plan" /\ y.pc # "plan"
  BY Zenon DEF Busy
<1>2. CASE x.file = Index
  BY <1>2, NoBelief, Zenon DEF BelievedOf, Committing, Downloads, Busy
<1>3. CASE x.file # Index
  <2>1. Committing(x) /\ Downloads(x) /\ Downloads(y)
    BY <1>3, Zenon DEF Committing, Downloads
  <2>2. \A q : Passed(x, q) <=> Passed(y, q)
    BY <1>1, Zenon DEF Passed
  <2>3. meddled' = {} => meddled = {} /\ \A q : Exists(q) => Exists(q)'
    BY <1>1, StaysThere, Zenon
  <2>4. /\ ~x.bad /\ meddled = {} => \A q \in x.cached : Exists(q) \/ Passed(x, q)
        /\ ~x.pre => x.file \notin x.todo
    BY <2>1, Zenon DEF BelievedOf
  <2>5. QED
    BY <2>1, <2>2, <2>3, <2>4, Zenon DEF BelievedOf
<1>4. QED
  BY <1>2, <1>3, Zenon

(* Downloading makes apk believe nothing that is not so.                    *)
LEMMA BelievedFetches ==
    ASSUME Files, BelievedOf(proc["apk"]), [Next]_cvars,
           Fetch("apk") \/ Transfer("apk") \/ Rename("apk")
    PROVE  BelievedOf(proc["apk"])'
<1> SUFFICES ASSUME NEW x, x = proc["apk"], NEW y, y = proc'["apk"]
             PROVE  BelievedOf(y)'
  BY Zenon DEF BelievedOf, Committing, Downloads, Passed
<1>1. x \in ProcRec /\ Role("apk", x) /\ x.pc \in Busy /\ "apk" \in Proc
  BY Zenon DEF Files, Types, Roles, Proc, Busy, Fetch, Transfer, Rename
<1>2. \A r : Set("apk", r) => y = r
  BY <1>1, Zenon DEF Set, Files, Types
<1>3. CASE Fetch("apk")
  <2>1. ASSUME NEW r, r \in {"error", "nofile"} \/ x.file = Index, y = [x EXCEPT !.pc = "fetched", !.res = r]
        PROVE  BelievedOf(y)'
    <3>1. /\ y.pc = "fetched" /\ y.file = x.file /\ y.pre = x.pre /\ y.bad = x.bad
          /\ y.todo = x.todo /\ y.cached = x.cached /\ y.res = r
      BY <1>1, <2>1 DEF ProcRec
    <3>2. y.pc \in Busy /\ (Downloads(y) => Bad(y.res))
      BY <2>1, <3>1, Zenon DEF Downloads, Bad, Busy
    <3>3. QED
      BY <1>1, <3>1, <3>2, BelievedDownload, Zenon
  <2>2. ASSUME NEW i, y = Teed(x, i)
        PROVE  BelievedOf(y)'
    <3>1. /\ y.pc = "transfer" /\ y.file = x.file /\ y.pre = x.pre /\ y.bad = x.bad
          /\ y.todo = x.todo /\ y.cached = x.cached
      BY <1>1, <2>2 DEF ProcRec, Teed
    <3>2. QED
      BY <1>1, <3>1, BelievedDownload DEF Busy
  <2>3. \A r \in Answers(x.file, x.since) : r \in {"ok", "error", "unchanged"} /\ (r = "unchanged" => x.file = Index)
    BY Zenon DEF Answers
  <2>4. QED
    BY <1>2, <1>3, <2>1, <2>2, <2>3, Zenon DEF Fetch
<1>4. CASE Transfer("apk")
  <2>1. /\ y.pc \in Busy /\ y.file = x.file /\ y.pre = x.pre /\ y.bad = x.bad
        /\ y.todo = x.todo /\ y.cached = x.cached /\ (y.pc = "fetched" => Bad(y.res))
    <3>1. CASE y = [x EXCEPT !.got = @ + 1]
      BY <1>1, <1>4, <3>1, Zenon DEF ProcRec, Transfer
    <3>2. CASE y = [x EXCEPT !.pc = "fetched", !.res = "error", !.fd = 0, !.got = 0, !.ver = 0]
      BY <1>1, <3>2, Zenon DEF ProcRec, Bad, Busy
    <3>3. QED
      BY <1>2, <1>4, <3>1, <3>2, Zenon DEF Transfer
  <2>2. QED
    BY <1>1, <2>1, BelievedDownload, Zenon
<1>5. CASE Rename("apk")
  <2>1. /\ y.pc \in Busy /\ y.file = x.file /\ y.pre = x.pre /\ y.bad = x.bad
        /\ y.todo = x.todo /\ y.cached = x.cached
        /\ y.res = IF x.fd = 0 \/ Tmp(x.file) \in DOMAIN dir THEN "ok" ELSE "error"
    <3>1. ASSUME NEW r, y = [x EXCEPT !.pc = "fetched", !.fd = 0, !.got = 0, !.ver = 0, !.res = r]
          PROVE  /\ y.pc = "fetched" /\ y.file = x.file /\ y.pre = x.pre /\ y.bad = x.bad
                 /\ y.todo = x.todo /\ y.cached = x.cached /\ y.res = r
      BY <1>1, <3>1 DEF ProcRec
    <3>2. y = [x EXCEPT !.pc = "fetched", !.fd = 0, !.got = 0, !.ver = 0,
                        !.res = IF x.fd = 0 \/ Tmp(x.file) \in DOMAIN dir THEN "ok" ELSE "error"]
      BY <1>2, <1>5, Zenon DEF Rename
    <3>3. QED
      BY <3>1, <3>2, Zenon DEF Busy
  <2>2. x.pre => x.fd # 0
    BY <1>1, <1>5, Zenon DEF Role, Rename
  <2>3. x.fd # 0 /\ Tmp(x.file) \in DOMAIN dir => Exists(x.file)'
    BY <1>5, Zenon DEF Rename, With, Exists, Final
  <2>4. y.pre /\ ~Bad(y.res) => Exists(y.file)'
    BY <2>1, <2>2, <2>3, Zenon DEF Bad, Exists, Final
  <2>5. QED
    BY <1>1, <2>1, <2>4, BelievedDownload, Zenon
<1>6. QED
  BY <1>3, <1>4, <1>5, Zenon

(* Load, plan and precache: what is believed is there.                      *)
LEMMA BelievedCommits ==
    ASSUME Files, BelievedOf(proc["apk"]), [Next]_cvars,
           \/ Load("apk") \/ Plan("apk") \/ Precache("apk") \/ Precached("apk") \/ Crash("apk")
           \/ IndexFetched \/ \E verb \in Verbs \ CacheVerbs, pre \in BOOLEAN : Begin(verb, pre)
    PROVE  BelievedOf(proc["apk"])'
<1> SUFFICES ASSUME NEW x, x = proc["apk"], NEW y, y = proc'["apk"]
             PROVE  BelievedOf(y)'
  BY Zenon DEF BelievedOf, Committing, Downloads, Passed
<1>1. x \in ProcRec /\ Role("apk", x) /\ "apk" \in Proc
  BY Zenon DEF Files, Types, Roles, Proc
<1>2. \A r : Set("apk", r) => y = r
  BY <1>1, Zenon DEF Set, Files, Types
<1>3. y = Idle => BelievedOf(y)'
  <2>1. y = Idle => ~Committing(y)
    BY IdleFd, Zenon DEF Committing, Downloads, Busy
  <2>2. QED
    BY <2>1, Zenon DEF BelievedOf, Committing
<1>4. UNCHANGED <<dir, meddled>> => (meddled' = meddled /\ \A q : Exists(q) <=> Exists(q)')
  BY Zenon DEF Exists, Final
<1>5. CASE Load("apk")
  <2>1. CASE y = Idle
    BY <1>3, <2>1, Zenon
  <2>2. CASE y # Idle
    <3>1. y.cached = {q \in Seen(View) : InCache(q)} /\ y.pc \in {"clean", "plan"}
      <4> DEFINE cleans == x.verb \in {"clean", "purge", "sync"}
                 v == View
                 k == DOMAIN installed
                 c == {q \in Seen(View) : InCache(q)}
                 t == IF cleans THEN DOMAIN dir ELSE {}
                 s == IF cleans THEN "clean" ELSE "plan"
      <4>1. y = [x EXCEPT !.asked = 0, !.since = 0, !.refreshed = FALSE, !.failed = FALSE,
                          !.view = v, !.known = k, !.cached = c, !.todo = t, !.pc = s]
        BY <1>2, <1>5, <2>2, Zenon DEF Load
      <4>2. s \in {"clean", "plan"}
        BY Zenon
      <4> HIDE DEF cleans, v, k, c, t, s
      <4>3. y.cached = c /\ y.pc = s
        BY <1>1, <4>1, Zenon DEF ProcRec
      <4>4. QED
        BY <4>2, <4>3, Zenon DEF c
    <3>2. \A q \in y.cached : Exists(q)'
      BY <1>4, <1>5, <3>1, Zenon DEF Load, InCache
    <3>3. ~Downloads(y)
      BY <3>1, Zenon DEF Downloads, Busy
    <3>4. QED
      BY <3>2, <3>3, Zenon DEF BelievedOf
  <2>3. QED
    BY <2>1, <2>2, Zenon
<1>6. CASE Plan("apk")
  <2>1. x.pc = "plan" /\ y.cached = x.cached /\ y.bad = x.bad /\ y.pc \in {"precache", "install"}
        /\ UNCHANGED <<dir, meddled>>
    <3>1. PICK S, T : \E s \in {"precache", "install"} :
            y = [x EXCEPT !.verb = "none", !.view = 0, !.known = {}, !.plan = T, !.todo = S, !.pc = s]
      BY <1>2, <1>6, Zenon DEF Plan
    <3>2. PICK s \in {"precache", "install"} :
            y = [x EXCEPT !.verb = "none", !.view = 0, !.known = {}, !.plan = T, !.todo = S, !.pc = s]
      BY <3>1, Zenon
    <3>3. y.cached = x.cached /\ y.bad = x.bad /\ y.pc = s
      BY <1>1, <3>2, Zenon DEF ProcRec
    <3>4. QED
      BY <1>6, <3>2, <3>3, Zenon DEF Plan
  <2>2. ~x.bad /\ meddled = {} => \A q \in x.cached : Exists(q)
    BY <2>1, Zenon DEF BelievedOf, Committing, Passed
  <2>3. ~Downloads(y)
    BY <2>1, Zenon DEF Downloads, Busy
  <2>4. QED
    BY <1>4, <2>1, <2>2, <2>3, Zenon DEF BelievedOf
<1>7. CASE Precache("apk")
  <2>1. x.pc = "precache" /\ x.pre /\ UNCHANGED <<dir, meddled>>
    BY <1>1, <1>7, Zenon DEF Precache, Role
  <2>2. ~x.bad /\ meddled = {} => \A q \in x.cached : Exists(q)
    BY <2>1, Zenon DEF BelievedOf, Committing, Passed
  <2>3. y # Idle => y.cached = x.cached /\ y.bad = x.bad /\ y.pc \in {"fetch", "install"}
                    /\ (y.pc = "fetch" => y.pre)
    <3>1. CASE \E q, t : y = [x EXCEPT !.file = q, !.since = 0, !.todo = t, !.pc = "fetch"]
      <4>1. PICK q, t : y = [x EXCEPT !.file = q, !.since = 0, !.todo = t, !.pc = "fetch"]
        BY <3>1, Zenon
      <4>2. y.cached = x.cached /\ y.bad = x.bad /\ y.pc = "fetch" /\ y.pre
        BY <1>1, <2>1, <4>1 DEF ProcRec
      <4>3. QED
        BY <4>2, Zenon
    <3>2. y = [x EXCEPT !.todo = x.plan, !.plan = {}, !.pre = FALSE, !.pc = "install"] =>
              y.cached = x.cached /\ y.bad = x.bad /\ y.pc = "install"
      BY <1>1, Zenon DEF ProcRec
    <3>3. \/ y = Idle
          \/ \E q, t : y = [x EXCEPT !.file = q, !.since = 0, !.todo = t, !.pc = "fetch"]
          \/ y = [x EXCEPT !.todo = x.plan, !.plan = {}, !.pre = FALSE, !.pc = "install"]
      BY <1>2, <1>7, Zenon DEF Precache
    <3>4. QED
      BY <3>1, <3>2, <3>3, Zenon
  <2>4. y # Idle => ~(y.pc = "fetched") /\ ~(Downloads(y) /\ ~y.pre)
    BY <2>3, Zenon DEF Downloads, Busy
  <2>5. QED
    BY <1>3, <1>4, <2>1, <2>2, <2>3, <2>4, Zenon DEF BelievedOf
<1>8. CASE Precached("apk")
  <2>1. x.pc = "fetched" /\ x.file # Index /\ x.pre /\ UNCHANGED <<dir, meddled>>
    BY <1>8, Zenon DEF Precached
  <2>2. /\ ~x.bad /\ meddled = {} => \A q \in x.cached : Exists(q)
        /\ ~Bad(x.res) /\ meddled = {} => Exists(x.file)
    BY <2>1, Zenon DEF BelievedOf, Committing, Passed, Downloads, Busy
  <2>3. /\ y.pc = "precache" /\ (y.bad <=> x.bad \/ Bad(x.res))
        /\ y.cached \subseteq x.cached \cup {x.file}
    <3> DEFINE c == IF x.res = "nofile" THEN Over(x).cached ELSE Over(x).cached \cup {x.file}
               b == Over(x).bad \/ Bad(x.res)
    <3>1. y = [Over(x) EXCEPT !.cached = c, !.bad = b, !.pc = "precache"]
      BY <1>2, <1>8, Zenon DEF Precached
    <3>2. Over(x).cached = x.cached /\ Over(x).bad = x.bad /\ x.bad \in BOOLEAN
          /\ Bad(x.res) \in BOOLEAN
      BY <1>1 DEF Over, ProcRec, Bad
    <3>3. c \subseteq x.cached \cup {x.file}
      BY <3>2, Zenon
    <3>4. b \in BOOLEAN /\ (b <=> x.bad \/ Bad(x.res))
      BY <3>2, Zenon
    <3> HIDE DEF c, b
    <3>5. y.pc = "precache" /\ y.bad = b /\ y.cached = c
      BY <1>1, <3>1, Zenon DEF Over, ProcRec
    <3>6. QED
      BY <3>3, <3>4, <3>5, Zenon
  <2>4. ~Downloads(y)
    BY <2>3, Zenon DEF Downloads, Busy
  <2>5. QED
    BY <1>4, <2>1, <2>2, <2>3, <2>4, Zenon DEF BelievedOf
<1>9. CASE Crash("apk")
  BY <1>2, <1>3, <1>9, Zenon DEF Crash
<1>10. CASE IndexFetched
  <2>1. y.pc = "load"
    BY <1>1, <1>2, <1>10, Zenon DEF IndexFetched, Over, ProcRec
  <2>2. QED
    BY <2>1, Zenon DEF BelievedOf, Committing, Downloads, Busy
<1>11. ASSUME NEW verb \in Verbs \ CacheVerbs, NEW pre \in BOOLEAN, Begin(verb, pre)
       PROVE  BelievedOf(y)'
  <2>1. y.pc \in {"fetch", "load"} /\ y.file = Index
    <3> DEFINE a == served
               b == IsIndexStale(verb)
               c == pre /\ verb # "update"
               n == Since(verb)
               s == IF b THEN "fetch" ELSE "load"
    <3>1. y = [Idle EXCEPT !.verb = verb, !.pre = c, !.asked = a, !.since = n, !.refreshed = b,
                           !.pc = s]
      BY <1>2, <1>11, Zenon DEF Begin
    <3>2. s \in {"fetch", "load"}
      BY Zenon
    <3> HIDE DEF a, b, c, n, s
    <3>3. y.pc = s /\ y.file = Index
      BY <3>1 DEF Idle
    <3>4. QED
      BY <3>2, <3>3, Zenon
  <2>2. QED
    BY <2>1, Zenon DEF BelievedOf, Committing, Downloads, Busy
<1>12. QED
  BY <1>5, <1>6, <1>7, <1>8, <1>9, <1>10, <1>11

(* Installing goes on with what is there or is never looked at again.       *)
LEMMA BelievedInstalls ==
    ASSUME Files, BelievedOf(proc["apk"]), [Next]_cvars, Install \/ InstallFetched
    PROVE  BelievedOf(proc["apk"])'
<1> SUFFICES ASSUME NEW x, x = proc["apk"], NEW y, y = proc'["apk"]
             PROVE  BelievedOf(y)'
  BY Zenon DEF BelievedOf, Committing, Downloads, Passed
<1>1. x \in ProcRec /\ Role("apk", x) /\ "apk" \in Proc
  BY Zenon DEF Files, Types, Roles, Proc
<1>2. \A r : Set("apk", r) => y = r
  BY <1>1, Zenon DEF Set, Files, Types
<1>3. y = Idle => BelievedOf(y)'
  <2>1. y = Idle => ~Committing(y)
    BY IdleFd, Zenon DEF Committing, Downloads, Busy
  <2>2. QED
    BY <2>1, Zenon DEF BelievedOf, Committing
<1>4. meddled' = meddled /\ \A q : Exists(q) <=> Exists(q)'
  BY Zenon DEF Exists, Final, Install, InstallFetched
<1>5. Committing(x) /\ ~x.pre /\ x.pc # "plan"
  BY <1>1, Zenon DEF Install, InstallFetched, Committing, Downloads, Busy, Role
<1>6. ~x.bad /\ meddled = {} => \A q \in x.cached : Exists(q) \/ q \notin x.todo
  BY <1>5, Zenon DEF BelievedOf, Passed
<1>7. CASE Install
  <2>1. \/ y = Idle
        \/ \E q : y = [x EXCEPT !.todo = x.todo \ {q}]
        \/ \E q : y = [x EXCEPT !.file = q, !.since = 0, !.todo = x.todo \ {q}, !.pc = "fetch"]
    BY <1>2, <1>7, Zenon DEF Install
  <2>2. ASSUME NEW q, y = [x EXCEPT !.todo = x.todo \ {q}] PROVE BelievedOf(y)'
    <3>1. /\ y.todo = x.todo \ {q} /\ y.cached = x.cached /\ y.bad = x.bad /\ y.pre = x.pre
          /\ y.pc = "install"
      BY <1>1, <1>7, <2>2, Zenon DEF ProcRec, Install
    <3>2. ~Downloads(y)
      BY <3>1, Zenon DEF Downloads, Busy
    <3>3. QED
      BY <1>4, <1>5, <1>6, <3>1, <3>2, Zenon DEF BelievedOf, Passed
  <2>3. ASSUME NEW q, y = [x EXCEPT !.file = q, !.since = 0, !.todo = x.todo \ {q}, !.pc = "fetch"]
        PROVE  BelievedOf(y)'
    <3>1. /\ y.todo = x.todo \ {q} /\ y.cached = x.cached /\ y.bad = x.bad /\ y.pre = x.pre
          /\ y.pc = "fetch" /\ y.file = q
      BY <1>1, <2>3, Zenon DEF ProcRec
    <3>2. QED
      BY <1>4, <1>5, <1>6, <3>1, Zenon DEF BelievedOf, Passed
  <2>4. QED
    BY <1>3, <2>1, <2>2, <2>3, Zenon
<1>8. CASE InstallFetched
  <2>1. x.file \notin x.todo
    BY <1>5, <1>8, Zenon DEF InstallFetched, BelievedOf, Downloads, Busy
  <2>2. PICK c : c \subseteq x.cached \cup {x.file} /\ y = [Over(x) EXCEPT !.pc = "install", !.cached = c]
    <3>1. Over(x).cached = x.cached
      BY <1>1, Zenon DEF Over, ProcRec
    <3>2. QED
      BY <1>2, <1>8, <3>1, Zenon DEF InstallFetched
  <2>4. /\ y.pc = "install" /\ y.cached \subseteq x.cached \cup {x.file} /\ y.todo = x.todo
        /\ y.bad = x.bad /\ y.pre = x.pre
    BY <1>1, <2>2 DEF Over, ProcRec
  <2>5. ~Downloads(y)
    BY <2>4, Zenon DEF Downloads, Busy
  <2>6. QED
    BY <1>4, <1>5, <1>6, <2>1, <2>4, <2>5 DEF BelievedOf, Passed
<1>9. QED
  BY <1>7, <1>8, Zenon

(* What apk believes to be in the cache, through every step.                *)
LEMMA BelievedStep ==
    ASSUME Files, Believed, [Next]_cvars
    PROVE  Believed'
<1>1. BelievedOf(proc["apk"])
  BY Zenon DEF Believed, BelievedOf
<1>2. CASE proc'["apk"] = proc["apk"]
  <2>1. CASE proc["apk"].pc = "idle"
    BY <1>2, <2>1, Zenon DEF Believed, Committing, Downloads, Busy
  <2>2. CASE proc["apk"].pc # "idle"
    <3>1. meddled' = {} => meddled = {} /\ \A q : Exists(q) => Exists(q)'
      BY <2>2, StaysThere, Zenon
    <3>2. QED
      BY <1>1, <1>2, <3>1, Zenon DEF BelievedOf, Believed, Committing, Downloads, Passed
  <2>3. QED
    BY <2>1, <2>2, Zenon
<1>3. CASE ApkStep
  <2>1. BelievedOf(proc["apk"])'
    BY <1>1, <1>3, BelievedFetches, BelievedCommits, BelievedInstalls, Zenon DEF ApkStep
  <2>2. QED
    BY <2>1, Zenon DEF Believed, BelievedOf
<1>4. QED
  BY <1>2, <1>3, ApkSteps, Zenon DEF Files

(* Nobody but apk changes the cached index: apk cache clean keeps it, and   *)
(* apk cache downloads packages only.                                       *)
LEMMA ViewStays ==
    ASSUME Files, [Next]_cvars, proc'["apk"] = proc["apk"]
    PROVE  View' = View
<1> SUFFICES ASSUME NEW n, n = Final(Index)
             PROVE  /\ n \in DOMAIN dir' <=> n \in DOMAIN dir
                    /\ n \in DOMAIN dir => data'[dir'[n]].part = data[dir[n]].part
  BY Zenon DEF View, Exists, Content, Final
<1>0. n \in DOMAIN dir => dir[n] \in Inode
  BY Zenon DEF Files, Types
<1>1. ASSUME NEW p \in Proc, Opens(p) \/ Drops(p) \/ Fills(p) \/ Breaks(p) \/ Renames(p)
      PROVE  p = "cache" /\ proc[p].file # Index /\ proc[p].file \in File /\ proc[p].pc \in Busy
             /\ (proc[p].fd # 0 => Writes(proc[p])) /\ "cache" \in Proc
  <2>1. proc[p] \in ProcRec /\ p \in Proc /\ proc \in [Proc -> ProcRec]
    BY Zenon DEF Files, Types
  <2>2. p # "apk"
    <3>1. Opens(p) => proc'[p].pc = "transfer" /\ proc[p].pc = "fetch"
      BY <2>1 DEF Opens, Set, Teed, ProcRec
    <3>2. Drops(p) => proc'[p].pc = "fetched" /\ proc[p].pc = "fetch"
      BY <2>1 DEF Drops, Set, ProcRec
    <3>3. Fills(p) => proc'[p].got = proc[p].got + 1 /\ proc[p].got \in Nat
      BY <2>1 DEF Fills, Set, ProcRec, Parts
    <3>4. Breaks(p) \/ Renames(p) => proc'[p].pc = "fetched" /\ proc[p].pc = "transfer"
      <4>1. Breaks(p) => proc'[p].pc = "fetched" /\ proc[p].pc = "transfer"
        BY <2>1 DEF Breaks, Set, ProcRec
      <4>2. Renames(p) => proc'[p].pc = "fetched" /\ proc[p].pc = "transfer"
        BY <2>1 DEF Renames, Set, ProcRec
      <4>3. QED
        BY <4>1, <4>2, Zenon
    <3>5. QED
      BY <1>1, <3>1, <3>2, <3>3, <3>4
  <2>3. proc[p].pc \in {"fetch", "transfer"}
    BY <1>1, Zenon DEF Opens, Drops, Fills, Breaks, Renames
  <2>4. p = "cache" /\ proc[p].pc # "idle" /\ proc[p].pc \in Busy
    BY <2>2, <2>3, Zenon DEF Proc, Busy
  <2>5. proc[p].file # Index
    BY <2>4, Zenon DEF Files, Roles, Role
  <2>6. QED
    BY <2>1, <2>4, <2>5, Zenon DEF Files, Links, ProcRec
<1>2. ASSUME NEW f, f # Index
      PROVE  n # Tmp(f) /\ n # Final(f)
  BY <1>2, NameFacts, Zenon
<1>3. \A f : n # Tmp(f)
  BY NameFacts, Zenon
<1>4. ASSUME NEW p \in Proc, Opens(p) PROVE n \in DOMAIN dir' <=> n \in DOMAIN dir
  BY <1>3, <1>4, Zenon DEF Opens, OpenTmp, With
<1>5. ASSUME NEW p \in Proc, Opens(p), n \in DOMAIN dir
      PROVE  data'[dir'[n]].part = data[dir[n]].part
  <2> SUFFICES ASSUME NEW f, f = proc[p].file, NEW i, i = Opened(f)
               PROVE  data'[dir'[n]].part = data[dir[n]].part
    BY Zenon
  <2>1. f \in File
    BY <1>1, <1>5, Zenon
  <2>2. dir[n] # i
    BY <1>3, <1>5, <2>1, OpenedIsFree, Zenon DEF Files, Links
  <2>3. dir'[n] = dir[n]
    BY <1>3, <1>5, Zenon DEF Opens, OpenTmp, With
  <2>4. data'[dir[n]] = data[dir[n]]
    BY <1>0, <1>5, <2>2, Zenon DEF Opens, OpenTmp, Files, Types
  <2>5. QED
    BY <2>3, <2>4, Zenon
<1>6. ASSUME NEW p \in Proc, Drops(p)
      PROVE  /\ n \in DOMAIN dir' <=> n \in DOMAIN dir
             /\ n \in DOMAIN dir => data'[dir'[n]].part = data[dir[n]].part
  <2> SUFFICES ASSUME NEW f, f = proc[p].file
               PROVE  /\ n \in DOMAIN dir' <=> n \in DOMAIN dir
                      /\ n \in DOMAIN dir => data'[dir'[n]].part = data[dir[n]].part
    BY Zenon
  <2>1. DOMAIN dir' = DOMAIN dir \ {Tmp(f)} /\ \A m \in DOMAIN dir' : dir'[m] = dir[m]
    BY <1>6, Zenon DEF Drops, Without
  <2>2. Tmp(f) \in DOMAIN dir /\ n \in DOMAIN dir => dir[n] # dir[Tmp(f)]
    BY <1>3, Zenon DEF Files, Links
  <2>3. n \in DOMAIN dir => data'[dir[n]] = data[dir[n]]
    BY <1>0, <1>6, <2>2, Zenon DEF Drops, Opened, Files, Types
  <2>4. QED
    BY <1>3, <2>1, <2>3, Zenon
<1>7. ASSUME NEW p \in Proc, Fills(p)
      PROVE  /\ n \in DOMAIN dir' <=> n \in DOMAIN dir
             /\ n \in DOMAIN dir => data'[dir'[n]].part = data[dir[n]].part
  <2>1. n \in DOMAIN dir => dir[n] # proc[p].fd
    BY <1>1, <1>7, NameFacts, ZenonT(60) DEF Writes, Fills
  <2>2. n \in DOMAIN dir => data'[dir[n]] = data[dir[n]]
    BY <1>0, <1>7, <2>1, Zenon DEF Fills, Files, Types
  <2>3. QED
    BY <1>7, <2>2, Zenon DEF Fills
<1>8. ASSUME NEW p \in Proc, Breaks(p) \/ Renames(p)
      PROVE  /\ n \in DOMAIN dir' <=> n \in DOMAIN dir
             /\ n \in DOMAIN dir => data'[dir'[n]].part = data[dir[n]].part
  <2>1. n # Tmp(proc[p].file) /\ n # Final(proc[p].file)
    BY <1>1, <1>2, <1>8, Zenon
  <2>2. QED
    BY <1>8, <2>1, Zenon DEF Breaks, Renames, With, Without
<1>9. CASE Sweeps
  <2>1. PICK name \in DOMAIN dir :
            ~Keeps(proc["cache"], name) /\ dir' = Without(name) /\ UNCHANGED data
    BY <1>9, Zenon DEF Sweeps
  <2>2. Keeps(proc["cache"], n)
    <3>1. n[1] \notin Pkgs
      BY NameFacts, CacheAssumption, Zenon
    <3>2. QED
      BY <3>1, Zenon DEF Keeps, IsPkgFile
  <2>3. QED
    BY <2>1, <2>2, Zenon DEF Without
<1>10. CASE Touches
  BY <1>0, <1>10, Zenon DEF Touches, Files, Types
<1>11. CASE Quiet
  BY <1>11, Zenon DEF Quiet
<1>12. QED
  BY <1>4, <1>5, <1>6, <1>7, <1>8, <1>9, <1>10, <1>11, StepKinds DEF Files

(* What is said of apk update, for the record of a command.                 *)
UpdatingOf(x) ==
    /\ x.asked <= served
    /\ x.verb = "update" =>
          /\ x.pc \in Busy \cup {"load"} /\ x.since = 0 /\ x.file = Index
          /\ x.pc = "transfer" => x.ver >= x.asked
          /\ (x.pc = "fetched" /\ ~Bad(x.res)) \/ (x.pc = "load" /\ ~x.failed) => View >= x.asked

(* An index that has been downloaded is the one that was served.            *)
LEMMA UpdatingRename ==
    ASSUME Files, UpdatingOf(proc["apk"]), Rename("apk")
    PROVE  UpdatingOf(proc["apk"])'
<1> SUFFICES ASSUME NEW x, x = proc["apk"], NEW y, y = proc'["apk"]
             PROVE  UpdatingOf(y)'
  BY Zenon DEF UpdatingOf, View, Exists, Content, Final
<1>1. x \in ProcRec /\ Role("apk", x) /\ "apk" \in Proc /\ x.pc = "transfer" /\ x.got = 2
      /\ UNCHANGED <<served, data>>
  BY Zenon DEF Files, Types, Roles, Proc, Rename
<1>2. PICK r : /\ y = [x EXCEPT !.pc = "fetched", !.fd = 0, !.got = 0, !.ver = 0, !.res = r]
               /\ r = "ok" => x.fd = 0 \/ Tmp(x.file) \in DOMAIN dir
               /\ r # "ok" => r = "error"
  BY <1>1, Zenon DEF Rename, Set, Files, Types
<1>3. /\ y.pc = "fetched" /\ y.asked = x.asked /\ y.verb = x.verb /\ y.file = x.file
      /\ y.since = x.since /\ y.res = r
  BY <1>1, <1>2 DEF ProcRec
<1>4. ASSUME x.verb = "update", ~Bad(r) PROVE View' >= x.asked
  <2>1. x.file = Index /\ x.ver >= x.asked /\ x.fd # 0 /\ x.ver # 0
    BY <1>1, <1>4, Zenon DEF UpdatingOf, Role
  <2>2. r = "ok" /\ Tmp(Index) \in DOMAIN dir
    BY <1>2, <1>4, <2>1, Zenon DEF Bad
  <2>3. dir' = With(Without(Tmp(Index)), Final(Index), dir[Tmp(Index)])
    BY <2>1, <2>2, Zenon DEF Rename
  <2>4. Writes(x)
    BY <1>1, <2>1, Zenon DEF Files, Links
  <2>5. dir[Tmp(Index)] = x.fd /\ data[x.fd].part[1] = x.ver /\ data[x.fd].part[2] = x.ver
    BY <1>1, <2>1, <2>2, <2>4 DEF Writes, Alone
  <2>6. Final(Index) \in DOMAIN dir' /\ dir'[Final(Index)] = x.fd
    BY <2>3, <2>5, Zenon DEF With
  <2>7. View' = x.ver
    BY <1>1, <2>1, <2>5, <2>6, Zenon DEF View, Exists, Content, Whole, Final
  <2>8. QED
    BY <2>1, <2>7, Zenon
<1>5. QED
  BY <1>1, <1>3, <1>4, Zenon DEF UpdatingOf, Busy

(* The other steps of apk.                                                  *)
LEMMA UpdatingApk ==
    ASSUME Files, UpdatingOf(proc["apk"]), [Next]_cvars, ApkStep, ~Rename("apk")
    PROVE  UpdatingOf(proc["apk"])'
<1> SUFFICES ASSUME NEW x, x = proc["apk"], NEW y, y = proc'["apk"]
             PROVE  UpdatingOf(y)'
  BY Zenon DEF UpdatingOf, View, Exists, Content, Final
<1>1. /\ x \in ProcRec /\ Role("apk", x) /\ "apk" \in Proc /\ served \in Nat /\ x.asked \in Nat
      /\ served \in Ver
  BY CacheAssumption DEF Files, Types, Roles, Proc, ProcRec, Ver
<1>2. \A r : Set("apk", r) => y = r
  BY <1>1, Zenon DEF Set, Files, Types
<1>3. UNCHANGED served
  BY Zenon DEF ApkStep, Begin, Fetch, Transfer, Rename, Load, Plan, Precache, Precached, Crash,
         IndexFetched, Install, InstallFetched
<1>4. y.asked <= served /\ y.verb # "update" => UpdatingOf(y)'
  BY <1>3, Zenon DEF UpdatingOf
<1>5. y = Idle => UpdatingOf(y)'
  BY <1>1, <1>4, IdleFd
<1>6. ASSUME NEW verb \in Verbs \ CacheVerbs, NEW pre \in BOOLEAN, Begin(verb, pre)
      PROVE  UpdatingOf(y)'
  <2> DEFINE b == IsIndexStale(verb)
             c == pre /\ verb # "update"
             n == Since(verb)
             s == IF b THEN "fetch" ELSE "load"
  <2>1. y = [Idle EXCEPT !.verb = verb, !.pre = c, !.asked = served, !.since = n, !.refreshed = b,
                         !.pc = s]
    BY <1>2, <1>6, Zenon DEF Begin
  <2>2. verb = "update" => s = "fetch" /\ n = 0
    BY Zenon DEF IsIndexStale, Since
  <2> HIDE DEF b, c, n, s
  <2>3. y.pc = s /\ y.file = Index /\ y.verb = verb /\ y.asked = served /\ y.since = n
    BY <2>1 DEF Idle
  <2>4. QED
    BY <1>1, <1>3, <2>2, <2>3 DEF UpdatingOf, Busy
<1>7. CASE Fetch("apk")
  <2>1. x.pc = "fetch"
    BY <1>7, Zenon DEF Fetch
  <2>2. ASSUME NEW r, y = [x EXCEPT !.pc = "fetched", !.res = r], x.verb = "update" => Bad(r)
        PROVE  UpdatingOf(y)'
    <3>1. /\ y.pc = "fetched" /\ y.asked = x.asked /\ y.verb = x.verb /\ y.file = x.file
          /\ y.since = x.since /\ y.res = r
      BY <1>1, <2>2 DEF ProcRec
    <3>2. QED
      BY <1>3, <2>1, <2>2, <3>1 DEF UpdatingOf, Busy
  <2>3. ASSUME NEW i, y = Teed(x, i)
        PROVE  UpdatingOf(y)'
    <3>1. /\ y.pc = "transfer" /\ y.asked = x.asked /\ y.verb = x.verb /\ y.file = x.file
          /\ y.since = x.since /\ (x.file = Index => y.ver = served)
      BY <1>1, <2>3 DEF ProcRec, Teed
    <3>2. QED
      BY <1>1, <1>3, <2>1, <3>1, Zenon DEF UpdatingOf, Busy
  <2>4. \A r \in Answers(x.file, x.since) : r # "ok" /\ x.verb = "update" => Bad(r)
    <3>1. x.verb = "update" => x.file = Index /\ x.since = 0
      BY Zenon DEF UpdatingOf
    <3>2. QED
      BY <3>1 DEF Answers, Bad
  <2>5. Bad("nofile")
    BY Zenon DEF Bad
  <2>6. QED
    BY <1>2, <1>7, <2>2, <2>3, <2>4, <2>5, Zenon DEF Fetch
<1>8. CASE Transfer("apk")
  <2>1. x.pc = "transfer"
    BY <1>8, Zenon DEF Transfer
  <2>2. CASE y = [x EXCEPT !.got = @ + 1]
    <3>1. /\ y.pc = x.pc /\ y.asked = x.asked /\ y.verb = x.verb /\ y.file = x.file
          /\ y.since = x.since /\ y.ver = x.ver
      BY <1>1, <2>2, Zenon DEF ProcRec
    <3>2. QED
      BY <1>3, <2>1, <3>1, Zenon DEF UpdatingOf, Busy
  <2>3. CASE y = [x EXCEPT !.pc = "fetched", !.res = "error", !.fd = 0, !.got = 0, !.ver = 0]
    <3>1. /\ y.pc = "fetched" /\ y.asked = x.asked /\ y.verb = x.verb /\ y.file = x.file
          /\ y.since = x.since /\ Bad(y.res)
      BY <1>1, <2>3 DEF ProcRec, Bad
    <3>2. QED
      BY <1>3, <2>1, <3>1, Zenon DEF UpdatingOf, Busy
  <2>4. QED
    BY <1>2, <1>8, <2>2, <2>3, Zenon DEF Transfer
<1>9. CASE IndexFetched
  <2>1. x.pc = "fetched" /\ UNCHANGED dir
    BY <1>9, Zenon DEF IndexFetched
  <2>2. y = [Over(x) EXCEPT !.failed = Bad(x.res), !.pc = "load"]
    BY <1>2, <1>9, Zenon DEF IndexFetched
  <2>3. /\ y.pc = "load" /\ y.asked = x.asked /\ y.verb = x.verb /\ y.file = Index
        /\ y.since = 0 /\ y.failed = Bad(x.res)
    BY <1>1, <2>2 DEF ProcRec, Over
  <2>4. View' = View
    <3>1. \A i \in Inode : data'[i].part = data[i].part
      BY <1>9 DEF IndexFetched, Files, Types
    <3>2. Exists(Index) => dir[Final(Index)] \in Inode
      BY Zenon DEF Exists, Files, Types
    <3>3. QED
      BY <2>1, <3>1, <3>2, Zenon DEF View, Exists, Content, Final
  <2>5. QED
    BY <1>3, <2>1, <2>3, <2>4, Zenon DEF UpdatingOf, Busy
<1>10. CASE Load("apk") \/ Crash("apk")
  <2>1. Crash("apk") \/ x.verb = "update" => y = Idle
    BY <1>2, <1>10, Zenon DEF Load, Crash
  <2>2. x.verb # "update" /\ Load("apk") /\ y # Idle => y.asked = 0 /\ y.verb # "update"
    <3> SUFFICES ASSUME x.verb # "update", Load("apk"), y # Idle
                 PROVE  y.asked = 0 /\ y.verb # "update"
      BY Zenon
    <3> DEFINE cleans == x.verb \in {"clean", "purge", "sync"}
               v == View
               k == DOMAIN installed
               c == {q \in Seen(View) : InCache(q)}
               t == IF cleans THEN DOMAIN dir ELSE {}
               s == IF cleans THEN "clean" ELSE "plan"
    <3>1. y = [x EXCEPT !.asked = 0, !.since = 0, !.refreshed = FALSE, !.failed = FALSE,
                        !.view = v, !.known = k, !.cached = c, !.todo = t, !.pc = s]
      BY <1>2, Zenon DEF Load
    <3> HIDE DEF cleans, v, k, c, t, s
    <3>2. QED
      BY <1>1, <3>1, Zenon DEF ProcRec
  <2>3. QED
    BY <1>1, <1>4, <1>5, <1>10, <2>1, <2>2
<1>11. CASE Plan("apk") \/ Precache("apk") \/ Precached("apk") \/ Install \/ InstallFetched
  <2>1. x.verb # "update"
    BY <1>11, Zenon DEF UpdatingOf, Plan, Precache, Precached, Install, InstallFetched, Busy
  <2>2. y = Idle \/ (y.asked = x.asked /\ (y.verb = x.verb \/ y.verb = "none"))
    <3>1. CASE Plan("apk")
      <4>1. PICK S : y = [x EXCEPT !.verb = "none", !.view = 0, !.known = {},
                                   !.plan = IF x.pre THEN S ELSE {}, !.todo = S,
                                   !.pc = IF x.pre THEN "precache" ELSE "install"]
        BY <1>2, <3>1, Zenon DEF Plan
      <4>2. QED
        BY <1>1, <4>1, Zenon DEF ProcRec
    <3>2. CASE Precache("apk")
      <4>1. \/ y = Idle
            \/ \E q, t : y = [x EXCEPT !.file = q, !.since = 0, !.todo = t, !.pc = "fetch"]
            \/ y = [x EXCEPT !.todo = x.plan, !.plan = {}, !.pre = FALSE, !.pc = "install"]
        BY <1>2, <3>2, Zenon DEF Precache
      <4>2. QED
        BY <1>1, <4>1, Zenon DEF ProcRec
    <3>3. CASE Precached("apk")
      <4> DEFINE c == IF x.res = "nofile" THEN Over(x).cached ELSE Over(x).cached \cup {x.file}
                 b == Over(x).bad \/ Bad(x.res)
      <4>1. y = [Over(x) EXCEPT !.cached = c, !.bad = b, !.pc = "precache"]
        BY <1>2, <3>3, Zenon DEF Precached
      <4> HIDE DEF c, b
      <4>2. QED
        BY <1>1, <4>1, Zenon DEF ProcRec, Over
    <3>4. CASE Install
      <4>1. \/ y = Idle
            \/ \E t : y = [x EXCEPT !.todo = t]
            \/ \E q, t : y = [x EXCEPT !.file = q, !.since = 0, !.todo = t, !.pc = "fetch"]
        BY <1>2, <3>4, Zenon DEF Install
      <4>2. QED
        BY <1>1, <4>1, Zenon DEF ProcRec
    <3>5. CASE InstallFetched
      <4>1. PICK c : y = [Over(x) EXCEPT !.pc = "install", !.cached = c]
        BY <1>2, <3>5, Zenon DEF InstallFetched
      <4>2. QED
        BY <1>1, <4>1, Zenon DEF ProcRec, Over
    <3>6. QED
      BY <1>11, <3>1, <3>2, <3>3, <3>4, <3>5, Zenon
  <2>3. QED
    BY <1>4, <1>5, <2>1, <2>2, Zenon DEF UpdatingOf
<1>12. QED
  BY <1>6, <1>7, <1>8, <1>9, <1>10, <1>11, Zenon DEF ApkStep

(* apk update, through every step.                                          *)
LEMMA UpdatingStep ==
    ASSUME Files, Updating, [Next]_cvars
    PROVE  Updating'
<1>1. UpdatingOf(proc["apk"])
  BY Zenon DEF Updating, UpdatingOf
<1>2. CASE proc'["apk"] = proc["apk"]
  <2>1. View' = View
    BY <1>2, ViewStays, Zenon
  <2>2. served \in Nat /\ proc["apk"].asked \in Nat
    BY CacheAssumption DEF Files, Types, ProcRec, Ver, Proc
  <2>3. served' = served \/ served' = served + 1
    BY Zenon DEF Next, Begin, BeginCache, Fetch, Transfer, Rename, Load, Plan, Precache, Precached, Crash,
           IndexFetched, Install, InstallFetched, Clean, Publish, Tick, cvars
  <2>4. proc["apk"].asked <= served'
    BY <1>1, <2>2, <2>3 DEF UpdatingOf
  <2>5. QED
    BY <1>1, <1>2, <2>1, <2>4, Zenon DEF Updating, UpdatingOf
<1>3. CASE ApkStep
  <2>1. UpdatingOf(proc["apk"])'
    BY <1>1, <1>3, UpdatingRename, UpdatingApk, Zenon
  <2>2. QED
    BY <2>1, Zenon DEF Updating, UpdatingOf
<1>4. QED
  BY <1>2, <1>3, ApkSteps, Zenon DEF Files

-----------------------------------------------------------------------------
(* There are two names for each file.                                       *)
LEMMA NamesAreFew ==
    /\ IsFiniteSet(Names) /\ Cardinality(Names) = 2 * Cardinality(File)
    /\ Cardinality(File) \in Nat
<1>1. IsFiniteSet(File)
  BY CacheAssumption, FS_AddElement, Zenon DEF File
<1>2. IsFiniteSet(Suffix) /\ Cardinality(Suffix) = 2
  <2> DEFINE S == {""}
  <2>1. Suffix = S \cup {".tmp"} /\ ".tmp" \notin S
    BY Zenon DEF Suffix
  <2>2. IsFiniteSet(S) /\ Cardinality(S) = 1
    BY FS_Singleton, Zenon
  <2> HIDE DEF S
  <2>3. IsFiniteSet(Suffix) /\ Cardinality(Suffix) = Cardinality(S) + 1
    BY <2>1, <2>2, FS_AddElement, Zenon
  <2>4. QED
    BY <2>2, <2>3
<1>3. IsFiniteSet(Names) /\ Cardinality(Names) = Cardinality(File) * Cardinality(Suffix)
  BY <1>1, <1>2, FS_Product, Zenon DEF Names
<1>4. Cardinality(File) \in Nat
  BY <1>1, FS_CardinalityType, Zenon
<1>5. QED
  BY <1>2, <1>3, <1>4

(* There is an inode that no name and no process uses.                      *)
LEMMA FreeInode ==
    ASSUME Types
    PROVE  Free
<1> SUFFICES ASSUME NEW f \in File, Tmp(f) \notin DOMAIN dir
             PROVE  \E i \in Inode : /\ i \notin {dir[x] : x \in DOMAIN dir}
                                     /\ \A p \in Proc : proc[p].fd # i
  BY Zenon DEF Free
<1> DEFINE R == {dir[x] : x \in DOMAIN dir}
           a == proc["apk"].fd
           c == proc["cache"].fd
           N == Cardinality(File)
<1>1. IsFiniteSet(Names \ {Tmp(f)}) /\ Cardinality(Names \ {Tmp(f)}) = 2 * N - 1
  <2>1. Tmp(f) \in Names
    BY Zenon DEF Names, Suffix, Tmp
  <2>2. QED
    BY <2>1, NamesAreFew, FS_RemoveElement, Zenon
<1>2. IsFiniteSet(DOMAIN dir) /\ Cardinality(DOMAIN dir) <= 2 * N - 1
  <2>1. DOMAIN dir \in SUBSET (Names \ {Tmp(f)})
    BY Zenon DEF Types
  <2>2. QED
    BY <1>1, <2>1, FS_Subset
<1>3. IsFiniteSet(R) /\ Cardinality(R) <= Cardinality(DOMAIN dir)
  <2>1. dir \in Surjection(DOMAIN dir, R)
    BY Zenon DEF Types, Surjection
  <2>2. QED
    BY <1>2, <2>1, FS_Surjection, Zenon
<1> HIDE DEF R, a, c, N
<1>4. IsFiniteSet(R \cup {a}) /\ Cardinality(R \cup {a}) <= 2 * N
  <2>1. Cardinality(R) \in Nat /\ Cardinality(DOMAIN dir) \in Nat /\ N \in Nat
    BY <1>2, <1>3, FS_CardinalityType, NamesAreFew, Zenon DEF N
  <2>2. /\ IsFiniteSet(R \cup {a})
        /\ Cardinality(R \cup {a}) = IF a \in R THEN Cardinality(R) ELSE Cardinality(R) + 1
    BY <1>3, FS_AddElement, Zenon
  <2>3. QED
    BY <1>2, <1>3, <2>1, <2>2
<1>5. IsFiniteSet((R \cup {a}) \cup {c}) /\ Cardinality((R \cup {a}) \cup {c}) <= 2 * N + 1
  <2>1. Cardinality(R \cup {a}) \in Nat /\ N \in Nat
    BY <1>4, FS_CardinalityType, NamesAreFew, Zenon DEF N
  <2>2. /\ IsFiniteSet((R \cup {a}) \cup {c})
        /\ Cardinality((R \cup {a}) \cup {c}) = IF c \in R \cup {a} THEN Cardinality(R \cup {a})
                                                ELSE Cardinality(R \cup {a}) + 1
    BY <1>4, FS_AddElement, Zenon
  <2>3. QED
    BY <1>4, <2>1, <2>2
<1>6. IsFiniteSet(Inode) /\ Cardinality(Inode) = 2 * N + 2
  <2>1. \A m \in Nat : IsFiniteSet(1 .. m) /\ Cardinality(1 .. m) = m
    BY FS_Interval
  <2>2. 2 * N + 2 \in Nat
    BY NamesAreFew DEF N
  <2>3. Inode = 1 .. 2 * N + 2
    BY Zenon DEF Inode, N
  <2>4. QED
    BY <2>1, <2>2, <2>3, Zenon
<1>7. ~(Inode \subseteq (R \cup {a}) \cup {c})
  <2>1. SUFFICES ASSUME Inode \subseteq (R \cup {a}) \cup {c} PROVE FALSE
    BY Zenon
  <2>2. Cardinality(Inode) <= Cardinality((R \cup {a}) \cup {c})
    BY <1>5, <2>1, FS_Subset, Zenon
  <2>3. N \in Nat /\ Cardinality((R \cup {a}) \cup {c}) \in Nat
    BY <1>5, NamesAreFew, FS_CardinalityType, Zenon DEF N
  <2>4. QED
    BY <1>5, <1>6, <2>2, <2>3
<1>8. QED
  BY <1>7, Zenon DEF Proc, R, a, c

(* All of it together is inductive.                                         *)
CacheInv == Types /\ Roles /\ Links /\ Complete /\ Believed /\ Updating

(* The inductive invariant.                                                 *)
LEMMA CacheInvHolds == Spec => []CacheInv
<1>1. Init => CacheInv
  <2> SUFFICES ASSUME Init PROVE CacheInv
    BY Zenon
  <2>1. \A p \in Proc : proc[p] = Idle
    BY Zenon DEF Init
  <2>2. DOMAIN dir = {}
    BY Zenon DEF Init
  <2>3. Types
    <3>1. Blank \in [part : Ver \X Ver, mtime : Nat]
      BY Numbers, Zenon DEF Blank
    <3>2. now \in Nat /\ served \in DOMAIN Offers
      BY CacheAssumption DEF Init
    <3>3. DOMAIN dir \subseteq Names /\ dir \in [DOMAIN dir -> Inode] /\ DOMAIN installed \subseteq Pkgs
      BY Zenon DEF Init
    <3>4. proc \in [Proc -> ProcRec] /\ data \in [Inode -> [part : Ver \X Ver, mtime : Nat]]
      BY <3>1, IdleType, Zenon DEF Init
    <3>5. QED
      BY <3>2, <3>3, <3>4, Zenon DEF Types
  <2>4. Roles
    BY <2>1, IdleRole, Zenon DEF Roles
  <2>5. Links /\ Complete
    BY <2>1, <2>2, IdleFd, Zenon DEF Links, Complete, Exists
  <2>6. Believed
    BY <2>1, IdleFd, Zenon DEF Believed, Committing, Downloads, Busy, Proc
  <2>7. Updating
    BY <2>1, IdleFd, CacheAssumption DEF Updating, Proc, Init
  <2>8. QED
    BY <2>3, <2>4, <2>5, <2>6, <2>7, Zenon DEF CacheInv
<1>2. CacheInv /\ [Next]_cvars => CacheInv'
  <2> SUFFICES ASSUME CacheInv, [Next]_cvars PROVE CacheInv'
    BY Zenon
  <2>1. Files /\ Believed /\ Updating /\ Types /\ Free /\ Roles
    BY FreeInode, Zenon DEF CacheInv, Files
  <2>2. QED
    BY <2>1, TypesStep, RolesStep, LinksStep, BelievedStep, UpdatingStep, Zenon DEF CacheInv
<1>3. QED
  BY <1>1, <1>2, PTL DEF Spec

(* What the cache has is whole, and what apk believes it has is there,      *)
(* through interrupted downloads, kills and apk cache next to apk, for any  *)
(* packages and index versions (apk_cache_download, apk_ostream_to_file,    *)
(* mark_in_cache).                                                          *)
THEOREM CacheStaysIntact == Spec => []CacheIntact
<1>1. CacheInv => CacheIntact
  <2> SUFFICES ASSUME CacheInv PROVE CachedComplete /\ CachedFlagSound
    BY Zenon DEF CacheIntact
  <2>1. CachedComplete
    BY Zenon DEF CacheInv, CachedComplete, Complete, Alone
  <2>2. CachedFlagSound
    <3> SUFFICES ASSUME NEW x, x = proc["apk"], x.pc = "install", meddled = {},
                        NEW q \in x.todo \cap x.cached
                 PROVE  Exists(q) /\ Whole(Content(q).part)
      BY Zenon DEF CachedFlagSound
    <3>1. Role("apk", x) /\ x \in ProcRec
      BY Zenon DEF CacheInv, Roles, Types, Proc
    <3>2. ~x.bad /\ q \in File
      BY <3>1, Zenon DEF Role, ProcRec, File
    <3>3. Exists(q)
      BY <3>2, Zenon DEF CacheInv, Believed, Committing, Passed
    <3>4. QED
      BY <2>1, <3>2, <3>3, Zenon DEF CachedComplete
  <2>3. QED
    BY <2>1, <2>2, Zenon
<1>2. QED
  BY <1>1, CacheInvHolds, PTL

(* When apk update has loaded the index without an error, that index is no  *)
(* older than the one served when the command began (apk_cache_download,    *)
(* is_index_stale), whatever apk cache does meanwhile.                      *)
THEOREM UpdatesAreFresh == Spec => []UpdateIsFresh
<1>1. CacheInv => UpdateIsFresh
  BY Zenon DEF CacheInv, Updating, UpdateIsFresh, Loaded
<1>2. QED
  BY <1>1, CacheInvHolds, PTL
=============================================================================
