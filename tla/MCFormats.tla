----------------------------- MODULE MCFormats -----------------------------
(***************************************************************************)
(* Instances of the components that read, write and compare what is stored *)
(* in files: streams, archives, version and dependency strings, adb,       *)
(* indexes, and the audit.  A behaviour is about one of them; the others   *)
(* are idle.                                                               *)
(***************************************************************************)
EXTENDS MCExtract, MCStream, Index, Audit

CONSTANT Parts

VARIABLES
    part,  \* the component this behaviour is about
    text   \* two versions, when it is about versions

(* Version strings: a number and up to two pieces, valid or not.            *)
Lexeme(kind, value) == [k |-> kind, v |-> value]
Number(digits) == <<Lexeme(".", <<>>), Lexeme("digits", digits)>>
Pieces ==
    {<<>>, Number(<<0>>), Number(<<1>>), Number(<<1, 0>>), Number(<<0, 1>>),
     <<Lexeme("letter", <<1>>)>>, <<Lexeme("_", <<1>>)>>, <<Lexeme("_", <<6>>)>>,
     <<Lexeme("_", <<6>>), Lexeme("digits", <<1>>)>>, <<Lexeme("~", <<10, 11>>)>>,
     <<Lexeme("-r", <<>>), Lexeme("digits", <<0>>)>>,
     <<Lexeme("-r", <<>>), Lexeme("digits", <<1>>)>>}
Versions == {<<Lexeme("digits", <<1>>)>> \o x \o y : x, y \in Pieces}
NoText == [a |-> NoVersion, b |-> NoVersion]

(* Databases: integers and blobs of every width, objects with holes, arrays *)
(* whose elements repeat.                                                   *)
Dep(name) == TObj(<<TBlob(name)>>)
Twin == TObj(<<TBlob(<<2>>), TBlob(<<1, 2, 3>>)>>)
Sized == TObj(<<TBlob(<<1, 2, 3>>), TInt(3213)>>)
MCTrees ==
    {TBlob(<<1, 2, 3>>), TInt(3213),
     TArr("unique", <<Twin, TObj(<<TBlob(<<4>>), TInt(3213)>>), Twin>>),
     TArr("unique", <<Sized, Sized>>),
     TArr("unique", <<Dep(<<1, 2, 3>>), Dep(<<1>>), Dep(<<1, 2, 3>>)>>),
     TArr("unique", <<Dep(<<2>>), TObj(<<TNull, TInt(70000)>>), Dep(<<1, 2, 3, 4>>), Dep(<<1>>)>>),
     TObj(<<TBlob(<<1>>), TNull, TInt(70000), TBlob(<<1, 2, 3, 4>>), TBlob(<<1, 2, 3, 4, 5, 6>>), TNull>>)}

(* Package files: two versions of one name, and a name that it starts.      *)
File1 == [file |-> <<1, 9>>, split |-> 1]
File2 == [file |-> <<1, 8>>, split |-> 1]
File3 == [file |-> <<1, 2, 9>>, split |-> 2]
MCFiles == {File1, File2, File3}
MCArgLists == {<<File1, File2, File3>>, <<File2>>, <<File3, File1>>}
MCContents == {[id |-> n, size |-> 5] : n \in 1 .. 2}

(* A tree with a protected configuration directory, a directory that only   *)
(* a rule for something in it makes interesting, although it is ignored.    *)
Etc    == <<"etc">>
EtcNew == <<"etc", "new">>
Usr    == <<"usr">>
Lib    == <<"usr", "lib">>
Conf   == <<"etc", "conf">>
Key1   == <<"usr", "lib", "key">>
Bin    == <<"usr", "bin">>
MCDirPaths  == {Etc, EtcNew, Usr, Lib}
MCFilePaths == {Conf, <<"etc", "new", "conf">>, Key1, Bin, <<"etc", "conf.apk-new">>}
MCPkgDirs   == {Etc, Usr, Lib}
MCPkgFiles  == {Conf, Bin}
MCPkgOf     == [f \in MCPkgFiles |-> IF f = Conf THEN "conf" ELSE "bin"]
Rule(mark, path) == [mark |-> mark, pattern |-> path]
MCRuleLines ==
    <<Rule("+", Etc), Rule("!", <<"usr", "*", "key">>), Rule("#", Usr), Rule("@", EtcNew),
      Rule("-", Lib)>>

AuditOpt(mode, set) ==
    [mode |-> mode, recursive |-> "r" \in set, perms |-> "p" \in set, details |-> "d" \in set,
     packages |-> "k" \in set, nobusybox |-> "b" \in set]
MCAuditOpts ==
    {AuditOpt("backup", {"r", "d", "b"}), AuditOpt("system", {"p"}),
     AuditOpt("system", {"k"}), AuditOpt("full", {"d"}), AuditOpt("full", {"r", "b"})}
MCAuditArgs == {<<>>, <<Usr>>}

(* The idle values of the components with several variables.                *)
ExtractIdle ==
    /\ arch = CHOOSE a \in Sources3 : TRUE
    /\ action = "verify" /\ user = "verify" /\ untrustedOk = FALSE
    /\ pc = "idle" /\ m = 1 /\ e = 1 /\ s = BlockCtx /\ out = <<>> /\ res = "none"
StreamIdle ==
    /\ orig = <<>> /\ fault = FALSE /\ src = <<>> /\ buf = <<>>
    /\ is = Closed /\ seg = Closed /\ op = NoOp /\ calls = MaxCalls
    /\ ret = [on |-> "is", kind |-> "none", n |-> 0, r |-> 0, data |-> <<>>]

fvars == <<part, text, store, maker, audit, evars, svars>>

Init ==
    /\ part \in Parts
    /\ IF part = "extract" THEN ExtractInit ELSE ExtractIdle
    /\ IF part = "stream" THEN StreamInit ELSE StreamIdle
    /\ text \in IF part = "version" THEN [a : Versions \cup {NoVersion}, b : {NoVersion}] ELSE {NoText}
    /\ store = EmptyStore /\ maker = IdleMaker /\ audit = Unaudited

Compare == \E v \in Versions : text.a # NoVersion /\ text.b = NoVersion /\ text' = [text EXCEPT !.b = v]

Next ==
    \/ part = "extract" /\ ExtractNext /\ UNCHANGED <<part, text, store, maker, audit, svars>>
    \/ part = "stream" /\ StreamNext /\ UNCHANGED <<part, text, store, maker, audit, evars>>
    \/ part = "version" /\ Compare /\ UNCHANGED <<part, store, maker, audit, evars, svars>>
    \/ part = "adb" /\ AdbNext /\ UNCHANGED <<part, text, maker, audit, evars, svars>>
    \/ part = "index" /\ IndexNext /\ UNCHANGED <<part, text, store, audit, evars, svars>>
    \/ part = "audit" /\ AuditNext /\ UNCHANGED <<part, text, store, maker, evars, svars>>

Spec == Init /\ [][Next]_fvars

(* Comparing versions orders them, whichever two are compared (version.c),  *)
(* and a dependency on one of them is the same after it has been written to *)
(* world or to the installed database and read again (package.c).           *)
VersionsSound ==
    part = "version" =>
        /\ text.b # NoVersion => VersionsOrdered(text.a, text.b)
        /\ text.b = NoVersion => \A op1 \in Operators \cup {<<>>}, not \in BOOLEAN, tag \in {NoTag, "edge"} :
               DepSurvives([not |-> not, name |-> <<1>>, tag |-> tag, op |-> op1, version |-> text.a])
=============================================================================
