------------------------------ MODULE Version ------------------------------
(***************************************************************************)
(* Version strings (version.c) and dependency strings (apk_dep_parse,      *)
(* apk_blob_pull_dep and apk_blob_push_dep of package.c).                  *)
(*                                                                         *)
(* A version is the sequence of its lexemes, each with its kind and value: *)
(* "digits" (a sequence of decimal digits), "." , "letter", "_" (with the  *)
(* rank of the suffix, 0 for an unknown word), "~" (with the hash) and     *)
(* "-r".  Numbers wrap at 2^NumberBits, as uint64_t does at 2^64.          *)
(***************************************************************************)
EXTENDS Integers, Sequences, SequencesExt, FiniteSets

CONSTANT NumberBits

Equal == "="
Less == "<"
Greater == ">"
Fuzzy == "~"
Conflict == "!"

\* enum PARTS
TokenNames == <<"INITIAL_DIGIT", "DIGIT", "LETTER", "SUFFIX", "SUFFIX_NO",
                "COMMIT_HASH", "REVISION_NO", "END", "INVALID">>
TokenRank(t) == SelectInSeq(TokenNames, LAMBDA x : x = t)
After(t, u) == TokenRank(t) > TokenRank(u)

\* SUFFIX_NONE: the suffixes of lower rank mark a version before the release.
SuffixNone == 5

Num(s) == FoldLeft(LAMBDA n, d : (n * 10 + d) % 2^NumberBits, 0, s)

(***************************************************************************)
(* The tokenizer.  State: the token, its value, what is left.              *)
(***************************************************************************)

Invalid(t) == [t EXCEPT !.token = "INVALID"]

ParseDigits(t, tok, b) ==
    IF b # <<>> /\ Head(b).k = "digits"
    THEN [token |-> tok, value |-> Head(b).v, rest |-> Tail(b)]
    ELSE [token |-> "INVALID", value |-> <<>>, rest |-> b]

TokenFirst(v) == ParseDigits(<<>>, "INITIAL_DIGIT", v)

AfterNumber(t, b) ==
    CASE t.token \in {"INITIAL_DIGIT", "DIGIT"} -> ParseDigits(t, "DIGIT", b)
      [] t.token = "SUFFIX" -> ParseDigits(t, "SUFFIX_NO", b)
      [] OTHER -> Invalid(t)

TokenNext(t) ==
    IF t.rest = <<>> THEN [t EXCEPT !.token = "END"]
    ELSE LET l == Head(t.rest)
             take(tok) == [token |-> tok, value |-> l.v, rest |-> Tail(t.rest)]
         IN CASE l.k = "letter" ->
                    IF After(t.token, "DIGIT") THEN Invalid(t) ELSE take("LETTER")
              [] l.k = "." ->
                    IF After(t.token, "DIGIT") THEN Invalid(t)
                    ELSE AfterNumber(t, Tail(t.rest))
              [] l.k = "digits" -> AfterNumber(t, t.rest)
              [] l.k = "_" ->
                    IF After(t.token, "SUFFIX_NO") \/ l.v = <<0>> THEN Invalid(t)
                    ELSE take("SUFFIX")
              [] l.k = "~" ->
                    IF ~After("COMMIT_HASH", t.token) \/ l.v = <<>> THEN Invalid(t)
                    ELSE take("COMMIT_HASH")
              [] l.k = "-r" ->
                    IF ~After("REVISION_NO", t.token) THEN Invalid(t)
                    ELSE ParseDigits(t, "REVISION_NO", Tail(t.rest))

Ended(t) == t.token \in {"END", "INVALID"}

RECURSIVE TokensFrom(_)
\* The tokens of a version, from token t to the one that ends the loop.
TokensFrom(t) == IF Ended(t) THEN <<t>> ELSE <<t>> \o TokensFrom(TokenNext(t))

Validate(v) == Last(TokensFrom(TokenFirst(v))).token = "END"

(***************************************************************************)
(* Comparing.                                                              *)
(***************************************************************************)

SortNat(a, b) == IF a < b THEN Less ELSE IF a > b THEN Greater ELSE Equal

\* apk_blob_sort: bytewise, a proper prefix is less.
SortSeq1(a, b) ==
    LET diff == {i \in 1 .. Len(a) : i > Len(b) \/ a[i] # b[i]}
        i == CHOOSE i \in diff : \A j \in diff : i <= j
    IN IF diff = {} THEN SortNat(Len(a), Len(b))
       ELSE IF i > Len(b) THEN Greater ELSE SortNat(a[i], b[i])

\* Faulty: the numeric comparison, leading zeros or not.
AsStringsNever(a, b) == FALSE

\* A leading zero on either side makes a component a string.
AsStrings(a, b) == a.token = "DIGIT" /\ (a.value[1] = 0 \/ b.value[1] = 0)

TokenCmp(a, b) ==
    IF AsStrings(a, b) \/ a.token = "COMMIT_HASH" THEN SortSeq1(a.value, b.value)
    ELSE IF a.token \in {"LETTER", "SUFFIX"} THEN SortNat(a.value[1], b.value[1])
    ELSE SortNat(Num(a.value), Num(b.value))

PreRelease(t) == t.token = "SUFFIX" /\ t.value[1] < SuffixNone

RECURSIVE CompareFrom(_, _, _)
CompareFrom(a, b, fuzzy) ==
    IF a.token = b.token /\ ~Ended(a)
    THEN LET r == TokenCmp(a, b)
         IN IF r # Equal THEN r ELSE CompareFrom(TokenNext(a), TokenNext(b), fuzzy)
    ELSE IF a.token = b.token \/ (b.token = "END" /\ fuzzy) THEN Equal
    ELSE IF PreRelease(a) THEN Less
    ELSE IF PreRelease(b) THEN Greater
    ELSE IF After(a.token, b.token) THEN Less
    ELSE Greater

\* apk_version_compare_fuzzy of two versions, neither of them absent.
CompareFuzzy(a, b, fuzzy) == CompareFrom(TokenFirst(a), TokenFirst(b), fuzzy)

NoVersion == <<>>
AnyOp == {Equal, Less, Greater}
ChecksumOp == {Less, Greater}

\* The result as a set of the bits it has.
CompareBits(a, b, fuzzy) ==
    IF a = NoVersion /\ b = NoVersion THEN {Equal}
    ELSE IF a = NoVersion \/ b = NoVersion THEN AnyOp
    ELSE {CompareFuzzy(a, b, fuzzy)}

Match(a, op, b) ==
    LET ok == AnyOp \subseteq op \/ CompareBits(a, b, Fuzzy \in op) \cap op # {}
    IN IF Conflict \in op THEN ~ok ELSE ok

(***************************************************************************)
(* Dependencies as text: an optional "!", a name with an optional tag, the *)
(* characters of the operator and a version.                               *)
(***************************************************************************)

NoTag == "default"
BadDep == [name |-> <<>>, op |-> AnyOp, version |-> NoVersion, tag |-> NoTag, broken |-> TRUE]

\* apk_version_result_mask_blob
ResultMask(op) ==
    UNION {IF op[i] = "~" THEN {Fuzzy, Equal} ELSE {op[i]} : i \in 1 .. Len(op)}

\* apk_dep_parse and apk_blob_pull_dep
PullDep(s, allowTag) ==
    LET op == (IF s.not THEN {Conflict} ELSE {})
                  \cup (IF s.op = <<>> THEN AnyOp ELSE ResultMask(s.op))
    IN IF s.tag # NoTag /\ ~allowTag THEN BadDep
       ELSE [name |-> s.name, op |-> op, version |-> s.version, tag |-> s.tag,
             broken |-> ~(ChecksumOp \subseteq op) /\ ~Validate(s.version)]

\* apk_version_op_string; what it has no text for becomes part of the name.
OpString(op) ==
    LET o == op \ {Conflict}
    IN CASE o = {Less} -> <<"<">>
         [] o = {Less, Equal} -> <<"<", "=">>
         [] o = {Less, Equal, Fuzzy} -> <<"<", "~">>
         [] o \in {{Equal, Fuzzy}, {Fuzzy}} -> <<"~">>
         [] o = {Equal} -> <<"=">>
         [] o = {Greater, Equal} -> <<">", "=">>
         [] o = {Greater, Equal, Fuzzy} -> <<">", "~">>
         [] o = {Greater} -> <<">">>
         [] o = ChecksumOp -> <<">", "<">>
         [] OTHER -> <<>>

PushDep(d) ==
    LET op == IF d.version = NoVersion THEN <<>> ELSE OpString(d.op)
        glued == d.version # NoVersion /\ op = <<>>
    IN [not |-> Conflict \in d.op,
        name |-> IF glued THEN d.name \o d.version ELSE d.name,
        tag |-> d.tag, op |-> op,
        version |-> IF glued THEN NoVersion ELSE d.version]

(***************************************************************************)
(* References and properties.                                              *)
(***************************************************************************)

\* The order in which a version continues: before the release, at an end,
\* with a revision, a commit, a number for a suffix, a suffix, a letter, a
\* component.
KeyRank(t) == IF PreRelease(t) THEN 0 ELSE 10 - TokenRank(t.token)

KeyValue(t) ==
    CASE Ended(t) -> <<0>>
      [] t.token \in {"LETTER", "SUFFIX"} -> t.value
      [] t.token = "COMMIT_HASH" -> t.value
      [] t.token = "DIGIT" /\ t.value[1] = 0 -> <<0>> \o t.value
      [] OTHER -> <<1, Num(t.value)>>

\* A version's sort key: one <<rank, value>> per token.
Key(v) ==
    LET t == TokensFrom(TokenFirst(v))
    IN [i \in 1 .. Len(t) |-> <<KeyRank(t[i]), KeyValue(t[i])>>]

KeyOrder(k, l) ==
    LET diff == {i \in 1 .. Len(k) : i > Len(l) \/ k[i] # l[i]}
        i == CHOOSE i \in diff : \A j \in diff : i <= j
    IN IF diff = {} THEN Equal
       ELSE IF k[i][1] # l[i][1] THEN SortNat(k[i][1], l[i][1])
       ELSE SortSeq1(k[i][2], l[i][2])

\* Comparing two versions token by token, with its leading-zero rule and its
\* rules for the longer version, is comparing their sort keys: versions are
\* totally ordered, which sorting providers by version relies on.  A fuzzy
\* comparison finds them equal exactly when the key of the second, without
\* its end, starts the key of the first.
VersionsOrdered(a, b) ==
    LET k == Key(a)
        l == Key(b)
    IN /\ CompareFuzzy(a, b, FALSE) = KeyOrder(k, l)
       /\ Validate(b) => (CompareFuzzy(a, b, TRUE) = Equal <=> IsPrefix(Front(l), k))

\* The operators the manual lists.
Operators == {<<"<">>, <<"<", "=">>, <<"<", "~">>, <<"=">>, <<"~">>, <<"~", "=">>,
              <<"=", "~">>, <<">", "=">>, <<">", "~">>, <<">">>, <<">", "<">>}

\* A dependency that is read and written back (world, the installed database
\* and indexes are rewritten on every commit) reads the same again.
DepSurvives(s) ==
    LET d == PullDep(s, TRUE)
    IN (s.op = <<>> <=> s.version = NoVersion) => PullDep(PushDep(d), TRUE) = d
============================================================================
