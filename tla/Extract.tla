------------------------------ MODULE Extract ------------------------------
(***************************************************************************)
(* Reading a package or an index from a stream: the version 2 format, gzip *)
(* members with a tar archive each, verified member by member while its    *)
(* files are already being handed out (extract_v2.c, io_gunzip.c, tar.c);  *)
(* and the version 3 format, a sequence of blocks (extract_v3.c, adb.c).   *)
(*                                                                         *)
(* Content is abstract: a member or block is intact or not, a digest or    *)
(* signature covers a set of them, and verification compares what was      *)
(* digested with what the packager digested.  Streams may be damaged and   *)
(* may end anywhere.                                                       *)
(***************************************************************************)
EXTENDS Integers, Sequences, FiniteSets, SequencesExt

CONSTANTS
    Archives,   \* the streams to read
    Actions,    \* subset of {"verify", "identity", "generate"}
    Users       \* subset of {"install", "meta", "verify", "index"}: whose ops

(* An archive of format 2: members, each a sequence of entries, and where   *)
(* the stream ends, <<m, e>>: after e entries of member m, with e one more  *)
(* than its entries when the member is whole.  Format 3: blocks, and end,   *)
(* the number of blocks that arrive; torn when one more arrives in part.    *)

VARIABLES
    arch, action, user, untrustedOk,
    pc,         \* "read", "done"
    m, e,       \* position: member and entry, or block
    s,          \* apk_sign_ctx, or the locals of __adb_m_stream
    out,        \* what the callbacks were given, in order
    res         \* what apk_extract returns
evars == <<arch, action, user, untrustedOk, pc, m, e, s, out, res>>
input == <<arch, action, user, untrustedOk>>

OK == "ok"
Members == arch.members
Whole(k) == k < arch.end[1] \/ (k = arch.end[1] /\ arch.end[2] > Len(Members[k].ents))
LastPart(k) == k = arch.end[1]
Intact(span) == \A x \in span : Members[x[1]].intact
Halves(k) == {k} \X {"head", "rest"}

-----------------------------------------------------------------------------
(* Format 2 *)
(* apk_sign_ctx_init; span and idspan are what digest_ctx and identity_ctx  *)
(* have been fed since their last reset.                                    *)
SignCtx ==
    [sig |-> "none", control |-> FALSE, data |-> FALSE, sum |-> FALSE, cver |-> FALSE,
     dver |-> FALSE, ended |-> FALSE, verr |-> "untrusted", span |-> {}, idspan |-> {},
     over |-> 0, fed |-> FALSE, id |-> {}, package |-> FALSE, index |-> FALSE]

(* check_signing_key_trust *)
KeyTrust(x) ==
    IF action # "identity" /\ x.sig = "none" /\ ~untrustedOk THEN "untrusted" ELSE OK

(* The boundary after the signatures: digests restart for the control       *)
(* member.                                                                  *)
SignatureEnd(x) == [x EXCEPT !.span = {}, !.idspan = {}]

(* Faulty: what follows a verified control member is taken as verified.     *)
DataEndUnchecked(x) == [s |-> [x EXCEPT !.dver = TRUE], r |-> OK]

(* The end of a data member for which .PKGINFO has a datahash.              *)
DataEnd(x) ==
    IF ~(x.span = Halves(x.over) /\ Intact(x.span)) THEN [s |-> x, r |-> "integrity"]
    ELSE [s |-> [x EXCEPT !.dver = TRUE],
          r |-> IF ~untrustedOk /\ ~x.cver THEN "untrusted" ELSE OK]

(* apk_verify, on the signature that was loaded                             *)
VerifySignature(x) ==
    IF x.sig = "none" THEN x.verr
    ELSE IF Intact(x.span) /\ x.span = UNION {Halves(k) : k \in arch.signed} THEN OK ELSE "bad"

(* The end of the part that a signature or the identity covers.             *)
ControlEnd(x, part) ==
    LET v == VerifySignature(x)
        done(verr) == [x EXCEPT !.verr = verr, !.cver = TRUE, !.span = {}, !.idspan = {},
                                !.id = IF action = "generate" THEN x.idspan ELSE {},
                                !.dver = x.dver \/ (~x.sum /\ part = "end")]
    IN  IF KeyTrust(x) # OK THEN [s |-> x, r |-> KeyTrust(x)]
        ELSE IF action = "identity"
        THEN IF Intact(x.span) /\ x.span = Halves(arch.control)
             THEN [s |-> done(OK), r |-> OK] ELSE [s |-> x, r |-> "integrity"]
        ELSE IF action = "generate" /\ ~x.sum THEN [s |-> x, r |-> "format"]
        ELSE IF v # OK /\ ~(v = "untrusted" /\ untrustedOk)
        THEN [s |-> [x EXCEPT !.verr = v], r |-> v]
        ELSE [s |-> done(v), r |-> OK]

(* apk_sign_ctx_mpart_cb with APK_MPART_DATA                                *)
Digest(x, parts) ==
    [x EXCEPT !.span = @ \cup parts,
              !.idspan = IF x.control /\ ~x.data /\ action = "generate"
                         THEN @ \cup parts ELSE @]

(* apk_sign_ctx_mpart_cb with APK_MPART_BOUNDARY or APK_MPART_END           *)
Mpart(x, part) ==
    LET y == [x EXCEPT !.ended = @ \/ part = "end", !.fed = FALSE]
        z == [y EXCEPT !.data = TRUE]
    IN  CASE x.ended \/ x.dver -> [s |-> x, r |-> "format"]
          [] part = "boundary" /\ x.data -> [s |-> x, r |-> "format"]
          [] ~x.control -> IF part = "end" THEN [s |-> y, r |-> "format"]
                           ELSE [s |-> SignatureEnd(y), r |-> OK]
          [] x.control /\ ~x.sum /\ ~x.data /\ part = "boundary" -> [s |-> z, r |-> OK]
          [] x.control /\ x.sum /\ x.data -> DataEnd(z)
          [] OTHER -> ControlEnd(z, part)

(* The key that a signature names is among those loaded from the keys       *)
(* directory (apk_trust_key_by_name).                                       *)
KeyByName(f) == f.trusted

(* apk_sign_ctx_process_file: r is OK when the file is for the user of the  *)
(* archive, "skip" when it is not.                                          *)
ProcessFile(x, f) ==
    LET started == [x EXCEPT !.data = TRUE, !.control = TRUE]
    IN  CASE x.data -> [s |-> x, r |-> OK]
          [] ~x.data /\ ~f.dot ->
                IF x.sum \/ action = "identity" THEN [s |-> x, r |-> "format"]
                ELSE [s |-> started, r |-> KeyTrust(x)]
          [] ~x.data /\ f.dot /\ (x.control \/ f.kind # "sign") ->
                [s |-> [x EXCEPT !.control = TRUE], r |-> OK]
          [] OTHER ->
                [s |-> IF x.sig # "none" \/ action = "identity" \/ ~KeyByName(f) THEN x
                       ELSE [x EXCEPT !.sig = "loaded"],
                 r |-> "skip"]

(* apk_extract_v2_control, from the .PKGINFO that v2meta reads              *)
Control(x, f) ==
    IF f.kind = "pkginfo" /\ f.datahash # 0 /\ ~x.data
    THEN [x EXCEPT !.sum = TRUE, !.over = f.datahash] ELSE x

HasMeta == user \in {"install", "meta", "verify"}
HasFile == user \in {"install", "verify"}
HasIndex == user \in {"index", "verify"}

(* apk_extract_v2_entry: the callback that gets the file, if any, and r     *)
Entry(x, f) ==
    LET none(r) == [s |-> x, to |-> "none", r |-> r]
        pkg == [x EXCEPT !.package = TRUE]
        ndx == [x EXCEPT !.index = TRUE]
    IN  IF x.data /\ x.sum
        THEN IF ~HasFile THEN none("canceled")
             ELSE IF f.dot THEN none(OK) ELSE [s |-> x, to |-> "file", r |-> OK]
        ELSE IF f.dot
        THEN IF x.index \/ ~HasMeta THEN [s |-> pkg, to |-> "none", r |-> "format"]
             ELSE IF f.kind = "pkginfo" THEN [s |-> Control(pkg, f), to |-> "meta", r |-> OK]
             ELSE [s |-> pkg, to |-> IF f.kind = "script" /\ user = "install"
                                     THEN "script" ELSE "none", r |-> OK]
        ELSE IF x.package \/ ~HasIndex THEN [s |-> ndx, to |-> "none", r |-> "format"]
        ELSE [s |-> ndx, to |-> IF f.kind = "index" THEN "index" ELSE "none", r |-> OK]

(* The end of apk_extract_v2                                                *)
Result(x, r) ==
    LET r1 == IF r \in {OK, "canceled", "eof"} /\ ~x.package /\ ~x.index THEN "format" ELSE r
        r2 == IF r1 = OK /\ (~x.dver \/ ~x.ended) THEN "integrity" ELSE r1
        r3 == IF r2 \in {OK, "canceled"} /\ x.verr # OK THEN x.verr ELSE r2
    IN  IF r3 = "untrusted" /\ untrustedOk THEN OK ELSE r3

Stop(x, r) == pc' = "done" /\ s' = x /\ res' = Result(x, r) /\ UNCHANGED <<m, e>>

(* gzi_read has used up its input in the first part of a member, before a   *)
(* tar header could be decoded.  Identities are generated from local files  *)
(* only, whose first read holds the start of the control member.            *)
ShortRead ==
    /\ arch.fmt = 2 /\ pc = "read" /\ e = 1 /\ ~s.fed /\ action # "generate"
    /\ s' = [Digest(s, {<<m, "head">>}) EXCEPT !.fed = TRUE]
    /\ UNCHANGED <<input, pc, m, e, out, res>>

(* apk_tar_parse reads a header and its parser takes the entry.             *)
TarEntry ==
    LET f == Members[m].ents[e]
        p == ProcessFile(s, f)
        g == Entry(p.s, f)
    IN  /\ arch.fmt = 2 /\ pc = "read" /\ e <= Len(Members[m].ents)
        /\ (LastPart(m) => e <= arch.end[2])
        /\ IF p.r # OK
           THEN /\ out' = out
                /\ IF p.r = "skip" THEN /\ s' = p.s /\ e' = e + 1 /\ UNCHANGED <<pc, m, res>>
                   ELSE Stop(p.s, p.r)
           ELSE /\ out' = IF g.to = "none" THEN out
                          ELSE Append(out, [to |-> g.to, at |-> <<m, e>>, ok |-> Members[m].intact,
                                            after |-> g.s.cver])
                /\ IF g.r = OK THEN /\ s' = g.s /\ e' = e + 1 /\ UNCHANGED <<pc, m, res>>
                   ELSE Stop(g.s, g.r)
        /\ UNCHANGED input

(* gzi_boundary_change: the rest of the member is digested and the callback *)
(* is told, at the next read or at the end of the input.                    *)
MemberEnd ==
    LET fed == Digest(s, IF s.fed THEN {<<m, "rest">>} ELSE Halves(m))
        c == Mpart(fed, IF LastPart(m) THEN "end" ELSE "boundary")
    IN  /\ arch.fmt = 2 /\ pc = "read" /\ Whole(m) /\ e > Len(Members[m].ents)
        /\ IF c.r = OK /\ ~LastPart(m)
           THEN s' = c.s /\ m' = m + 1 /\ e' = 1 /\ UNCHANGED <<pc, res>>
           ELSE Stop(c.s, c.r)
        /\ UNCHANGED <<input, out>>

(* The stream ends inside a member: apk_tar_parse sees the end of the       *)
(* archive, or of a record, or the file it hands out ends early; or inflate *)
(* finds damaged data.                                                      *)
Torn ==
    /\ arch.fmt = 2 /\ pc = "read"
    /\ \/ /\ LastPart(m) /\ ~Whole(m) /\ e > arch.end[2]
          /\ \E r \in {OK, "eof", "aborted"} : Stop(s, r)
       \/ ~Members[m].intact /\ Stop(s, "format")
    /\ UNCHANGED <<input, out>>

-----------------------------------------------------------------------------
(* Format 3.  arch.files: for each file of the package whether it has data. *)
Blocks == arch.blocks
BlockCtx == [trusted |-> untrustedOk, allowed |-> {"adb"}, adb |-> FALSE, file |-> 0]

(* apk_extract_v3_next_file: reports the files without data up to the next  *)
(* one that has data, or to the end.                                        *)
NextFile(k) ==
    LET rest == {i \in k + 1 .. Len(arch.files) : arch.files[i]}
        next == IF rest = {} THEN Len(arch.files) + 1
                ELSE CHOOSE i \in rest : \A j \in rest : i <= j
    IN  [next |-> next, seen |-> (k + 1) .. (next - 1)]

Given(k, trusted) ==
    (IF k = 0 THEN <<[to |-> "meta", at |-> <<0, 0>>, ok |-> Blocks[1].intact,
                      after |-> trusted]>> ELSE <<>>)
    \o [i \in 1 .. Cardinality(NextFile(k).seen) |->
          [to |-> "file", at |-> <<k + i, 0>>, ok |-> Blocks[1].intact, after |-> trusted]]

(* The end of __adb_m_stream and of apk_extract_v3.  A reader of indexes    *)
(* has no v3meta, which a package without data blocks calls all the same.   *)
Stop3(x, r, o) ==
    LET r1 == IF r \in {OK, "canceled"} THEN IF ~x.trusted THEN "untrusted"
                                             ELSE IF ~x.adb THEN "block" ELSE r ELSE r
        last == NextFile(x.file)
        o2 == IF r1 = OK THEN o \o (IF HasFile THEN Given(x.file, x.trusted)
                                    ELSE SubSeq(Given(x.file, x.trusted), 1, 1)) ELSE o
    IN  /\ pc' = "done" /\ s' = x /\ UNCHANGED <<m, e>>
        /\ IF ~HasMeta THEN res' = (IF r1 = OK THEN "undefined" ELSE r1) /\ out' = o
           ELSE /\ out' = o2
                /\ res' = IF r1 = "canceled" THEN OK ELSE IF r1 # OK THEN r1
                          ELSE IF HasFile /\ last.next <= Len(arch.files) THEN "block" ELSE OK

(* The digest of the database block (adb_digest_adb) and of a file as it is *)
(* read (apk_istream_verify) tell whether they are what was packaged.       *)
AdbDigestMatches(b) == b.intact
FileDigestMatches(b) == b.intact

(* __adb_handle_identity and adb_trust_verify_signature                     *)
AdbBlock(b) ==
    LET x == [s EXCEPT !.allowed = {"sig", "data"}, !.adb = TRUE,
                       !.trusted = @ \/ (action = "identity" /\ AdbDigestMatches(b))]
    IN  IF action = "identity" /\ ~AdbDigestMatches(b) THEN Stop3(s, "integrity", out)
        ELSE /\ s' = x /\ e' = e + 1 /\ UNCHANGED <<pc, m, res, out>>

SigBlock(b) ==
    /\ s' = [s EXCEPT !.trusted = @ \/ (b.trusted /\ b.intact /\ AdbDigestMatches(Blocks[1]))]
    /\ e' = e + 1 /\ UNCHANGED <<pc, m, res, out>>

(* apk_extract_v3_data_block, and the digest of the file at its close       *)
DataBlock(b) ==
    LET n == NextFile(s.file)
        given == Given(s.file, s.trusted)
        x == [s EXCEPT !.allowed = {"data"}, !.file = n.next]
        mine == Append(out \o given, [to |-> "file", at |-> <<n.next, 1>>, ok |-> b.intact,
                                      after |-> s.trusted])
    IN  CASE ~s.trusted -> Stop3(s, "untrusted", out)
          [] s.trusted /\ ~HasMeta -> Stop3(s, "format", out)
          [] s.trusted /\ HasMeta /\ ~HasFile -> Stop3(x, "canceled", SubSeq(given, 1, 1))
          [] s.trusted /\ HasFile /\ b.file # n.next -> Stop3(x, "block", out \o given)
          [] s.trusted /\ HasFile /\ b.file = n.next /\ ~FileDigestMatches(b) -> Stop3(x, "integrity", mine)
          [] OTHER -> s' = x /\ out' = mine /\ e' = e + 1 /\ UNCHANGED <<pc, m, res>>

Block ==
    /\ arch.fmt = 3 /\ pc = "read" /\ e <= arch.end[1]
    /\ LET b == Blocks[e]
       IN  \/ b.type \notin s.allowed /\ Stop3(s, "block", out)
           \/ b.type = "adb" /\ b.type \in s.allowed /\ AdbBlock(b)
           \/ b.type = "sig" /\ b.type \in s.allowed /\ SigBlock(b)
           \/ b.type = "data" /\ b.type \in s.allowed /\ DataBlock(b)
    /\ UNCHANGED input

(* The stream ends between two blocks, or inside one.                       *)
BlocksEnd ==
    /\ arch.fmt = 3 /\ pc = "read" /\ e > arch.end[1]
    /\ Stop3(s, IF arch.end[2] = 0 THEN OK ELSE "eof", out)
    /\ UNCHANGED input

-----------------------------------------------------------------------------
ExtractInit ==
    /\ arch \in Archives /\ action \in Actions /\ user \in Users
    /\ untrustedOk \in BOOLEAN /\ pc = "read" /\ m = 1 /\ e = 1 /\ out = <<>> /\ res = "none"
    /\ s = IF arch.fmt = 2 THEN SignCtx ELSE BlockCtx

ExtractNext == ShortRead \/ TarEntry \/ MemberEnd \/ Torn \/ Block \/ BlocksEnd

-----------------------------------------------------------------------------
(* What a whole archive gives to the file callback.                         *)
AllFiles ==
    IF arch.fmt = 3 THEN {<<i, IF arch.files[i] THEN 1 ELSE 0>> : i \in DOMAIN arch.files}
    ELSE {<<k, i>> \in (DOMAIN Members) \X (1 .. 4) :
             i <= Len(Members[k].ents) /\ Members[k].ents[i].kind = "file"}
Got(to) == {x \in Range(out) : x.to = to}

(* When apk_extract succeeds, everything that was handed out is what the    *)
(* packager wrote, and no file is missing: a stream that ends early or is   *)
(* damaged anywhere is noticed, if not before then at its end.  (A package  *)
(* of format 2 has files only when its .PKGINFO has a datahash.)            *)
SuccessIsWhole ==
    res = OK /\ ~(untrustedOk /\ action # "identity") =>
        /\ \A x \in Range(out) : x.ok
        /\ HasFile /\ (arch.fmt = 3 \/ s.sum) => {x.at : x \in Got("file")} = AllFiles

(* No file of a package is handed out before the signature or the identity  *)
(* of its control part, or of its database block, has been verified.        *)
FilesAfterTrust == \A x \in Got("file") : x.after

(* An intact package that is signed with a known key, or whose identity is  *)
(* known, is accepted (apk_extract_v2 and apk_extract_v3).                  *)
Sound == arch.complete /\ arch.genuine
IntactAccepted ==
    pc = "done" /\ Sound /\ (user = "index") = arch.index
        /\ (arch.index => action = "verify") =>
        res \in {OK, "canceled"}

(* The identity that is generated for a package is the digest of its        *)
(* control member and of nothing else (apk_sign_ctx_mpart_cb).              *)
IdentityExact ==
    pc = "done" /\ res \in {OK, "canceled"} /\ action = "generate" /\ arch.fmt = 2 =>
        s.id = Halves(arch.control)

(* Extraction as a whole: nothing damaged, early or untrusted gets through, *)
(* nothing sound is refused, and identities are what they claim to be.      *)
ExtractSound == SuccessIsWhole /\ FilesAfterTrust /\ IntactAccepted /\ IdentityExact
=============================================================================
