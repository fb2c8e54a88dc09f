----------------------------- MODULE MCExtract -----------------------------
(* Archives as the tools build them, whole, with one damaged part, and      *)
(* ending at every point.                                                   *)
EXTENDS Extract

Dot(kind) == [kind |-> kind, dot |-> TRUE, trusted |-> FALSE, datahash |-> 0]
Sign(known) == [Dot("sign") EXCEPT !.trusted = known]
Info(over) == [Dot("pkginfo") EXCEPT !.datahash = over]
Plain(kind) == [Dot(kind) EXCEPT !.dot = FALSE]
Part(ents) == [ents |-> ents, intact |-> TRUE]

V2(members, signed, control, index, genuine) ==
    [fmt |-> 2, members |-> members, signed |-> signed, control |-> control, index |-> index,
     genuine |-> genuine, complete |-> TRUE,
     end |-> <<Len(members), Len(members[Len(members)].ents) + 1>>]

Payload == Part(<<Plain("file"), Plain("file")>>)
Sources2 ==
    {V2(<<Part(<<Sign(k), Sign(TRUE)>>), Part(<<Info(3), Dot("script")>>), Payload>>,
        {2}, 2, FALSE, TRUE) : k \in BOOLEAN}
    \cup {V2(<<Part(<<Info(2), Dot("script")>>), Payload>>, {1}, 1, FALSE, FALSE),
          V2(<<Part(<<Sign(FALSE)>>), Part(<<Info(3)>>), Payload>>, {2}, 2, FALSE, FALSE),
          V2(<<Part(<<Sign(TRUE)>>), Part(<<Info(0)>>), Payload>>, {2, 3}, 2, FALSE, FALSE),
          V2(<<Part(<<Sign(TRUE)>>), Part(<<Plain("desc"), Plain("index")>>)>>, {2}, 2, TRUE, TRUE),
          V2(<<Part(<<Plain("desc"), Plain("index")>>)>>, {1}, 1, TRUE, FALSE)}
Damaged2(a) ==
    {[a EXCEPT !.members[k].intact = FALSE, !.complete = FALSE] : k \in DOMAIN a.members}
Cut2(a) ==
    UNION {{[a EXCEPT !.end = <<k, i>>, !.complete = FALSE] : i \in 0 .. Len(a.members[k].ents) + 1}
           : k \in DOMAIN a.members} \ {[a EXCEPT !.complete = FALSE]}

Block3(type, file, known) == [type |-> type, file |-> file, trusted |-> known, intact |-> TRUE]
V3(blocks, files, genuine) ==
    [fmt |-> 3, blocks |-> blocks, files |-> files, control |-> 1, index |-> FALSE,
     genuine |-> genuine, complete |-> TRUE, end |-> <<Len(blocks), 0>>]
Database == Block3("adb", 0, FALSE)
Sources3 ==
    {V3(<<Database, Block3("sig", 0, FALSE), Block3("sig", 0, TRUE), Block3("data", 2, FALSE),
          Block3("data", 3, FALSE)>>, <<FALSE, TRUE, TRUE, FALSE>>, TRUE),
     V3(<<Database, Block3("sig", 0, TRUE)>>, <<FALSE, FALSE>>, TRUE),
     V3(<<Database, Block3("data", 1, FALSE)>>, <<TRUE, FALSE>>, FALSE),
     V3(<<Database, Block3("data", 1, FALSE), Block3("sig", 0, TRUE)>>, <<TRUE>>, FALSE)}
Damaged3(a) ==
    {[a EXCEPT !.blocks[k].intact = FALSE, !.complete = FALSE] : k \in DOMAIN a.blocks}
    \cup {[a EXCEPT !.blocks = RemoveAt(@, k), !.end[1] = @ - 1, !.complete = FALSE]
          : k \in DOMAIN a.blocks}
Cut3(a) == {[a EXCEPT !.end = <<k, t>>, !.complete = FALSE] : k \in 0 .. Len(a.blocks) - 1, t \in 0 .. 1}

MCArchives ==
    Sources2 \cup UNION {Damaged2(a) \cup Cut2(a) : a \in Sources2}
    \cup Sources3 \cup UNION {Damaged3(a) \cup Cut3(a) : a \in Sources3}
=============================================================================
