----------------------------- MODULE MCDirTree -----------------------------
(***************************************************************************)
(* Three packages over /, /top and /top/sub, each with modes of its own:   *)
(* a1 has /top and /top/sub, its next version a2 only /top, and b1 has     *)
(* /top/sub but no entry for /top.                                         *)
(***************************************************************************)
EXTENDS DirTree

CONSTANTS a1, a2, b1, root, top, sub

MCPkg == {a1, a2, b1}
MCDir == {root, top, sub}
MCNameOf == [p \in MCPkg |-> IF p = b1 THEN "b" ELSE "a"]
MCNameRank == [p \in MCPkg |-> IF p = b1 THEN 2 ELSE 1]
MCOrder == [p \in MCPkg |-> CASE p = a1 -> 1 [] p = a2 -> 2 [] p = b1 -> 3]
MCPriority == [p \in MCPkg |-> 0]
MCOrigin == [p \in MCPkg |-> None]
MCParent == [x \in {top, sub} |-> IF x = sub THEN top ELSE root]
MCAbove == [x \in MCDir |-> CASE x = root -> {root} [] x = top -> {root, top} [] x = sub -> MCDir]
MCDirsOf == [p \in MCPkg |-> CASE p = a1 -> {top, sub} [] p = a2 -> {top} [] p = b1 -> {sub}]
MCAcl == [p \in MCPkg |-> [x \in MCDir |-> CASE p = a1 -> "755" [] p = a2 -> "700" [] p = b1 -> "750"]]
=============================================================================
