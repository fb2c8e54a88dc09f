--------------------------- MODULE MCTransaction ---------------------------
(* Small package databases for Transaction: each brings together features   *)
(* of the solver that interact.                                             *)
EXTENDS Transaction

CONSTANTS na, nb, nc, v, p1, p2, q1, q2, r1, vp

Names == <<na, nb, nc, v>>
On(n) == [n |-> n, op |-> AnyOp, v |-> 0, not |-> FALSE, tag |-> DefaultTag]
Not(n) == [On(n) EXCEPT !.not = TRUE]
Ver(n, op, x) == [On(n) EXCEPT !.op = op, !.v = x]
Pin(n) == [On(n) EXCEPT !.tag = 1]
Provide(n, x) == Ver(n, {"="}, x)

AllPkgs == {p1, p2, q1, q2, r1}
Base ==
    [all |-> <<p1, p2, q1, q2, r1>>, pkgs |-> <<>>,
     name |-> (p1 :> na @@ p2 :> na @@ q1 :> nb @@ q2 :> nb @@ r1 :> nc),
     ver |-> (p1 :> 1 @@ p2 :> 2 @@ q1 :> 1 @@ q2 :> 2 @@ r1 :> 1),
     prio |-> [p \in AllPkgs |-> 0],
     depends |-> [p \in AllPkgs |-> <<>>], provides |-> [p \in AllPkgs |-> <<>>],
     iif |-> [p \in AllPkgs |-> <<>>],
     home |-> [p \in AllPkgs |-> {DefaultTag}], tags |-> [p \in AllPkgs |-> {}],
     avail |-> {}, cached |-> {}, local |-> {}, empty |-> {}, unusable |-> {},
     repoTags |-> {0}, self |-> None, force |-> {FALSE}, offers |-> {AllPkgs}]

(* Versions: nb changes the version of na it needs.                         *)
Versions ==
    {[Base EXCEPT !.depends[q1] = <<Ver(na, {"<"}, 2)>>, !.depends[q2] = <<Ver(na, {"="}, 2)>>,
                  !.depends[r1] = cd, !.offers = {{p1, q1, r1}, AllPkgs},
                  !.force = {cd = <<On(v)>>}] :
        cd \in {<<On(nb)>>, <<On(nb), Not(na)>>, <<On(v)>>}}
(* Two providers of a virtual name.                                         *)
Virtuals ==
    {[Base EXCEPT !.provides[p1] = <<Provide(v, 0)>>, !.provides[q1] = <<Provide(v, y)>>,
                  !.prio[p1] = pr, !.depends[r1] = cd, !.offers = {{p1, q1, r1}}] :
        y \in {0, 1}, pr \in {0, 1}, cd \in {<<On(v)>>, <<On(nb), Not(v)>>}}
(* install_if.                                                              *)
Triggers ==
    {[Base EXCEPT !.iif[r1] = i, !.depends[r1] = cd,
                  !.offers = {{p1, q1, r1}}] :
        i \in {<<On(na), On(nb)>>, <<On(na), Not(nb)>>}, cd \in {<<>>, <<On(nb)>>, <<On(na)>>}}
      \cup {[Base EXCEPT !.iif[r1] = <<On(na), On(nb)>>, !.depends[r1] = <<On(na)>>,
                        !.depends[p1] = <<On(nb)>>, !.offers = {{p1, q1, r1}}]}
(* An install_if package that cannot be installed with its trigger.         *)
Doomed ==
    {[Base EXCEPT !.iif[r1] = <<On(na)>>, !.depends[r1] = <<On(nb)>>, !.depends[q1] = <<Not(na)>>,
                  !.offers = {{p1, q1, r1}}, !.force = BOOLEAN]}
(* A tagged repository; apk itself among the packages; a name that must be  *)
(* absent although a package provides it.                                   *)
Pinned ==
    {[Base EXCEPT !.home[p2] = {1}, !.home[q2] = {1}, !.repoTags = {0, 1},
                  !.depends[q2] = <<On(na)>>,
                  !.offers = {AllPkgs}, !.force = BOOLEAN]}
SelfUpgrades ==
    {[Base EXCEPT !.self = na, !.depends[p2] = ad, !.depends[r1] = <<Ver(na, {"<"}, 2)>>,
                  !.provides[q1] = <<Provide(v, 0)>>, !.offers = {{p1, q1, r1}, AllPkgs}] :
        ad \in {<<>>, <<Ver(nb, {"="}, 2)>>, <<On(v)>>}}
Absences ==
    {[Base EXCEPT !.iif[r1] = <<On(na), Not(v)>>, !.provides[q1] = <<Provide(v, x)>>,
                  !.depends[p1] = ad, !.offers = {{p1, q1, r1}}] :
        x \in {0, 1}, ad \in {<<>>, <<Not(v)>>}}
MCUniverses ==
    Versions \cup Virtuals \cup Triggers \cup Doomed \cup Pinned \cup SelfUpgrades \cup Absences
MCArgs == {On(na), On(nb), On(nc), Ver(na, {"="}, 1), Not(nb), Pin(na)}
=============================================================================
