------------------------------ MODULE MCCache ------------------------------
(* Two packages; the second index version replaces one by the other.        *)
EXTENDS Cache

CONSTANTS p1, p2

MCSwitch == <<{p1}, {p2}>>
=============================================================================
