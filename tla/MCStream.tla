------------------------------ MODULE MCStream ------------------------------
(* Sources up to a length that fills the buffer more than once.             *)
EXTENDS Stream

Numbered(seps, n) == [i \in 1 .. n |-> IF i \in seps THEN 0 ELSE i]
MCSources == {Numbered(S, n) : S \in {{2}, {3}, {1, 3}}, n \in {3, 5}}
=============================================================================
