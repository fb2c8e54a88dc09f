------------------------------- MODULE DbLog -------------------------------
(***************************************************************************)
(* What the files under lib/apk/db and etc/apk promise to whoever reads    *)
(* them: each file always shows the effect of a sequence of whole          *)
(* transactions; a transaction is added at the end, at most once, in one   *)
(* atomic step, and in every file in the same order.                       *)
(***************************************************************************)
EXTENDS Integers, Sequences

CONSTANTS File, Tx

VARIABLE log

Init == log = [f \in File |-> <<>>]

(* t was begun after every transaction that f shows.                        *)
Add(f, t) ==
    /\ \A k \in 1..Len(log[f]) : log[f][k] < t
    /\ log' = [log EXCEPT ![f] = Append(@, t)]

Next == \E f \in File, t \in Tx : Add(f, t)

Spec == Init /\ [][Next]_log
=============================================================================
