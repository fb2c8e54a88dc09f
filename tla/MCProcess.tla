----------------------------- MODULE MCProcess -----------------------------
(***************************************************************************)
(* Instances of what apk runs and waits for.  Children for the process     *)
(* model: chatty on both outputs, reading all, some or none of their       *)
(* input, closing early, leaving a background process, failing.  Commands  *)
(* for the shim model, which end by running the tools that pack.  A        *)
(* behaviour is about one of the two.                                      *)
(***************************************************************************)
EXTENDS Process, Shim

CONSTANTS c1, c2
VARIABLE part

O(c) == [op |-> "out", c |-> c]
E(c) == [op |-> "err", c |-> c]
Do(w) == [op |-> w]
Ex(n) == [op |-> "exit", code |-> n]

MCPrograms ==
    { << O("x"), O(LF), E("y"), E("y"), E(LF), E("z"), O("w"), Ex(0) >>,
      << Do("readall"), O("x"), O("y"), O(LF), Ex(0) >>,
      << E("x"), E("y"), E(LF), Do("read"), Do("close"), E("z"), E(LF), Ex(0) >>,
      << O("x"), Do("read"), Do("read"), O(LF), Ex(0) >>,
      << O("a"), O("b"), O("c"), O("d"), O(LF), Ex(0) >>,
      << Do("daemon"), O("x"), E("y"), Ex(0) >>,
      << O("x"), O("y"), E("z"), Ex(3) >> }

MCInputs == {NoInput, 0, 2}

(* Three files of one name, two of them where programs get a shim.          *)
MCTargets == {"bin/x", "usr/bin/x"}
MCShimPaths == MCTargets \cup {"etc/x"}
MCBaseName == [f \in MCShimPaths |-> "x"]

NoChild ==
    /\ mode = "run" /\ pc = "done" /\ p = NewProcess(NoInput) /\ ends = NewPipes
    /\ pipe = [in |-> <<>>, out |-> <<>>, err |-> <<>>]
    /\ kid = [prog |-> <<>>, started |-> FALSE, status |-> Running, sawEof |-> FALSE]
    /\ shown = [out |-> <<>>, err |-> <<>>] /\ got = [data |-> <<>>, eof |-> FALSE]
    /\ res = "nostart" /\ wrote = [out |-> <<>>, err |-> <<>>]

MCInit ==
    \/ part = "child" /\ Init /\ Fresh /\ ShimRest
    \/ part = "shim" /\ NoChild /\ ShimInit

MCNext ==
    \/ part = "child" /\ Next /\ UNCHANGED <<part, shimvars>>
    \/ part = "shim" /\ ShimNext /\ UNCHANGED <<part, pvars>>

MCSpec == MCInit /\ [][MCNext]_<<part, pvars, shimvars>> /\ WF_pvars(Apk) /\ WF_pvars(Kid)
============================================================================
