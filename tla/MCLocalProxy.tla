---------------------------- MODULE MCLocalProxy ----------------------------
(***************************************************************************)
(* Small instances of LocalProxy for TLC.                                  *)
(***************************************************************************)
EXTENDS LocalProxy, TLC

CONSTANTS e1, e2, ip1, ip2, p1, p2, u1, u2

NoLan    == {{}}
OneLan   == {{ip1}}
TwoLans  == {{ip1}, {ip2}}

\* What an idle process last ran is overwritten before it is read again, and no
\* guard reads the network, how a command has gone so far or the history `found`
\* and `skipped`: the runs of two commands, whose property does not either, identify
\* the states that differ in these alone.
Task(p) == IF pc[p] = "idle" THEN <<>>
           ELSE <<pc[p], cmd[p], env[p], dial[p], todo[p], snap[p]>>
LiveView == <<proxy, stale, routes, lan, stack, excused, raced,
              [p \in Process |-> Task(p)]>>

BothSym  == Permutations({e1, e2}) \cup Permutations({p1, p2})
=============================================================================
