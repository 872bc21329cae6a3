--------------------------- MODULE RouteRegistry ---------------------------
(***************************************************************************)
(* What the machine-wide development proxy promises the environments that  *)
(* share it: a table of routes in which every request changes the entry it *)
(* names and no other, and which is forgotten as a whole when the proxy    *)
(* container stops.  `local_proxy.py` keeps no table of its own: the one   *)
(* that counts is the configuration in the running Caddy, and LocalProxy   *)
(* is checked, and proved, to implement this module when one command runs  *)
(* at a time.                                                              *)
(***************************************************************************)
CONSTANT Entry,     \* what a route says: an id and where its requests go
         IdOf(_)    \* the Caddy @id of an entry

VARIABLE table

Init == table = {}

\* The entry replaces the one that had its id; every other one stays.
Register(x) == table' = {y \in table : IdOf(y) # IdOf(x)} \cup {x}

\* Deleting an id that is not there is allowed (HTTP 404 counts as removed).
Unregister(i) == table' = {y \in table : IdOf(y) # i}

Forget == table' = {}

Next == \/ \E x \in Entry : Register(x)
        \/ \E x \in Entry : Unregister(IdOf(x))
        \/ Forget

Spec == Init /\ [][Next]_table
=============================================================================
