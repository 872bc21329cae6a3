------------------------------- MODULE MCStack -------------------------------
(* Two commits of one branch.                                              *)
EXTENDS Stack

TwoCommits == {[tag |-> "a", sha |-> 1], [tag |-> "a", sha |-> 2]}

(* What the invariants of the run, and what comes after, read of the state: *)
(* of an outcome the part that an up or a stanza is judged by, of a command *)
(* not that it left the check out, of web's image and container not what    *)
(* they were built from (db's decides whether a new container starts).      *)
Judged == IF ~outcome.ok THEN <<>>
          ELSE IF outcome.kind = "up" /\ ~outcome.nobuild
               THEN <<outcome.co, outcome.asked, outcome.read>>
               ELSE IF outcome.kind \in {"init", "stanza"} THEN <<"stanza">> ELSE <<>>
Stock == [t \in Tags |-> <<image[t]["db"], image[t]["web"].label, image[t]["web"] = NoImage>>]
Serving == <<cont["db"], cont["web"].tag, cont["web"].label>>
View == <<checkout, creds, Stock, Serving, data, commands, [cmd EXCEPT !.skip = FALSE], Judged>>
==============================================================================
