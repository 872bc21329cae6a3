---------------------------- MODULE MCDbRestore ----------------------------
(* An instance of DbRestore for TLC: both databases, every kind of hook. *)
EXTENDS DbRestore

BothDbs  == {"app", "metabase"}
AllHooks == [d \in BothDbs |-> IF d = "app" THEN {"psql", "manage"}
                               ELSE {"psql", "restart"}]

\* Each command line once: what a kind of command does not look at has one value.
Line(k, dry, m, v) == [kind |-> k, dry |-> dry, mode |-> m, via |-> v]

Lines == {Line(k, dry, "none", "stream") : k \in {"file", "dumps"}, dry \in BOOLEAN}
           \cup {Line("plain", dry, "none", v) : dry \in BOOLEAN, v \in {"stream", "dk"}}
           \cup {Line("plain", FALSE, m, "stream") : m \in {"read", "write"}}
           \cup {Line("fetch", FALSE, "none", v) : v \in {"stream", "dk"}}

\* An idle command is forgotten, but for the verdict on it; why PGDATA may have two
\* writers is asked by no property of the run.
View == <<[archive EXCEPT !["file"] = IsDump("file")], conf, archiving, db, pgdata,
          oneoff, orphan, blind \cap Unseen = {}, blind \cap Outliving = {}, pc,
          IF pc = "idle"
          THEN <<NothingDroppedUnsound, [d \in Db |-> data[d] = "restored"]>>
          ELSE <<data, req, todo, scrubbed, hooked, before, sound>>>>
=============================================================================
