--------------------------- MODULE BackupHostsProofs ---------------------------
(***************************************************************************)
(* Theorems about BackupHosts, for any commands, credentials and bounds:   *)
(* the type, that an enabled timer finds its files, that the backups are   *)
(* never given an authority ahead of the server, what a restarted agent    *)
(* runs, and what a report on the log rotation means.                      *)
(***************************************************************************)
EXTENDS BackupHosts, SequenceTheorems, TLAPS

----------------------------------------------------------------------------
(* The steps left of a command.  A plan is a list whose tails are all met, *)
(* so what is said of a list is said of each of its steps and of those     *)
(* that come before it.                                                    *)

Ops == {"install", "tee", "merge", "dbenv", "chmod", "reload", "enable", "disable", "restart",
        "start", "plain", "encrypt", "require", "up", "daemon", "dockerd", "probe"}
Places == Files \cup Units \cup BOOLEAN \cup Databases \cup {"tls", "stack"} \cup {<<>>}
StepSet == [op : Ops, at : Places, v : Nat]
CommandSet == [kind : Kinds \cup {"none"}, todo : Seq(StepSet)]
Left == 1..Len(cmd.todo)
Latest == MaxVersion + commands

AgentFile(p) == <<"agent", p>>
AgentFiles == {AgentFile(p) : p \in Parts}
Writes(s, f) ==
    \/ s.op \in {"install", "tee"} /\ s.at = f
    \/ s.op = "merge" /\ f = AgentFile("env")
    \/ s.op = "dbenv" /\ f = <<"pgbr", "env">>

(* What each step is given.                                                *)
StepOK(s) ==
    /\ \A f \in Files : Writes(s, f) => s.v \in 1..Latest
    /\ s.op = "install" => s.at \in Files /\ s.at # AgentFile("script")
    /\ s.op = "tee" => s.at \in {AgentFile("script"), AgentFile("unit")}
    /\ s.op = "merge" => s.at \in BOOLEAN
    /\ s.op = "dbenv" => s.at \in Databases
    /\ s.op = "chmod" => s.at \in Timers
    /\ s.op = "plain" => s.at \in {"tls", "stack"}
    /\ s.op = "encrypt" => s.at \in {"tls", "stack"} /\ s.v = Latest
CommandOK ==
    /\ cmd \in CommandSet
    /\ cmd.kind = "none" <=> cmd.todo = <<>>
    /\ cmd.kind # "none" => outcome = NoOutcome
    /\ \A j \in Left : StepOK(cmd.todo[j])

(* A directory stands only where docker makes one of a missing file.       *)
FileOK ==
    /\ \A f \in Files : disk[f] <= Latest /\ (disk[f] = -1 => f \in {AppCa, AgentFile("script")})
    /\ \A x \in {"tls", "stack"} : sops[x] <= Latest

(* What an enabled timer needs is there, or comes before it is enabled.    *)
Comes(f, j) == disk[f] # 0 \/ \E i \in Left : i < j /\ Writes(cmd.todo[i], f)
Runnable(u, j) ==
    u \in exec \/ \E i \in Left : i < j /\ cmd.todo[i].op = "chmod" /\ cmd.todo[i].at = u
EnableSteps ==
    \A j \in Left : LET u == cmd.todo[j].at IN
        cmd.todo[j].op = "enable" /\ u \in Timers =>
            Comes(<<u, "script">>, j) /\ Comes(<<u, "env">>, j) /\ Runnable(u, j)
EnableOK == EnableSteps /\ \A u \in enabled : disk[<<u, "unit">>] # 0

(* An authority reaches the app host after the rest, and all of one make.  *)
CaFiles == TlsFiles \cup {AppCa}
TlsOK == \A f \in TlsFiles : sops.tls > 0 => disk[f] <= sops.tls
CaSteps ==
    \A j \in Left :
        /\ \A f \in CaFiles : Writes(cmd.todo[j], f) => sops.tls > 0 /\ cmd.todo[j].v = sops.tls
        /\ Writes(cmd.todo[j], AppCa) =>
            \A f \in TlsFiles : disk[f] = sops.tls \/ \E i \in Left : i < j /\ Writes(cmd.todo[i], f)
SecretSteps ==
    \A j \in Left : cmd.todo[j].op \in {"plain", "encrypt"} =>
        \A i \in Left, f \in CaFiles : ~Writes(cmd.todo[i], f)
CaOK == TlsOK /\ CaSteps /\ SecretSteps /\ AppNeverAhead

(* An installation of the agent counts as torn until systemd has read it,  *)
(* and by then has written what it covers, of the credentials there are.   *)
AgentSteps ==
    \A j \in Left :
        /\ \A p \in Parts : Writes(cmd.todo[j], AgentFile(p)) =>
            cmd.todo[j].v = creds /\ p \in Covered /\ cmd.kind \in torn
        /\ cmd.todo[j].op = "reload" =>
            /\ \A p \in Covered : disk[AgentFile(p)] = creds
                   \/ \E i \in Left : i < j /\ Writes(cmd.todo[i], AgentFile(p))
            /\ \A i \in Left, p \in Parts : i > j => ~Writes(cmd.todo[i], AgentFile(p))
PartsOK ==
    /\ \A p \in Parts :
        /\ disk[AgentFile(p)] <= creds
        /\ wrote[p] # 0 => wrote[p] <= disk[AgentFile(p)]
        /\ wrote[p] # 0 /\ ~CutShort(p) => wrote[p] = disk[AgentFile(p)]
    /\ wrote["unit"] <= loaded["agent"] /\ loaded["agent"] <= disk[AgentFile("unit")]
TornOK == AgentSteps /\ PartsOK
KindOK == cmd.kind = "restart" => Len(cmd.todo) = 1 /\ cmd.todo[1].op = "restart"

TypeInv == TypeOK /\ CommandOK /\ FileOK
Inv ==
    /\ TypeInv /\ EnableOK /\ EnabledJobsAreWhole /\ CaOK
    /\ TornOK /\ KindOK /\ RestartRunsTheInstall

----------------------------------------------------------------------------
(* How a command goes on.                                                  *)

LEMMA IdleIsCommand == Idle \in CommandSet /\ Len(Idle.todo) = 0 /\ Idle.todo = <<>>
BY DEF Idle, CommandSet

(* The step at hand is done: the others move up, or the command ends.      *)
Goes ==
    /\ cmd' \in CommandSet
    /\ \A j \in 1..Len(cmd'.todo) : j + 1 \in Left /\ cmd'.todo[j] = cmd.todo[j + 1]
    /\ cmd'.todo # <<>> => Len(cmd'.todo) = Len(cmd.todo) - 1
    /\ cmd'.kind = "none" <=> cmd'.todo = <<>>
    /\ cmd'.kind # "none" => cmd'.kind = cmd.kind /\ outcome' = outcome
    /\ cmd'.kind = "none" => /\ outcome'.kind = cmd.kind /\ outcome'.kind \in Kinds
                             /\ outcome'.ok => Len(cmd.todo) = 1 \/ cmd.todo[1].op = "probe"
    /\ UNCHANGED commands

LEMMA TailMoves ==
  ASSUME NEW S, NEW t \in Seq(S), Len(t) # 1, t # <<>>
  PROVE  /\ Tail(t) \in Seq(S) /\ Tail(t) # <<>> /\ Len(Tail(t)) = Len(t) - 1
         /\ \A j \in 1..Len(Tail(t)) : j + 1 \in 1..Len(t) /\ Tail(t)[j] = t[j + 1]
<1>1. Len(t) \in Nat /\ Len(t) # 0 BY EmptySeq
<1>2. /\ Len(Tail(t)) = Len(t) - 1 /\ Tail(t) \in Seq(S)
      /\ \A j \in 1..Len(Tail(t)) : Tail(t)[j] = t[j + 1]
  BY <1>1, HeadTailProperties
<1>3. Tail(t) # <<>>
  <2>1. SUFFICES ASSUME Tail(t) = <<>> PROVE FALSE OBVIOUS
  <2>2. Len(<<>>) = 0 OBVIOUS
  <2>3. Len(t) - 1 = 0 BY <1>2, <2>1, <2>2
  <2> QED BY <1>1, <2>3
<1>4. \A j \in 1..Len(Tail(t)) : j + 1 \in 1..Len(t) /\ Tail(t)[j] = t[j + 1] BY <1>1, <1>2
<1> QED BY <1>2, <1>3, <1>4

LEMMA KindIs ==
  ASSUME CommandOK, cmd.todo # <<>>
  PROVE  cmd.kind \in Kinds /\ cmd.kind # "none" /\ outcome = NoOutcome
BY DEF CommandOK, CommandSet

LEMMA FinishGoes ==
  ASSUME CommandOK, cmd.todo # <<>>, NEW ok \in BOOLEAN, Finish(ok),
         ok => Len(cmd.todo) = 1 \/ cmd.todo[1].op = "probe",
         UNCHANGED commands
  PROVE  Goes /\ cmd'.todo = <<>> /\ cmd'.kind = "none" /\ outcome'.ok = ok
<1>1. cmd' = Idle /\ outcome' = [kind |-> cmd.kind, ok |-> ok] BY DEF Finish
<1>2. cmd'.kind = "none" BY <1>1 DEF Idle
<1> QED BY <1>1, <1>2, IdleIsCommand, KindIs DEF Goes

LEMMA Next1Goes ==
  ASSUME CommandOK, cmd.todo # <<>>, Next1, UNCHANGED commands
  PROVE  Goes
<1>1. CASE Len(cmd.todo) = 1 BY <1>1, FinishGoes DEF Next1, Finish
<1>2. CASE Len(cmd.todo) # 1
  <2>1. cmd' = [cmd EXCEPT !.todo = Tail(@)] /\ UNCHANGED outcome BY <1>2 DEF Next1
  <2>2. cmd.todo \in Seq(StepSet) /\ cmd \in CommandSet BY DEF CommandOK, CommandSet
  <2>3. cmd'.todo = Tail(cmd.todo) /\ cmd'.kind = cmd.kind BY <2>1, <2>2 DEF CommandSet
  <2>4. /\ Tail(cmd.todo) \in Seq(StepSet) /\ Tail(cmd.todo) # <<>> /\ Len(Tail(cmd.todo)) = Len(cmd.todo) - 1
        /\ \A j \in 1..Len(Tail(cmd.todo)) : j + 1 \in 1..Len(cmd.todo) /\ Tail(cmd.todo)[j] = cmd.todo[j + 1]
    BY <2>2, <1>2, TailMoves
  <2>5. cmd' \in CommandSet BY <2>1, <2>2, <2>4 DEF CommandSet
  <2> QED BY <2>1, <2>3, <2>4, <2>5, KindIs DEF Goes, Left
<1> QED BY <1>1, <1>2

LEMMA HeadIs ==
  ASSUME CommandOK, NEW op, Does(op)
  PROVE  /\ cmd.todo # <<>> /\ 1 \in Left /\ Head(cmd.todo) = cmd.todo[1] /\ cmd.todo[1].op = op
         /\ At = cmd.todo[1].at /\ Version = cmd.todo[1].v /\ StepOK(cmd.todo[1])
<1>1. cmd.todo \in Seq(StepSet) /\ cmd.todo # <<>> BY DEF Does, CommandOK, CommandSet
<1>2. Len(cmd.todo) \in Nat /\ Len(cmd.todo) # 0 BY <1>1, EmptySeq
<1>3. Head(cmd.todo) = cmd.todo[1] BY <1>1, HeadTailProperties
<1>4. 1 \in Left BY <1>2 DEF Left
<1> QED BY <1>1, <1>3, <1>4 DEF Does, At, Version, CommandOK

----------------------------------------------------------------------------
(* A step of a command, part by part: what it does to the world is summed  *)
(* up in a few formulas that every step is shown to satisfy.               *)

First == cmd.todo[1]
DiskMoves ==
    \A f \in Files :
        /\ Writes(First, f) => disk'[f] = IF disk[f] = -1 THEN -1 ELSE First.v
        /\ Writes(First, f) /\ disk[f] = -1 => First.op = "install"
        /\ ~Writes(First, f) =>
            disk'[f] = disk[f] \/ (f = AgentFile("script") /\ disk[f] = 0 /\ disk'[f] = -1)
SopsMoves ==
    \/ UNCHANGED sops
    \/ /\ First.op \in {"plain", "encrypt"}
       /\ \A x \in {"tls", "stack"} : sops'[x] \in {sops[x], -1, 0, Latest}
ExecMoves == exec \subseteq exec' /\ (First.op = "chmod" => First.at \in exec')
UnitsMove ==
    /\ \A u \in enabled' \ enabled :
        /\ u \in Units /\ disk[<<u, "unit">>] # 0 /\ loaded'[u] = disk[<<u, "unit">>]
        /\ u \in Timers => First.op = "enable" /\ First.at = u
    /\ \A u \in Units : loaded'[u] \in {loaded[u], disk[<<u, "unit">>]}
    /\ \/ UNCHANGED installs
       \/ /\ First.op = "reload" /\ torn' = torn \ Mended
          /\ wrote' = [p \in Parts |-> IF p \in Covered THEN creds ELSE wrote[p]]
          /\ "unit" \in Covered => loaded'["agent"] = disk[AgentFile("unit")]
    /\ UNCHANGED creds
Moves == DiskMoves /\ SopsMoves /\ ExecMoves /\ UnitsMove

LEMMA FilesAre ==
  /\ \A u \in Units : <<u, "script">> \in Files /\ <<u, "env">> \in Files /\ <<u, "unit">> \in Files
  /\ AgentFile("script") \in Files /\ AgentFile("env") \in Files /\ AgentFile("unit") \in Files
  /\ TlsFiles \subseteq Files /\ AppCa \in Files /\ CaFiles \subseteq Files
  /\ AppCa \notin TlsFiles /\ AgentFile("script") \notin CaFiles
  /\ AgentFile("unit") # AppCa /\ AgentFile("unit") # AgentFile("script") /\ AgentFile("env") # AgentFile("script")
  /\ \A u \in Timers : u \in Units /\ <<u, "script">> # AgentFile("script") /\ <<u, "unit">> # AgentFile("script")
BY DEF Files, UnitFiles, Parts, Units, Timers, AgentFile, TlsFiles, AppCa, CaFiles

LEMMA NumbersAre ==
  ASSUME TypeOK
  PROVE  /\ commands \in Nat /\ MaxVersion \in Nat /\ Latest \in Nat /\ Latest <= MaxVersion + MaxCommands
         /\ \A f \in Files : disk[f] \in Int /\ disk[f] >= -1
         /\ \A x \in {"tls", "stack"} : sops[x] \in Int /\ sops[x] >= -1
         /\ Latest >= 1
BY BackupHostsAssumption DEF TypeOK, Latest, Versions

(* A file that is there stays, and what a step writes is there after it.   *)
LEMMA FilesStay ==
  ASSUME TypeInv, First \in StepSet, StepOK(First), DiskMoves
  PROVE  /\ \A f \in Files : disk[f] # 0 \/ Writes(First, f) => disk'[f] # 0
         /\ \A f \in CaFiles : ~Writes(First, f) => disk'[f] = disk[f]
         /\ \A f \in TlsFiles : Writes(First, f) => disk'[f] = First.v
BY FilesAre, NumbersAre DEF DiskMoves, StepOK, TypeInv, FileOK, CaFiles

LEMMA FirstIs ==
  ASSUME CommandOK, cmd.todo # <<>>
  PROVE  /\ 1 \in Left /\ First \in StepSet /\ StepOK(First) /\ Len(cmd.todo) \in Nat
         /\ \A j \in Left : j \in Nat /\ cmd.todo[j] \in StepSet
<1>1. cmd.todo \in Seq(StepSet) BY DEF CommandOK, CommandSet
<1>2. Len(cmd.todo) \in Nat /\ Len(cmd.todo) # 0 BY <1>1, EmptySeq
<1>3. \A j \in 1..Len(cmd.todo) : j \in Nat /\ cmd.todo[j] \in StepSet BY <1>1, <1>2, ElementOfSeq
<1> QED BY <1>2, <1>3 DEF Left, First, CommandOK

LEMMA CommandStays ==
  ASSUME TypeInv, cmd.todo # <<>>, Goes, DiskMoves, SopsMoves
  PROVE  CommandOK' /\ FileOK'
<1>1. Latest' = Latest BY DEF Goes, Latest
<1>2. \A j \in Left' : j + 1 \in Left /\ cmd'.todo[j] = cmd.todo[j + 1] BY DEF Goes, Left
<1>3. \A j \in Left : StepOK(cmd.todo[j]) BY DEF TypeInv, CommandOK
<1>5. ASSUME NEW j \in Left' PROVE StepOK(cmd.todo[j])'
  <2>1. j + 1 \in Left /\ cmd'.todo[j] = cmd.todo[j + 1] BY <1>2
  <2>2. StepOK(cmd.todo[j + 1]) BY <2>1, <1>3
  <2> QED BY <2>1, <2>2, <1>1 DEF StepOK, Writes
<1>6. CommandOK'
  <2>1. cmd' \in CommandSet /\ (cmd'.kind = "none" <=> cmd'.todo = <<>>) BY DEF Goes
  <2>2. cmd'.kind # "none" => outcome' = NoOutcome BY KindIs DEF Goes, TypeInv
  <2> QED BY <1>5, <2>1, <2>2 DEF CommandOK
<1>7. StepOK(First) BY FirstIs DEF TypeInv
<1>8. \A f \in Files : Writes(First, f) => First.v \in 1..Latest BY <1>7 DEF StepOK
<1>9. FileOK' BY <1>1, <1>8, NumbersAre, BackupHostsAssumption DEF FileOK, DiskMoves, SopsMoves, TypeInv
<1> QED BY <1>6, <1>9

(* The steps before one of the steps that are left were left, or the one   *)
(* at hand.                                                                *)
LEMMA Before ==
  ASSUME CommandOK, cmd.todo # <<>>, Goes, NEW j \in Left'
  PROVE  /\ j + 1 \in Left /\ j \in Nat /\ cmd'.todo[j] = cmd.todo[j + 1]
         /\ \A i \in Left : i = 1 \/ i - 1 \in Left'
         /\ \A i \in Left : i # 1 => cmd'.todo[i - 1] = cmd.todo[i]
<1>1. cmd'.todo \in Seq(StepSet) BY DEF Goes, CommandSet
<1>2. Len(cmd'.todo) \in Nat /\ j \in 1..Len(cmd'.todo) BY <1>1 DEF Left
<1>3. cmd'.todo # <<>> BY <1>1, <1>2, EmptySeq
<1>4. Len(cmd'.todo) = Len(cmd.todo) - 1 /\ Len(cmd.todo) \in Nat BY <1>3, FirstIs DEF Goes
<1>5. \A i \in Left : i = 1 \/ i - 1 \in 1..Len(cmd'.todo) BY <1>4, FirstIs DEF Left
<1>6. \A i \in Left : i # 1 => cmd'.todo[i - 1] = cmd.todo[i]
  <2> TAKE i \in Left
  <2> HAVE i # 1
  <2>1. i - 1 \in 1..Len(cmd'.todo) /\ i \in Nat BY <1>5, FirstIs
  <2>2. cmd'.todo[i - 1] = cmd.todo[(i - 1) + 1] BY <2>1 DEF Goes
  <2>3. (i - 1) + 1 = i BY <2>1
  <2> QED BY <2>2, <2>3
<1> QED BY <1>2, <1>5, <1>6 DEF Goes, Left

LEMMA ComesStays ==
  ASSUME TypeInv, cmd.todo # <<>>, Goes, DiskMoves, NEW j \in Left', NEW f \in Files, Comes(f, j + 1)
  PROVE  disk'[f] # 0 \/ \E i \in Left' : i < j /\ Writes(cmd'.todo[i], f)
<1>1. disk[f] # 0 \/ Writes(First, f) => disk'[f] # 0 BY FilesStay, FirstIs DEF TypeInv
<1>2. CASE disk[f] # 0 BY <1>1, <1>2
<1>3. ASSUME NEW i \in Left, i < j + 1, Writes(cmd.todo[i], f)
      PROVE  disk'[f] # 0 \/ \E k \in Left' : k < j /\ Writes(cmd'.todo[k], f)
  <2>1. CASE i = 1 BY <1>1, <1>3, <2>1 DEF First
  <2>2. CASE i # 1
    <3>1. i - 1 \in Left' /\ cmd'.todo[i - 1] = cmd.todo[i] BY <2>2, Before DEF TypeInv
    <3>2. i - 1 < j BY <1>3, Before, FirstIs DEF TypeInv
    <3> QED BY <1>3, <3>1, <3>2
  <2> QED BY <2>1, <2>2
<1> QED BY <1>2, <1>3 DEF Comes

LEMMA RunnableStays ==
  ASSUME TypeInv, cmd.todo # <<>>, Goes, ExecMoves, NEW j \in Left', NEW u, Runnable(u, j + 1)
  PROVE  u \in exec' \/ \E i \in Left' : i < j /\ cmd'.todo[i].op = "chmod" /\ cmd'.todo[i].at = u
<1>2. CASE u \in exec BY <1>2 DEF ExecMoves
<1>3. ASSUME NEW i \in Left, i < j + 1, cmd.todo[i].op = "chmod", cmd.todo[i].at = u
      PROVE  u \in exec' \/ \E k \in Left' : k < j /\ cmd'.todo[k].op = "chmod" /\ cmd'.todo[k].at = u
  <2>1. CASE i = 1 BY <1>3, <2>1 DEF First, ExecMoves
  <2>2. CASE i # 1
    <3>1. i - 1 \in Left' /\ cmd'.todo[i - 1] = cmd.todo[i] BY <2>2, Before DEF TypeInv
    <3>2. i - 1 < j BY <1>3, Before, FirstIs DEF TypeInv
    <3> QED BY <1>3, <3>1, <3>2
  <2> QED BY <2>1, <2>2
<1> QED BY <1>2, <1>3 DEF Runnable

LEMMA EnabledStays ==
  ASSUME TypeInv, EnableOK, EnabledJobsAreWhole, cmd.todo # <<>>, Goes, Moves
  PROVE  EnableOK' /\ EnabledJobsAreWhole'
<1>1. \A f \in Files : disk[f] # 0 \/ Writes(First, f) => disk'[f] # 0
  BY FilesStay, FirstIs DEF TypeInv, Moves
<1>2. enabled \subseteq Units BY DEF TypeInv, TypeOK
<1>3. \A u \in enabled' : disk'[<<u, "unit">>] # 0
  BY <1>1, <1>2, FilesAre DEF Moves, UnitsMove, EnableOK, EnableSteps
<1>4. ASSUME NEW j \in Left', cmd'.todo[j].op = "enable", cmd'.todo[j].at \in Timers
      PROVE  LET u == cmd.todo[j].at IN (Comes(<<u, "script">>, j) /\ Comes(<<u, "env">>, j) /\ Runnable(u, j))'
  <2> DEFINE u == cmd.todo[j + 1].at
  <2>1. j + 1 \in Left /\ cmd'.todo[j] = cmd.todo[j + 1] BY Before DEF TypeInv
  <2>2. Comes(<<u, "script">>, j + 1) /\ Comes(<<u, "env">>, j + 1) /\ Runnable(u, j + 1)
    BY <1>4, <2>1 DEF EnableOK, EnableSteps
  <2>3. <<u, "script">> \in Files /\ <<u, "env">> \in Files BY <1>4, <2>1, FilesAre
  <2> HIDE DEF u
  <2>4. disk'[<<u, "script">>] # 0 \/ \E i \in Left' : i < j /\ Writes(cmd'.todo[i], <<u, "script">>)
    BY <2>2, <2>3, ComesStays DEF Moves
  <2>5. disk'[<<u, "env">>] # 0 \/ \E i \in Left' : i < j /\ Writes(cmd'.todo[i], <<u, "env">>)
    BY <2>2, <2>3, ComesStays DEF Moves
  <2>6. u \in exec' \/ \E i \in Left' : i < j /\ cmd'.todo[i].op = "chmod" /\ cmd'.todo[i].at = u
    BY <2>2, RunnableStays DEF Moves
  <2>7. cmd'.todo[j].at = u BY <2>1 DEF u
  <2> QED BY <2>4, <2>5, <2>6, <2>7 DEF Comes, Runnable, Writes
<1>5. EnableOK' BY <1>3, <1>4 DEF EnableOK, EnableSteps
<1>6. ASSUME NEW u \in enabled' \cap Timers
      PROVE  loaded'[u] # 0 /\ u \in exec' /\ disk'[<<u, "script">>] # 0 /\ disk'[<<u, "env">>] # 0
  <2>0. u \in Units /\ <<u, "script">> \in Files /\ <<u, "env">> \in Files /\ exec \subseteq exec'
    BY FilesAre DEF Moves, ExecMoves
  <2>1. CASE u \in enabled
    <3>1. loaded[u] # 0 /\ u \in exec /\ disk[<<u, "script">>] # 0 /\ disk[<<u, "env">>] # 0
      BY <2>1 DEF EnabledJobsAreWhole
    <3>2. disk[<<u, "unit">>] # 0 BY <2>1 DEF EnableOK, EnableSteps
    <3>3. loaded'[u] \in {loaded[u], disk[<<u, "unit">>]} BY <2>0 DEF Moves, UnitsMove
    <3> QED BY <1>1, <2>0, <3>1, <3>2, <3>3
  <2>2. CASE u \notin enabled
    <3>1. First.op = "enable" /\ First.at = u /\ disk[<<u, "unit">>] # 0 /\ loaded'[u] = disk[<<u, "unit">>]
      BY <2>2 DEF Moves, UnitsMove
    <3>2. Comes(<<u, "script">>, 1) /\ Comes(<<u, "env">>, 1) /\ Runnable(u, 1)
      BY <3>1, FirstIs DEF EnableOK, EnableSteps, First, TypeInv
    <3>3. \A i \in Left : ~(i < 1) BY FirstIs DEF Left, TypeInv
    <3>4. disk[<<u, "script">>] # 0 /\ disk[<<u, "env">>] # 0 /\ u \in exec
      BY <3>2, <3>3 DEF Comes, Runnable
    <3> QED BY <1>1, <2>0, <3>1, <3>4
  <2> QED BY <2>1, <2>2
<1> QED BY <1>5, <1>6 DEF EnabledJobsAreWhole

(* The authority and what it has signed.                                   *)
LEMMA CaStays ==
  ASSUME TypeInv, CaOK, cmd.todo # <<>>, Goes, Moves
  PROVE  CaOK'
<1> USE DEF TypeInv
<1>1. \A f \in CaFiles : ~Writes(First, f) => disk'[f] = disk[f] BY FilesStay, FirstIs DEF Moves
<1>2. \A f \in TlsFiles : Writes(First, f) => disk'[f] = First.v BY FilesStay, FirstIs DEF Moves
<1>3. TlsFiles \subseteq CaFiles /\ AppCa \in CaFiles /\ CaFiles \subseteq Files
  BY FilesAre DEF CaFiles
<1>4. \A f \in CaFiles : disk[f] \in Int /\ disk[f] <= Latest /\ Latest \in Nat
  BY <1>3, NumbersAre DEF FileOK
<1>8. sops.tls \in Int BY NumbersAre
<1>5. 1 \in Left /\ First = cmd.todo[1] /\ \A i \in Left : ~(i < 1) BY FirstIs DEF Left, First
<1>6. CASE UNCHANGED sops
  <2>0. sops'.tls = sops.tls BY <1>6
  <2>1. \A f \in CaFiles : Writes(First, f) => sops.tls > 0 /\ First.v = sops.tls
    BY <1>5 DEF CaOK, CaSteps
  <2>2. \A f \in TlsFiles : disk[f] = sops.tls => disk'[f] = sops.tls BY <1>1, <1>2, <1>3, <2>1
  <2>3. TlsOK'
    <3>1. SUFFICES ASSUME NEW f \in TlsFiles, sops.tls > 0 PROVE disk'[f] <= sops.tls BY <2>0 DEF TlsOK
    <3>2. disk[f] <= sops.tls BY <3>1 DEF CaOK, TlsOK
    <3>3. disk'[f] = disk[f] \/ disk'[f] = sops.tls BY <1>1, <1>2, <1>3, <2>1
    <3> QED BY <3>2, <3>3, <1>8
  <2>4. ASSUME NEW j \in Left'
        PROVE  /\ \A f \in CaFiles : Writes(cmd'.todo[j], f) => sops.tls > 0 /\ cmd'.todo[j].v = sops.tls
               /\ Writes(cmd'.todo[j], AppCa) =>
                    \A f \in TlsFiles : disk'[f] = sops.tls
                        \/ \E i \in Left' : i < j /\ Writes(cmd'.todo[i], f)
    <3>1. j + 1 \in Left /\ cmd'.todo[j] = cmd.todo[j + 1] BY Before
    <3>2. \A f \in CaFiles : Writes(cmd'.todo[j], f) => sops.tls > 0 /\ cmd'.todo[j].v = sops.tls
      BY <3>1 DEF CaOK, CaSteps
    <3>3. ASSUME Writes(cmd'.todo[j], AppCa), NEW f \in TlsFiles
          PROVE  disk'[f] = sops.tls \/ \E i \in Left' : i < j /\ Writes(cmd'.todo[i], f)
      <4>1. disk[f] = sops.tls \/ \E i \in Left : i < j + 1 /\ Writes(cmd.todo[i], f)
        BY <3>1, <3>3 DEF CaOK, CaSteps
      <4>2. CASE disk[f] = sops.tls BY <4>2, <2>2
      <4>3. ASSUME NEW i \in Left, i < j + 1, Writes(cmd.todo[i], f)
            PROVE  disk'[f] = sops.tls \/ \E k \in Left' : k < j /\ Writes(cmd'.todo[k], f)
        <5>1. CASE i = 1 BY <4>3, <5>1, <1>2, <1>3, <2>1, <1>5
        <5>2. CASE i # 1
          <6>1. i - 1 \in Left' /\ cmd'.todo[i - 1] = cmd.todo[i] BY <5>2, Before
          <6>2. i - 1 < j BY <4>3, Before, FirstIs
          <6> QED BY <4>3, <6>1, <6>2
        <5> QED BY <5>1, <5>2
      <4> QED BY <4>1, <4>2, <4>3
    <3> QED BY <3>2, <3>3
  <2>5. CaSteps' BY <2>0, <2>4 DEF CaSteps, Writes
  <2>6. SecretSteps'
    <3>1. SUFFICES ASSUME NEW j \in Left', cmd'.todo[j].op \in {"plain", "encrypt"},
                          NEW i \in Left', NEW f \in CaFiles
                   PROVE  ~Writes(cmd'.todo[i], f)
      BY DEF SecretSteps, Writes
    <3>2. j + 1 \in Left /\ cmd'.todo[j] = cmd.todo[j + 1] BY Before
    <3>3. i + 1 \in Left /\ cmd'.todo[i] = cmd.todo[i + 1] BY Before
    <3> QED BY <3>1, <3>2, <3>3 DEF CaOK, SecretSteps
  <2>7. AppNeverAhead'
    <3>1. SUFFICES ASSUME NEW f \in TlsFiles PROVE disk'[AppCa] <= disk'[f] BY DEF AppNeverAhead
    <3>2. disk[AppCa] <= disk[f] /\ (sops.tls > 0 => disk[f] <= sops.tls)
      BY DEF CaOK, TlsOK, AppNeverAhead
    <3>3. CASE Writes(First, AppCa)
      <4>1. disk[f] = sops.tls BY <1>5, <3>3 DEF CaOK, CaSteps
      <4>2. disk'[f] = sops.tls BY <4>1, <2>2
      <4>3. disk'[AppCa] \in {-1, First.v} BY <3>3, <1>3 DEF Moves, DiskMoves
      <4> QED BY <4>2, <4>3, <2>1, <3>3, <1>3, <1>8
    <3>4. CASE ~Writes(First, AppCa)
      <4>1. disk'[AppCa] = disk[AppCa] BY <3>4, <1>1, <1>3
      <4>2. disk'[f] = disk[f] \/ (disk'[f] = sops.tls /\ sops.tls > 0) BY <1>1, <1>2, <1>3, <2>1
      <4> QED BY <4>1, <4>2, <3>2, <1>3, <1>4, <1>8
    <3> QED BY <3>3, <3>4
  <2> QED BY <2>3, <2>5, <2>6, <2>7 DEF CaOK
<1>7. CASE /\ First.op \in {"plain", "encrypt"}
           /\ \A x \in {"tls", "stack"} : sops'[x] \in {sops[x], -1, 0, Latest}
  <2>1. \A i \in Left, f \in CaFiles : ~Writes(cmd.todo[i], f) BY <1>5, <1>7 DEF CaOK, SecretSteps
  <2>2. \A f \in CaFiles : disk'[f] = disk[f] BY <1>1, <1>5, <2>1
  <2>3. \A j \in Left', f \in CaFiles : ~Writes(cmd'.todo[j], f) BY <2>1, Before
  <2>4. sops'.tls \in {sops.tls, -1, 0, Latest} BY <1>7
  <2>5. TlsOK' BY <1>3, <1>4, <2>2, <2>4 DEF TlsOK, CaOK
  <2>6. CaSteps' BY <1>3, <2>3 DEF CaSteps, Writes
  <2>7. SecretSteps' BY <2>3 DEF SecretSteps, Writes
  <2>8. AppNeverAhead' BY <1>3, <2>2 DEF AppNeverAhead, CaOK
  <2> QED BY <2>5, <2>6, <2>7, <2>8 DEF CaOK
<1> QED BY <1>6, <1>7 DEF Moves, SopsMoves

(* What an installation of the agent has still to do.                      *)
LEMMA CoveredIs ==
  /\ Covered \subseteq Parts
  /\ "unit" \in Covered => Target = "agent"
  /\ \A p \in Covered : cmd.kind \in torn => CutShort(p)
  /\ \A p \in Parts \ Covered : torn' = torn \ Mended /\ CutShort(p) => CutShort(p)'
<1>1. CASE cmd.kind = "agent" BY <1>1 DEF Covered, CutShort, Target, Timers
<1>2. CASE cmd.kind = "agent-local" BY <1>2 DEF Covered, CutShort, Mended, Parts, Target, Timers
<1>3. CASE cmd.kind \notin {"agent", "agent-local"} BY <1>3 DEF Covered, CutShort, Mended
<1> QED BY <1>1, <1>2, <1>3

LEMMA AgentFilesAre ==
  /\ \A p \in Parts : AgentFile(p) \in Files /\ AgentFile(p) # AppCa
  /\ \A p, q : AgentFile(p) = AgentFile(q) => p = q
  /\ "script" \in Parts /\ "env" \in Parts /\ "unit" \in Parts /\ "agent" \in Units
BY DEF AgentFile, Files, UnitFiles, Units, Parts, AppCa

(* The parts of the agent on disk, over one step.                          *)
LEMMA PartsMove ==
  ASSUME TypeInv, AgentSteps, cmd.todo # <<>>, Moves, NEW p \in Parts
  PROVE  /\ Writes(First, AgentFile(p)) =>
                disk'[AgentFile(p)] = creds /\ p \in Covered /\ cmd.kind \in torn
         /\ ~Writes(First, AgentFile(p)) =>
                \/ disk'[AgentFile(p)] = disk[AgentFile(p)]
                \/ disk[AgentFile(p)] = 0 /\ disk'[AgentFile(p)] = -1 /\ p = "script"
<1>1. 1 \in Left /\ First = cmd.todo[1] /\ StepOK(First) BY FirstIs DEF First, TypeInv
<1>2. AgentFile(p) \in Files /\ AgentFile(p) # AppCa BY AgentFilesAre
<1>3. ASSUME Writes(First, AgentFile(p))
      PROVE  disk'[AgentFile(p)] = creds /\ p \in Covered /\ cmd.kind \in torn
  <2>1. First.v = creds /\ p \in Covered /\ cmd.kind \in torn BY <1>1, <1>3 DEF AgentSteps
  <2>2. disk[AgentFile(p)] # -1
    <3>1. SUFFICES ASSUME disk[AgentFile(p)] = -1 PROVE FALSE OBVIOUS
    <3>2. First.op = "install" BY <1>2, <1>3, <3>1 DEF Moves, DiskMoves
    <3>3. AgentFile(p) = AgentFile("script") BY <1>2, <3>1 DEF TypeInv, FileOK
    <3>4. First.at = AgentFile(p) BY <1>3, <3>2 DEF Writes
    <3> QED BY <1>1, <3>2, <3>3, <3>4 DEF StepOK
  <2> QED BY <1>2, <1>3, <2>1, <2>2 DEF Moves, DiskMoves
<1>4. ASSUME ~Writes(First, AgentFile(p))
      PROVE  \/ disk'[AgentFile(p)] = disk[AgentFile(p)]
             \/ disk[AgentFile(p)] = 0 /\ disk'[AgentFile(p)] = -1 /\ p = "script"
  BY <1>2, <1>4, AgentFilesAre DEF Moves, DiskMoves
<1> QED BY <1>3, <1>4

LEMMA AgentNumbers ==
  ASSUME TypeOK, FileOK
  PROVE  /\ creds \in Nat /\ creds >= 1 /\ loaded["agent"] \in Nat
         /\ \A p \in Parts : /\ wrote[p] \in Nat /\ disk[AgentFile(p)] \in Int /\ disk[AgentFile(p)] >= -1
                             /\ p # "script" => disk[AgentFile(p)] \in Nat
<1>1. /\ creds \in Nat /\ creds >= 1 /\ Versions \subseteq Nat BY BackupHostsAssumption DEF TypeOK, Versions
<1>2. /\ loaded["agent"] \in Versions /\ \A p \in Parts : wrote[p] \in Versions
  BY AgentFilesAre DEF TypeOK
<1>3. \A p \in Parts : disk[AgentFile(p)] \in Int /\ disk[AgentFile(p)] >= -1 BY AgentFilesAre, NumbersAre
<1>4. \A p \in Parts : p # "script" => disk[AgentFile(p)] # -1 BY AgentFilesAre DEF FileOK
<1>5. \A p \in Parts : p # "script" => disk[AgentFile(p)] \in Nat BY <1>3, <1>4
<1>6. \A p \in Parts : wrote[p] \in Nat BY <1>1, <1>2
<1> QED BY <1>1, <1>2, <1>3, <1>5, <1>6

LEMMA AgentStepsStay ==
  ASSUME TypeInv, AgentSteps, cmd.todo # <<>>, Goes, Moves
  PROVE  AgentSteps'
<1> USE DEF TypeInv
<1>1. creds' = creds BY DEF Moves, UnitsMove
<1>2. 1 \in Left /\ First = cmd.todo[1] BY FirstIs DEF First
<1>3. creds \in Nat /\ creds >= 1 BY AgentNumbers
<1> SUFFICES ASSUME NEW j \in Left'
             PROVE  /\ \A p \in Parts : Writes(cmd'.todo[j], AgentFile(p)) =>
                        cmd'.todo[j].v = creds /\ p \in Covered' /\ cmd'.kind \in torn'
                    /\ cmd'.todo[j].op = "reload" =>
                        /\ \A p \in Covered' : disk'[AgentFile(p)] = creds
                               \/ \E i \in Left' : i < j /\ Writes(cmd'.todo[i], AgentFile(p))
                        /\ \A i \in Left', p \in Parts : i > j => ~Writes(cmd'.todo[i], AgentFile(p))
  BY <1>1 DEF AgentSteps
<1>4. j + 1 \in Left /\ cmd'.todo[j] = cmd.todo[j + 1] /\ j \in Nat /\ j >= 1 BY Before DEF Left
<1>5. cmd'.kind = cmd.kind
  <2>1. cmd'.todo \in Seq(StepSet) BY DEF Goes, CommandSet
  <2>2. cmd'.todo # <<>> BY <2>1 DEF Left
  <2> QED BY <2>2 DEF Goes
<1>6. Covered' = Covered BY <1>5 DEF Covered, Parts
<1>7. ASSUME NEW p \in Parts, Writes(cmd'.todo[j], AgentFile(p))
      PROVE  cmd'.todo[j].v = creds /\ p \in Covered' /\ cmd'.kind \in torn'
  <2>1. Writes(cmd.todo[j + 1], AgentFile(p)) BY <1>4, <1>7
  <2>2. cmd.todo[j + 1].v = creds /\ p \in Covered /\ cmd.kind \in torn BY <1>4, <2>1 DEF AgentSteps
  <2>3. First.op # "reload"
    <3>1. j + 1 > 1 BY <1>4
    <3> QED BY <1>2, <1>4, <2>1, <3>1 DEF AgentSteps
  <2>4. torn' = torn BY <2>3 DEF Moves, UnitsMove, installs
  <2> QED BY <1>4, <1>5, <1>6, <2>2, <2>4
<1>8. ASSUME cmd'.todo[j].op = "reload", NEW p \in Covered
      PROVE  disk'[AgentFile(p)] = creds \/ \E i \in Left' : i < j /\ Writes(cmd'.todo[i], AgentFile(p))
  <2>0. p \in Parts BY CoveredIs
  <2>1. disk[AgentFile(p)] = creds \/ \E i \in Left : i < j + 1 /\ Writes(cmd.todo[i], AgentFile(p))
    BY <1>4, <1>8 DEF AgentSteps
  <2>2. disk[AgentFile(p)] = creds \/ Writes(First, AgentFile(p)) => disk'[AgentFile(p)] = creds
    BY <1>3, <2>0, PartsMove
  <2>3. ASSUME NEW i \in Left, i < j + 1, Writes(cmd.todo[i], AgentFile(p)), i # 1
        PROVE  \E k \in Left' : k < j /\ Writes(cmd'.todo[k], AgentFile(p))
    <3>1. i - 1 \in Left' /\ cmd'.todo[i - 1] = cmd.todo[i] BY <2>3, Before
    <3>2. i - 1 < j BY <1>4, <2>3, FirstIs
    <3> QED BY <2>3, <3>1, <3>2
  <2> QED BY <1>2, <2>1, <2>2, <2>3
<1>9. ASSUME cmd'.todo[j].op = "reload", NEW i \in Left', NEW p \in Parts, i > j
      PROVE  ~Writes(cmd'.todo[i], AgentFile(p))
  <2>1. i + 1 \in Left /\ cmd'.todo[i] = cmd.todo[i + 1] /\ i \in Nat BY Before
  <2>2. i + 1 > j + 1 BY <1>4, <1>9, <2>1
  <2> QED BY <1>4, <1>9, <2>1, <2>2 DEF AgentSteps
<1> QED BY <1>6, <1>7, <1>8, <1>9

LEMMA PartsStay ==
  ASSUME TypeInv, TornOK, cmd.todo # <<>>, Goes, Moves
  PROVE  PartsOK'
<1> USE DEF TypeInv, TornOK
<1>1. creds' = creds BY DEF Moves, UnitsMove
<1>2. /\ creds \in Nat /\ creds >= 1 /\ loaded["agent"] \in Nat
      /\ \A p \in Parts : /\ wrote[p] \in Nat /\ disk[AgentFile(p)] \in Int /\ disk[AgentFile(p)] >= -1
                          /\ p # "script" => disk[AgentFile(p)] \in Nat
  BY AgentNumbers
<1>3. \A p \in Parts : disk'[AgentFile(p)] <= creds /\ (wrote[p] # 0 => wrote[p] <= disk'[AgentFile(p)])
  BY <1>2, PartsMove DEF PartsOK
<1>4. \A p \in Parts : wrote[p] # 0 /\ ~CutShort(p) => wrote[p] = disk'[AgentFile(p)]
  BY <1>2, PartsMove, CoveredIs DEF PartsOK
<1>5. /\ wrote["unit"] <= loaded["agent"] /\ wrote["unit"] <= disk[AgentFile("unit")]
      /\ loaded["agent"] <= disk'[AgentFile("unit")] /\ disk[AgentFile("unit")] <= disk'[AgentFile("unit")]
  BY <1>2, PartsMove, AgentFilesAre DEF PartsOK
<1>6. loaded'["agent"] \in {loaded["agent"], disk[AgentFile("unit")]}
  BY AgentFilesAre DEF Moves, UnitsMove, AgentFile
<1>7. CASE UNCHANGED installs
  <2>1. wrote' = wrote /\ torn' = torn BY <1>7 DEF installs
  <2>2. \A p : CutShort(p)' <=> CutShort(p) BY <2>1 DEF CutShort
  <2> QED BY <1>1, <1>3, <1>4, <1>5, <1>6, <2>1, <2>2 DEF PartsOK, AgentFile
<1>8. CASE /\ First.op = "reload" /\ torn' = torn \ Mended
           /\ wrote' = [p \in Parts |-> IF p \in Covered THEN creds ELSE wrote[p]]
           /\ "unit" \in Covered => loaded'["agent"] = disk[AgentFile("unit")]
  <2>1. 1 \in Left /\ First = cmd.todo[1] /\ \A i \in Left : ~(i < 1) BY FirstIs DEF First, Left
  <2>2. \A p \in Covered : disk[AgentFile(p)] = creds BY <1>8, <2>1 DEF AgentSteps
  <2>3. Covered \subseteq Parts BY CoveredIs
  <2>4. \A p \in Covered : disk'[AgentFile(p)] = creds BY <1>2, <2>2, <2>3, PartsMove
  <2>5. ASSUME NEW p \in Parts
        PROVE  /\ disk'[AgentFile(p)] <= creds
               /\ wrote'[p] # 0 => wrote'[p] <= disk'[AgentFile(p)]
               /\ wrote'[p] # 0 /\ ~CutShort(p)' => wrote'[p] = disk'[AgentFile(p)]
    <3>1. CASE p \in Covered BY <1>2, <1>8, <2>4, <3>1
    <3>2. CASE p \notin Covered
      <4>1. CutShort(p) => CutShort(p)' BY <1>8, <3>2, CoveredIs
      <4>2. wrote'[p] = wrote[p] BY <1>8, <3>2
      <4> QED BY <1>3, <1>4, <4>1, <4>2
    <3> QED BY <3>1, <3>2
  <2>6. wrote'["unit"] <= loaded'["agent"] /\ loaded'["agent"] <= disk'[AgentFile("unit")]
    <3>1. CASE "unit" \in Covered BY <1>2, <1>8, <2>2, <2>4, <3>1, AgentFilesAre
    <3>2. CASE "unit" \notin Covered BY <1>5, <1>6, <1>8, <3>2, AgentFilesAre
    <3> QED BY <3>1, <3>2
  <2> QED BY <1>1, <2>5, <2>6 DEF PartsOK, AgentFile
<1> QED BY <1>7, <1>8 DEF Moves, UnitsMove

LEMMA TornStays ==
  ASSUME TypeInv, TornOK, cmd.todo # <<>>, Goes, Moves
  PROVE  TornOK'
BY AgentStepsStay, PartsStay DEF TornOK

(* An agent of what is on disk now runs what the last installation wrote.  *)
Fresh ==
    \/ agent = NoAgent
    \/ agent["env"] = disk[AgentFile("env")] /\ agent["script"] = disk[AgentFile("script")]
       /\ agent["unit"] = loaded["agent"]

LEMMA FreshRuns ==
  ASSUME TypeOK', FileOK', PartsOK', Fresh'
  PROVE  RestartRunsTheInstall'
<1> SUFFICES ASSUME agent' # NoAgent, NEW p \in Parts, wrote'[p] # 0
             PROVE  agent'[p] = wrote'[p] \/ (agent'[p] > wrote'[p] /\ CutShort(p)')
  BY DEF RestartRunsTheInstall
<1>1. /\ loaded'["agent"] \in Nat /\ wrote'[p] \in Nat /\ disk'[AgentFile(p)] \in Int
  <2>1. \A v \in Versions \cup {-1} : v \in Int BY BackupHostsAssumption DEF Versions
  <2>2. \A v \in Versions : v \in Nat BY BackupHostsAssumption DEF Versions
  <2> QED BY <2>1, <2>2, AgentFilesAre DEF TypeOK
<1>2. /\ wrote'[p] <= disk'[AgentFile(p)] /\ (~CutShort(p)' => wrote'[p] = disk'[AgentFile(p)])
      /\ wrote'["unit"] <= loaded'["agent"] /\ loaded'["agent"] <= disk'[AgentFile("unit")]
  BY DEF PartsOK, AgentFile
<1>3. p = "unit" \/ agent'[p] = disk'[AgentFile(p)] BY DEF Fresh, Parts, AgentFile
<1>4. p = "unit" => agent'[p] = loaded'["agent"] BY DEF Fresh, AgentFile
<1>5. CASE p # "unit" BY <1>1, <1>2, <1>3, <1>5
<1>6. CASE p = "unit" BY <1>1, <1>2, <1>4, <1>6
<1> QED BY <1>5, <1>6

LEMMA KindStays ==
  ASSUME TypeInv, KindOK, cmd.todo # <<>>, Goes
  PROVE  KindOK'
<1> USE DEF TypeInv
<1>1. cmd'.todo \in Seq(StepSet) BY DEF Goes, CommandSet
<1>2. Len(cmd'.todo) \in Nat BY <1>1
<1>3. CASE cmd'.todo = <<>> BY <1>3 DEF Goes, KindOK
<1>4. CASE cmd'.todo # <<>>
  <2>1. Len(cmd'.todo) # 0 BY <1>1, <1>4, EmptySeq
  <2>2. Len(cmd'.todo) = Len(cmd.todo) - 1 /\ cmd'.kind = cmd.kind BY <1>4 DEF Goes
  <2>3. Len(cmd.todo) \in Nat BY FirstIs
  <2>4. cmd.kind # "restart" BY <1>2, <2>1, <2>2, <2>3 DEF KindOK
  <2> QED BY <2>2, <2>4 DEF KindOK
<1> QED BY <1>3, <1>4

(* A step keeps everything, when a restart starts what is on disk.         *)
LEMMA StepKeeps ==
  ASSUME Inv, cmd.todo # <<>>, Goes, Moves, TypeOK', First.op = "restart" => Fresh'
  PROVE  Inv'
<1>1. TypeInv /\ KindOK /\ CommandOK BY DEF Inv, TypeInv
<1>2. CommandOK' /\ FileOK' BY <1>1, CommandStays DEF Moves
<1>3. EnableOK' /\ EnabledJobsAreWhole' BY EnabledStays DEF Inv
<1>4. CaOK' BY CaStays DEF Inv
<1>5. TornOK' BY TornStays DEF Inv
<1>6. KindOK' BY KindStays DEF Inv
<1>7. cmd.kind # "none" /\ Len(cmd.todo) \in Nat /\ 1 \in Left BY <1>1, KindIs, FirstIs
<1>8. cmd'.kind # "none" => outcome' = NoOutcome BY <1>2 DEF CommandOK
<1>9. cmd'.kind = "none" => outcome'.kind = cmd.kind BY DEF Goes
<1>10. RestartRunsTheInstall'
  <2>1. CASE cmd'.kind = "none" /\ cmd.kind = "restart"
    <3>1. First.op = "restart" BY <2>1, <1>1 DEF KindOK, First
    <3> QED BY <3>1, <1>2, <1>5, FreshRuns DEF TornOK
  <2>2. CASE ~(cmd'.kind = "none" /\ cmd.kind = "restart")
    BY <2>2, <1>8, <1>9 DEF RestartRunsTheInstall, NoOutcome
  <2> QED BY <2>1, <2>2
<1> QED BY <1>2, <1>3, <1>4, <1>5, <1>6, <1>10 DEF Inv, TypeInv

----------------------------------------------------------------------------
(* The steps, one by one.                                                  *)

WorldOK ==
    /\ creds \in 1..MaxVersion /\ complete \in Completions
    /\ own \in BOOLEAN /\ db \in {"none"} \cup Databases
    /\ sops \in [{"tls", "stack"} -> Versions \cup {-1}]
    /\ disk \in [Files -> Versions \cup {-1}]
    /\ exec \subseteq Timers /\ enabled \subseteq Units /\ torn \subseteq Units \cup {"agent-local"}
    /\ loaded \in [Units -> Versions]
    /\ agent \in [Parts -> Versions \cup {-1}] /\ wanted \in BOOLEAN
    /\ wrote \in [Parts -> Versions]
    /\ reported \in {"nothing", "capped", "uncapped"}
    /\ garage.log \in {"none", "json-file", "local"}
    /\ daemon \in [running : {"json-file", "local"}, file : {"json-file", "local"}]

LEMMA WorldIs == TypeOK => WorldOK
BY DEF TypeOK, WorldOK

LEMMA TypeStays ==
  ASSUME TypeInv, cmd.todo # <<>>, Goes, WorldOK'
  PROVE  TypeOK'
<1>1. cmd.kind \in Kinds BY KindIs DEF TypeInv
<1>2. cmd'.kind \in Kinds \cup {"none"} BY DEF Goes, CommandSet
<1>3. outcome'.kind \in Kinds \cup {"none"} BY DEF Goes, TypeInv, TypeOK
<1>4. commands' \in 0..MaxCommands BY DEF Goes, TypeInv, TypeOK
<1> QED BY <1>2, <1>3, <1>4 DEF TypeOK, WorldOK

LEMMA Quiet ==
  /\ UNCHANGED disk /\ First.op \notin {"install", "tee", "merge", "dbenv"} => DiskMoves
  /\ UNCHANGED sops => SopsMoves
  /\ UNCHANGED exec /\ First.op # "chmod" => ExecMoves
  /\ UNCHANGED <<enabled, loaded, installs, creds>> => UnitsMove
<1>1. UNCHANGED disk /\ First.op \notin {"install", "tee", "merge", "dbenv"} => DiskMoves
  BY DEF DiskMoves, Writes
<1>2. UNCHANGED exec /\ First.op # "chmod" => ExecMoves BY DEF ExecMoves
<1>3. UNCHANGED <<enabled, loaded, installs, creds>> => UnitsMove BY DEF UnitsMove
<1> QED BY <1>1, <1>2, <1>3 DEF SopsMoves

(* What every step of a command has to show.                               *)
LEMMA StepDone ==
  ASSUME Inv, NEW op, Does(op), Next1, UNCHANGED commands, Moves, WorldOK',
         op = "restart" => Fresh'
  PROVE  Inv'
<1>1. TypeInv /\ CommandOK BY DEF Inv, TypeInv
<1>2. cmd.todo # <<>> /\ First.op = op BY <1>1, HeadIs DEF First
<1>3. Goes BY <1>1, <1>2, Next1Goes
<1>4. TypeOK' BY <1>1, <1>2, <1>3, TypeStays
<1> QED BY <1>2, <1>3, <1>4, StepKeeps

(* What the step at hand is given.                                         *)
LEMMA HandIs ==
  ASSUME Inv, NEW op, Does(op)
  PROVE  /\ TypeInv /\ First.op = op /\ At = First.at /\ Version = First.v /\ StepOK(First)
         /\ cmd.todo # <<>> /\ WorldOK
         /\ \A v \in 0..Latest : v \in Versions
<1>1. TypeInv /\ CommandOK /\ TypeOK BY DEF Inv, TypeInv
<1>2. cmd.todo # <<>> /\ First.op = op /\ At = First.at /\ Version = First.v /\ StepOK(First)
  BY <1>1, HeadIs DEF First
<1>3. \A v \in 0..Latest : v \in Versions BY <1>1, NumbersAre, BackupHostsAssumption DEF Versions
<1> QED BY <1>1, <1>2, <1>3, WorldIs

LEMMA InstallFileKeeps == ASSUME Inv, InstallFile PROVE Inv'
<1>1. Does("install") /\ Next1 /\ UNCHANGED <<config, bodies, sops, units, backup, commands>>
  BY DEF InstallFile
<1>2. /\ TypeInv /\ First.op = "install" /\ At = First.at /\ Version = First.v /\ StepOK(First) /\ WorldOK
      /\ \A v \in 0..Latest : v \in Versions
  BY <1>1, HandIs
<1>3. First.at \in Files /\ First.at # AgentFile("script") /\ Writes(First, First.at)
  BY <1>2 DEF StepOK, Writes
<1>4. First.v \in 1..Latest BY <1>2, <1>3 DEF StepOK
<1>5. disk' = [disk EXCEPT ![First.at] = IF disk[First.at] = -1 THEN -1 ELSE First.v]
  BY <1>2 DEF InstallFile
<1>6. DiskMoves BY <1>2, <1>3, <1>5 DEF DiskMoves, Writes, WorldOK
<1>7. Moves BY <1>1, <1>2, <1>6, Quiet DEF Moves, units, config
<1>8. First.v \in Versions BY <1>2, <1>4
<1>9. WorldOK' BY <1>1, <1>2, <1>5, <1>8 DEF WorldOK, config, bodies, units, service, installs, backup
<1> QED BY <1>1, <1>7, <1>9, StepDone

LEMMA TeeFileKeeps == ASSUME Inv, TeeFile PROVE Inv'
<1>1. Does("tee") /\ Next1 /\ UNCHANGED <<config, bodies, sops, units, backup, commands>>
  BY DEF TeeFile
<1>2. /\ TypeInv /\ First.op = "tee" /\ At = First.at /\ Version = First.v /\ StepOK(First) /\ WorldOK
      /\ \A v \in 0..Latest : v \in Versions
  BY <1>1, HandIs
<1>3. First.at \in Files /\ Writes(First, First.at)
  BY <1>2, FilesAre DEF StepOK, Writes
<1>4. First.v \in 1..Latest BY <1>2, <1>3 DEF StepOK
<1>5. disk' = [disk EXCEPT ![First.at] = First.v] /\ disk[First.at] # -1
  BY <1>2 DEF TeeFile
<1>6. DiskMoves BY <1>2, <1>3, <1>5 DEF DiskMoves, Writes, WorldOK
<1>7. Moves BY <1>1, <1>2, <1>6, Quiet DEF Moves, units, config
<1>8. First.v \in Versions BY <1>2, <1>4
<1>9. WorldOK' BY <1>1, <1>2, <1>5, <1>8 DEF WorldOK, config, bodies, units, service, installs, backup
<1> QED BY <1>1, <1>7, <1>9, StepDone

LEMMA MergeEnvKeeps == ASSUME Inv, MergeEnv PROVE Inv'
<1>1. Does("merge") /\ Next1 /\ UNCHANGED <<config, db, sops, units, backup, commands>>
  BY DEF MergeEnv
<1>2. /\ TypeInv /\ First.op = "merge" /\ At = First.at /\ Version = First.v /\ StepOK(First) /\ WorldOK
      /\ \A v \in 0..Latest : v \in Versions
  BY <1>1, HandIs
<1>3. AgentFile("env") \in Files /\ Writes(First, AgentFile("env")) BY <1>2, FilesAre DEF Writes
<1>4. First.v \in 1..Latest BY <1>2, <1>3 DEF StepOK
<1>5. disk' = [disk EXCEPT ![AgentFile("env")] = First.v] /\ disk[AgentFile("env")] # -1
  BY <1>2, FilesAre DEF MergeEnv, AgentFile, TypeInv, FileOK, AppCa
<1>6. DiskMoves BY <1>2, <1>3, <1>5 DEF DiskMoves, Writes, WorldOK
<1>7. Moves BY <1>1, <1>2, <1>6, Quiet DEF Moves, units, config
<1>8. First.v \in Versions BY <1>2, <1>4
<1>10. own' \in BOOLEAN BY DEF MergeEnv
<1>9. WorldOK' BY <1>1, <1>2, <1>5, <1>8, <1>10 DEF WorldOK, config, units, service, installs, backup
<1> QED BY <1>1, <1>7, <1>9, StepDone

LEMMA WriteDbEnvKeeps == ASSUME Inv, WriteDbEnv PROVE Inv'
<1>1. Does("dbenv") /\ Next1 /\ UNCHANGED <<config, own, sops, units, backup, commands>>
  BY DEF WriteDbEnv
<1>2. /\ TypeInv /\ First.op = "dbenv" /\ At = First.at /\ Version = First.v /\ StepOK(First) /\ WorldOK
      /\ \A v \in 0..Latest : v \in Versions
  BY <1>1, HandIs
<1> DEFINE f == <<"pgbr", "env">>
<1>3. f \in Files /\ Writes(First, f) BY <1>2, FilesAre DEF Writes, Units, Timers
<1>4. First.v \in 1..Latest BY <1>2, <1>3 DEF StepOK
<1>5. disk' = [disk EXCEPT ![f] = First.v] /\ disk[f] # -1
  BY <1>2, <1>3 DEF WriteDbEnv, AgentFile, TypeInv, FileOK, AppCa
<1>6. DiskMoves BY <1>2, <1>3, <1>5 DEF DiskMoves, Writes, WorldOK
<1>7. Moves BY <1>1, <1>2, <1>6, Quiet DEF Moves, units, config
<1>8. First.v \in Versions BY <1>2, <1>4
<1>10. db' \in Databases BY <1>2 DEF WriteDbEnv, StepOK
<1>9. WorldOK' BY <1>1, <1>2, <1>5, <1>8, <1>10 DEF WorldOK, config, units, service, installs, backup
<1> QED BY <1>1, <1>7, <1>9, StepDone

LEMMA ChmodKeeps == ASSUME Inv, Chmod PROVE Inv'
<1>1. /\ Does("chmod") /\ Next1
      /\ UNCHANGED <<config, bodies, sops, disk, loaded, enabled, service, installs, backup, commands>>
  BY DEF Chmod
<1>2. TypeInv /\ First.op = "chmod" /\ At = First.at /\ StepOK(First) /\ WorldOK BY <1>1, HandIs
<1>3. First.at \in Timers /\ exec' = exec \cup {First.at} BY <1>2 DEF StepOK, Chmod
<1>4. Moves BY <1>1, <1>2, <1>3, Quiet DEF Moves, ExecMoves, config
<1>5. WorldOK' BY <1>1, <1>2, <1>3 DEF WorldOK, config, bodies, backup, service, installs
<1> QED BY <1>1, <1>4, <1>5, StepDone

(* systemd reads the unit files of its host.                               *)
LEMMA ReadUnitsIs ==
  ASSUME TypeInv, WorldOK, NEW us, loaded' = ReadUnits(us)
  PROVE  /\ loaded' \in [Units -> Versions]
         /\ \A u \in Units : loaded'[u] \in {loaded[u], disk[<<u, "unit">>]}
         /\ \A u \in Units \cap us : loaded'[u] = disk[<<u, "unit">>]
         /\ \A u \in Units \ us : loaded'[u] = loaded[u]
<1>1. \A u \in Units : <<u, "unit">> \in Files /\ <<u, "unit">> # AppCa /\ <<u, "unit">> # AgentFile("script")
  BY FilesAre DEF AppCa, AgentFile, Units, Timers
<1>2. \A u \in Units : disk[<<u, "unit">>] \in Versions BY <1>1 DEF TypeInv, FileOK, WorldOK
<1>3. loaded' = [u \in Units |-> IF u \in us THEN disk[<<u, "unit">>] ELSE loaded[u]] BY DEF ReadUnits
<1> QED BY <1>2, <1>3 DEF WorldOK

LEMMA HostIs == /\ \A u \in Units : u \in HostOf(u)
                /\ HostOf("agent") \subseteq Units /\ HostOf("offsite") \subseteq Units
                /\ Target \in Units /\ Target \in HostOf(Target)
BY DEF Units, Timers, HostOf, Target

LEMMA DaemonReloadKeeps == ASSUME Inv, DaemonReload PROVE Inv'
<1>1. /\ Does("reload") /\ Next1
      /\ UNCHANGED <<config, bodies, sops, disk, exec, enabled, service, backup, commands>>
  BY DEF DaemonReload
<1>2. TypeInv /\ First.op = "reload" /\ WorldOK BY <1>1, HandIs
<1>3. /\ loaded' = ReadUnits(HostOf(Target)) /\ torn' = torn \ Mended
      /\ wrote' = [p \in Parts |-> IF p \in Covered THEN creds ELSE wrote[p]]
  BY DEF DaemonReload
<1>8. "unit" \in Covered => Target = "agent" BY CoveredIs
<1> HIDE DEF Target, Covered, Mended
<1>4. /\ loaded' \in [Units -> Versions]
      /\ \A u \in Units : loaded'[u] \in {loaded[u], disk[<<u, "unit">>]}
      /\ loaded'[Target] = disk[<<Target, "unit">>]
  BY <1>2, <1>3, ReadUnitsIs, HostIs
<1>5. UnitsMove BY <1>1, <1>2, <1>3, <1>4, <1>8 DEF UnitsMove, AgentFile, config
<1>6. Moves BY <1>1, <1>2, <1>5, Quiet DEF Moves, config
<1>9. creds \in Versions BY <1>2, BackupHostsAssumption DEF WorldOK, Versions
<1>10. wrote' \in [Parts -> Versions] BY <1>2, <1>3, <1>9 DEF WorldOK
<1>11. torn' \subseteq Units \cup {"agent-local"} BY <1>2, <1>3 DEF WorldOK
<1>7. WorldOK' BY <1>1, <1>2, <1>4, <1>10, <1>11 DEF WorldOK, config, bodies, backup, service
<1> QED BY <1>1, <1>2, <1>6, <1>7, StepDone

LEMMA EnableUnitKeeps == ASSUME Inv, EnableUnit PROVE Inv'
<1>1. /\ Does("enable") /\ Next1
      /\ UNCHANGED <<config, bodies, sops, disk, exec, service, installs, backup, commands>>
  BY DEF EnableUnit
<1>2. TypeInv /\ First.op = "enable" /\ At = First.at /\ WorldOK BY <1>1, HandIs
<1>3. /\ First.at \in Timers /\ disk[<<First.at, "unit">>] # 0
      /\ enabled' = enabled \cup {First.at} /\ loaded' = ReadUnits(HostOf(First.at))
  BY <1>2 DEF EnableUnit
<1>4. First.at \in Units BY <1>3 DEF Units
<1>5. /\ loaded' \in [Units -> Versions]
      /\ \A u \in Units : loaded'[u] \in {loaded[u], disk[<<u, "unit">>]}
      /\ loaded'[First.at] = disk[<<First.at, "unit">>]
  BY <1>2, <1>3, <1>4, ReadUnitsIs, HostIs
<1>6. UnitsMove BY <1>1, <1>2, <1>3, <1>4, <1>5 DEF UnitsMove, config
<1>7. Moves BY <1>1, <1>2, <1>6, Quiet DEF Moves, config
<1>8. WorldOK' BY <1>1, <1>2, <1>3, <1>4, <1>5 DEF WorldOK, config, bodies, backup, service, installs
<1> QED BY <1>1, <1>7, <1>8, StepDone

LEMMA StartOffsiteKeeps == ASSUME Inv, StartOffsite PROVE Inv'
<1>1. Does("start") /\ Next1 /\ UNCHANGED <<config, bodies, sops, disk, units, backup, commands>>
  BY DEF StartOffsite
<1>2. First.op = "start" /\ WorldOK BY <1>1, HandIs
<1>3. Moves BY <1>1, <1>2, Quiet DEF Moves, units, config
<1>4. WorldOK' BY <1>1, <1>2 DEF WorldOK, config, bodies, units, service, installs, backup
<1> QED BY <1>1, <1>3, <1>4, StepDone

(* A start of the agent leaves the files alone, but for the directory made *)
(* of the missing user parameters, and runs what is there, or nothing.     *)
LEMMA AgentLaunchesIs ==
  ASSUME TypeInv, WorldOK, NEW unit \in Versions, AgentLaunches(unit)
  PROVE  /\ disk' \in [Files -> Versions \cup {-1}]
         /\ agent' \in [Parts -> Versions \cup {-1}] /\ wanted' \in BOOLEAN
         /\ \A f \in Files : f # AgentFile("script") => disk'[f] = disk[f]
         /\ \/ disk'[AgentFile("script")] = disk[AgentFile("script")]
            \/ disk[AgentFile("script")] = 0 /\ disk'[AgentFile("script")] = -1
         /\ \/ agent' = NoAgent
            \/ agent'["env"] = disk'[AgentFile("env")] /\ agent'["script"] = disk'[AgentFile("script")]
               /\ agent'["unit"] = unit
<1>1. WithMounts = [disk EXCEPT ![AgentFile("script")] =
                        IF disk[AgentFile("script")] = 0 THEN -1 ELSE disk[AgentFile("script")]]
  BY DEF WithMounts, AgentFile
<1>2. disk' \in {disk, WithMounts} BY DEF AgentLaunches, AgentStarts
<1>3. disk' \in [Files -> Versions \cup {-1}] BY <1>1, <1>2 DEF WorldOK
<1>4. /\ \A f \in Files : f # AgentFile("script") => disk'[f] = disk[f]
      /\ \/ disk'[AgentFile("script")] = disk[AgentFile("script")]
         \/ disk[AgentFile("script")] = 0 /\ disk'[AgentFile("script")] = -1
  BY <1>1, <1>2, FilesAre DEF WorldOK
<1>5. wanted' = TRUE BY DEF AgentLaunches
<1>6. CASE AgentStarts(unit)
  <2>1. agent' = [env |-> disk[AgentFile("env")], script |-> disk'[AgentFile("script")], unit |-> unit]
    BY <1>6 DEF AgentStarts, AgentFile
  <2>2. disk'[AgentFile("env")] = disk[AgentFile("env")] BY <1>4, FilesAre
  <2>3. disk[AgentFile("env")] \in Versions \cup {-1} /\ disk'[AgentFile("script")] \in Versions \cup {-1}
    BY <1>3, FilesAre DEF WorldOK
  <2>4. agent' \in [Parts -> Versions \cup {-1}] BY <2>1, <2>3 DEF Parts
  <2> QED BY <1>3, <1>4, <1>5, <2>1, <2>2, <2>4
<1>7. CASE agent' = NoAgent
  <2>1. 0 \in Versions BY BackupHostsAssumption DEF Versions
  <2>2. agent' \in [Parts -> Versions \cup {-1}] BY <1>7, <2>1 DEF NoAgent, Parts
  <2> QED BY <1>3, <1>4, <1>5, <1>7, <2>2
<1> QED BY <1>6, <1>7 DEF AgentLaunches

LEMMA AgentStartMoves ==
  ASSUME TypeInv, WorldOK, First.op \in {"enable", "restart"},
         \A f \in Files : f # AgentFile("script") => disk'[f] = disk[f],
         \/ disk'[AgentFile("script")] = disk[AgentFile("script")]
         \/ disk[AgentFile("script")] = 0 /\ disk'[AgentFile("script")] = -1
  PROVE  DiskMoves
BY DEF DiskMoves, Writes

LEMMA UnitOfAgent ==
  ASSUME TypeInv, WorldOK
  PROVE  disk[AgentFile("unit")] \in Versions /\ loaded["agent"] \in Versions
BY FilesAre DEF TypeInv, FileOK, WorldOK, AgentFile, AppCa, Units

LEMMA EnableAgentKeeps == ASSUME Inv, EnableAgent PROVE Inv'
<1>1. /\ Does("enable") /\ Next1
      /\ UNCHANGED <<config, bodies, sops, exec, installs, backup, commands>>
  BY DEF EnableAgent
<1>2. TypeInv /\ First.op = "enable" /\ At = First.at /\ WorldOK BY <1>1, HandIs
<1>3. /\ disk[AgentFile("unit")] # 0 /\ First.at = "agent"
      /\ enabled' = enabled \cup {"agent"} /\ loaded' = ReadUnits(HostOf("agent"))
  BY <1>2 DEF EnableAgent, AgentFile
<1>4. "agent" \in Units /\ "agent" \notin Timers BY DEF Units, Timers
<1>5. /\ loaded' \in [Units -> Versions]
      /\ \A u \in Units : loaded'[u] \in {loaded[u], disk[<<u, "unit">>]}
      /\ loaded'["agent"] = disk[AgentFile("unit")]
  BY <1>2, <1>3, <1>4, ReadUnitsIs, HostIs DEF AgentFile
<1>6. UnitsMove BY <1>1, <1>2, <1>3, <1>4, <1>5 DEF UnitsMove, AgentFile, config
<1>7. AgentLaunches(disk[AgentFile("unit")]) \/ UNCHANGED <<agent, wanted, disk>>
  BY DEF EnableAgent, AgentFile, service
<1>8. /\ DiskMoves /\ disk' \in [Files -> Versions \cup {-1}]
      /\ agent' \in [Parts -> Versions \cup {-1}] /\ wanted' \in BOOLEAN
  <2>1. CASE AgentLaunches(disk[AgentFile("unit")])
    <3> DEFINE unit == disk[AgentFile("unit")]
    <3>1. unit \in Versions /\ AgentLaunches(unit) BY <1>2, <2>1, UnitOfAgent
    <3> HIDE DEF unit
    <3>2. /\ disk' \in [Files -> Versions \cup {-1}]
          /\ agent' \in [Parts -> Versions \cup {-1}] /\ wanted' \in BOOLEAN
          /\ \A f \in Files : f # AgentFile("script") => disk'[f] = disk[f]
          /\ \/ disk'[AgentFile("script")] = disk[AgentFile("script")]
             \/ disk[AgentFile("script")] = 0 /\ disk'[AgentFile("script")] = -1
      BY <1>2, <3>1, AgentLaunchesIs
    <3> QED BY <1>2, <3>2, AgentStartMoves
  <2>2. CASE UNCHANGED <<agent, wanted, disk>> BY <1>2, <2>2, Quiet DEF WorldOK
  <2> QED BY <1>7, <2>1, <2>2
<1>9. Moves BY <1>1, <1>2, <1>6, <1>8, Quiet DEF Moves
<1>10. WorldOK' BY <1>1, <1>2, <1>3, <1>4, <1>5, <1>8 DEF WorldOK, config, bodies, backup, installs
<1> QED BY <1>1, <1>9, <1>10, StepDone

LEMMA DisableAgentKeeps == ASSUME Inv, DisableAgent PROVE Inv'
<1>1. /\ Does("disable") /\ Next1
      /\ UNCHANGED <<config, bodies, sops, disk, exec, loaded, installs, backup, commands>>
  BY DEF DisableAgent
<1>2. First.op = "disable" /\ WorldOK BY <1>1, HandIs
<1>3. enabled' = enabled \ {"agent"} /\ agent' = NoAgent /\ wanted' = FALSE BY DEF DisableAgent
<1>4. UnitsMove BY <1>1, <1>3 DEF UnitsMove, config
<1>5. Moves BY <1>1, <1>2, <1>4, Quiet DEF Moves
<1>6. 0 \in Versions BY BackupHostsAssumption DEF Versions
<1>7. NoAgent \in [Parts -> Versions \cup {-1}] BY <1>6 DEF NoAgent, Parts
<1>8. WorldOK' BY <1>1, <1>2, <1>3, <1>7 DEF WorldOK, config, bodies, backup, installs
<1> QED BY <1>1, <1>5, <1>8, StepDone

LEMMA RestartAgentKeeps == ASSUME Inv, RestartAgent PROVE Inv'
<1>1. /\ Does("restart") /\ Next1
      /\ UNCHANGED <<config, bodies, sops, exec, loaded, enabled, installs, backup, commands>>
  BY DEF RestartAgent
<1>2. TypeInv /\ First.op = "restart" /\ WorldOK BY <1>1, HandIs
<1> DEFINE unit == loaded["agent"]
<1>3. unit \in Versions /\ AgentLaunches(unit) BY <1>2, UnitOfAgent DEF RestartAgent
<1>4. unit = loaded'["agent"] BY <1>1
<1> HIDE DEF unit
<1>5. /\ disk' \in [Files -> Versions \cup {-1}]
      /\ agent' \in [Parts -> Versions \cup {-1}] /\ wanted' \in BOOLEAN
      /\ \A f \in Files : f # AgentFile("script") => disk'[f] = disk[f]
      /\ \/ disk'[AgentFile("script")] = disk[AgentFile("script")]
         \/ disk[AgentFile("script")] = 0 /\ disk'[AgentFile("script")] = -1
      /\ \/ agent' = NoAgent
         \/ agent'["env"] = disk'[AgentFile("env")] /\ agent'["script"] = disk'[AgentFile("script")]
            /\ agent'["unit"] = unit
  BY <1>2, <1>3, AgentLaunchesIs
<1>6. DiskMoves BY <1>2, <1>5, AgentStartMoves
<1>7. Moves BY <1>1, <1>2, <1>6, Quiet DEF Moves, config
<1>8. WorldOK' BY <1>1, <1>2, <1>5 DEF WorldOK, config, bodies, backup, installs
<1>9. Fresh' BY <1>4, <1>5 DEF Fresh, AgentFile, NoAgent
<1> QED BY <1>1, <1>7, <1>8, <1>9, StepDone

LEMMA WritePlainKeeps == ASSUME Inv, WritePlain PROVE Inv'
<1>1. Does("plain") /\ Next1 /\ UNCHANGED <<config, bodies, disk, units, backup, commands>>
  BY DEF WritePlain
<1>2. TypeInv /\ First.op = "plain" /\ At = First.at /\ StepOK(First) /\ WorldOK BY <1>1, HandIs
<1>3. First.at \in {"tls", "stack"} /\ sops' = [sops EXCEPT ![First.at] = -1]
  BY <1>2 DEF StepOK, WritePlain
<1>4. \A x \in {"tls", "stack"} : sops'[x] \in {sops[x], -1, 0, Latest} BY <1>2, <1>3 DEF WorldOK
<1>5. Moves BY <1>1, <1>2, <1>4, Quiet DEF Moves, SopsMoves, units, config
<1>6. WorldOK' BY <1>1, <1>2, <1>3 DEF WorldOK, config, bodies, units, service, installs, backup
<1> QED BY <1>1, <1>5, <1>6, StepDone

LEMMA EncryptKeeps == ASSUME Inv, Encrypt PROVE Inv'
<1>1. Does("encrypt") /\ UNCHANGED <<config, bodies, disk, units, backup, commands>>
  BY DEF Encrypt
<1>2. /\ TypeInv /\ First.op = "encrypt" /\ At = First.at /\ Version = First.v /\ StepOK(First) /\ WorldOK
      /\ cmd.todo # <<>> /\ \A v \in 0..Latest : v \in Versions
  BY <1>1, HandIs
<1>3. First.at \in {"tls", "stack"} /\ First.v = Latest BY <1>2 DEF StepOK
<1>4. Latest \in Nat BY <1>2, NumbersAre DEF TypeInv
<1>5. 0 \in Versions /\ Latest \in Versions BY <1>2, <1>4
<1>6. ASSUME NEW v \in {0, Latest}, sops' = [sops EXCEPT ![First.at] = v]
      PROVE  Moves /\ WorldOK'
  <2>1. \A x \in {"tls", "stack"} : sops'[x] \in {sops[x], -1, 0, Latest} BY <1>2, <1>3, <1>6 DEF WorldOK
  <2>2. Moves BY <1>1, <1>2, <2>1, Quiet DEF Moves, SopsMoves, units, config
  <2>3. v \in Versions BY <1>5
  <2>4. WorldOK' BY <1>1, <1>2, <1>3, <1>6, <2>3 DEF WorldOK, config, bodies, units, service, installs, backup
  <2> QED BY <2>2, <2>4
<1>7. CASE sops' = [sops EXCEPT ![At] = Version] /\ Next1
  <2>1. Moves /\ WorldOK' BY <1>2, <1>3, <1>6, <1>7
  <2> QED BY <1>1, <1>7, <2>1, StepDone
<1>8. CASE sops' = [sops EXCEPT ![At] = 0] /\ Finish(FALSE)
  <2>1. Moves /\ WorldOK' BY <1>2, <1>6, <1>8
  <2>2. Goes BY <1>1, <1>2, <1>8, FinishGoes DEF TypeInv
  <2>3. TypeOK' BY <1>2, <2>1, <2>2, TypeStays
  <2> QED BY <1>2, <2>1, <2>2, <2>3, StepKeeps
<1> QED BY <1>7, <1>8 DEF Encrypt

LEMMA RequireFilesKeeps == ASSUME Inv, RequireFiles PROVE Inv'
<1>1. Does("require") /\ Next1 /\ UNCHANGED <<config, bodies, sops, disk, units, backup, commands>>
  BY DEF RequireFiles
<1>2. First.op = "require" /\ WorldOK BY <1>1, HandIs
<1>3. Moves BY <1>1, <1>2, Quiet DEF Moves, units, config
<1>4. WorldOK' BY <1>1, <1>2 DEF WorldOK, config, bodies, units, service, installs, backup
<1> QED BY <1>1, <1>3, <1>4, StepDone

LEMMA StackUpKeeps == ASSUME Inv, StackUp PROVE Inv'
<1>1. Does("up") /\ Next1 /\ UNCHANGED <<config, bodies, sops, disk, units, daemon, reported, commands>>
  BY DEF StackUp
<1>2. First.op = "up" /\ WorldOK BY <1>1, HandIs
<1>3. Moves BY <1>1, <1>2, Quiet DEF Moves, units, config
<1>4. garage'.log \in {"none", "json-file", "local"} BY <1>2 DEF StackUp, Started, WorldOK
<1>5. WorldOK' BY <1>1, <1>2, <1>4 DEF WorldOK, config, bodies, units, service, installs
<1> QED BY <1>1, <1>3, <1>5, StepDone

LEMMA WriteDaemonKeeps == ASSUME Inv, WriteDaemon PROVE Inv'
<1>1. Does("daemon") /\ Next1 /\ UNCHANGED <<config, bodies, sops, disk, units, garage, reported, commands>>
  BY DEF WriteDaemon
<1>2. First.op = "daemon" /\ WorldOK BY <1>1, HandIs
<1>3. Moves BY <1>1, <1>2, Quiet DEF Moves, units, config
<1>4. daemon' \in [running : {"json-file", "local"}, file : {"json-file", "local"}]
  BY <1>2 DEF WriteDaemon, WorldOK
<1>5. WorldOK' BY <1>1, <1>2, <1>4 DEF WorldOK, config, bodies, units, service, installs
<1> QED BY <1>1, <1>3, <1>5, StepDone

LEMMA RestartedIs ==
  ASSUME WorldOK
  PROVE  /\ RestartedGarage.log \in {"none", "json-file", "local"}
         /\ [daemon EXCEPT !.running = daemon.file] \in [running : {"json-file", "local"},
                                                         file : {"json-file", "local"}]
BY DEF RestartedGarage, Started, NoGarage, WorldOK

LEMMA RestartDockerKeeps == ASSUME Inv, RestartDocker PROVE Inv'
<1>1. Does("dockerd") /\ Next1 /\ UNCHANGED <<config, bodies, sops, disk, units, reported, commands>>
  BY DEF RestartDocker
<1>2. First.op = "dockerd" /\ WorldOK BY <1>1, HandIs
<1>3. Moves BY <1>1, <1>2, Quiet DEF Moves, units, config
<1>4. WorldOK' BY <1>1, <1>2, RestartedIs DEF RestartDocker, WorldOK, config, bodies, units, service, installs
<1> QED BY <1>1, <1>3, <1>4, StepDone

LEMMA ReportIs ==
  ASSUME WorldOK, NEW ok \in BOOLEAN, InForce(ok)
  PROVE  reported' \in {"nothing", "capped", "uncapped"}
BY DEF InForce, WorldOK

LEMMA ProbeKeeps == ASSUME Inv, Probe PROVE Inv'
<1>1. Does("probe") /\ UNCHANGED <<config, bodies, sops, disk, units, garage, daemon, commands>>
  BY DEF Probe
<1>2. TypeInv /\ First.op = "probe" /\ WorldOK /\ cmd.todo # <<>> BY <1>1, HandIs
<1>3. Moves BY <1>1, <1>2, Quiet DEF Moves, units, config
<1>5. PICK ok \in BOOLEAN : Finish(ok) /\ InForce(ok)
  <2>1. PICK read \in BOOLEAN : Finish(DaemonOk /\ read) /\ InForce(DaemonOk /\ read) BY DEF Probe
  <2>2. PICK ok \in BOOLEAN : ok = (DaemonOk /\ read) BY DEF DaemonOk
  <2> QED BY <2>1, <2>2
<1>6. reported' \in {"nothing", "capped", "uncapped"} BY <1>2, <1>5, ReportIs
<1>4. WorldOK' BY <1>1, <1>2, <1>6 DEF WorldOK, config, bodies, units, service, installs
<1>7. Goes BY <1>1, <1>2, <1>5, FinishGoes DEF TypeInv, First
<1>8. TypeOK' BY <1>2, <1>4, <1>7, TypeStays
<1> QED BY <1>2, <1>3, <1>7, <1>8, StepKeeps

(* A command that stops, or has ended, owes nothing any more.              *)
LEMMA StopsKeeps == ASSUME Inv, Stops PROVE Inv'
<1>1. /\ cmd.kind # "none" /\ cmd' = Idle /\ outcome' = [kind |-> cmd.kind, ok |-> FALSE]
      /\ UNCHANGED <<config, bodies, sops, disk, units, backup, commands>>
  BY DEF Stops, Finish
<1>2. cmd' \in CommandSet /\ cmd'.todo = <<>> /\ cmd'.kind = "none" /\ Len(cmd'.todo) = 0
  BY <1>1, IdleIsCommand DEF Idle
<1>3. Left' = {} BY <1>2 DEF Left
<1>4. TypeOK' BY <1>1, <1>2 DEF Inv, TypeInv, TypeOK, config, bodies, units, service, installs, backup
<1>5. CommandOK' BY <1>2, <1>3 DEF CommandOK
<1>6. FileOK' BY <1>1 DEF Inv, TypeInv, FileOK, Latest
<1>7. EnableOK' BY <1>1, <1>3 DEF Inv, EnableOK, EnableSteps, units
<1>8. EnabledJobsAreWhole' BY <1>1 DEF Inv, EnabledJobsAreWhole, units
<1>9. CaOK' BY <1>1, <1>3 DEF Inv, CaOK, TlsOK, CaSteps, SecretSteps, AppNeverAhead
<1>10. TornOK' BY <1>1, <1>3 DEF Inv, TornOK, AgentSteps, PartsOK, CutShort, units, installs, config
<1>11. KindOK' BY <1>2 DEF KindOK
<1>12. RestartRunsTheInstall' BY <1>1 DEF RestartRunsTheInstall
<1> QED BY <1>4, <1>5, <1>6, <1>7, <1>8, <1>9, <1>10, <1>11, <1>12 DEF Inv, TypeInv

----------------------------------------------------------------------------
(* What happens by itself, while a command runs or none does.              *)

EnvDisk ==
    \A f \in Files : disk'[f] = disk[f]
        \/ (f \in {AppCa, AgentFile("script")} /\ disk[f] = 0 /\ disk'[f] = -1)
EnvUnits == \A u \in Units : loaded'[u] \in {loaded[u], disk[<<u, "unit">>]}

LEMMA EnvironmentKeeps ==
  ASSUME Inv, WorldOK', EnvDisk, EnvUnits, outcome' \in {outcome, NoOutcome},
         UNCHANGED <<sops, exec, enabled, installs, cmd, commands>>,
         creds' = creds \/ (creds' = creds + 1 /\ cmd.kind = "none"),
         RestartRunsTheInstall' \/ Fresh'
  PROVE  Inv'
<1> USE DEF Inv, TypeInv
<1>1. /\ cmd' = cmd /\ Left' = Left /\ Latest' = Latest /\ sops' = sops /\ exec' = exec
      /\ enabled' = enabled /\ torn' = torn /\ wrote' = wrote
  BY DEF Left, Latest, installs
<1>2. /\ \A f \in Files : f \notin {AppCa, AgentFile("script")} => disk'[f] = disk[f]
      /\ \A f \in Files : disk[f] # 0 => disk'[f] = disk[f]
      /\ \A f \in Files : disk'[f] \in {disk[f], -1}
      /\ \A f \in Files : disk[f] \in Int /\ disk[f] >= -1
  BY NumbersAre DEF EnvDisk
<1>3. \A f \in TlsFiles : f \in Files /\ disk'[f] = disk[f]
  BY <1>2, FilesAre DEF CaFiles
<1>4. TypeOK'
  <2>1. outcome'.kind \in Kinds \cup {"none"} BY DEF TypeOK, NoOutcome
  <2> QED BY <1>1, <2>1 DEF TypeOK, WorldOK
<1>5. CommandOK'
  <2>1. cmd.kind # "none" => outcome' = NoOutcome BY DEF CommandOK
  <2> QED BY <1>1, <2>1 DEF CommandOK, StepOK, Writes
<1>6. FileOK' BY <1>1, <1>2, NumbersAre DEF FileOK, EnvDisk
<1>7. EnableSteps'
  <2>1. ASSUME NEW f \in Files, NEW j, Comes(f, j) PROVE Comes(f, j)' BY <1>1, <1>2, <2>1 DEF Comes, Writes
  <2>2. ASSUME NEW u, NEW j, Runnable(u, j) PROVE Runnable(u, j)' BY <1>1, <2>2 DEF Runnable
  <2>3. ASSUME NEW j \in Left, NEW u \in Timers, cmd.todo[j].op = "enable", cmd.todo[j].at = u
        PROVE  Comes(<<u, "script">>, j)' /\ Comes(<<u, "env">>, j)' /\ Runnable(u, j)'
    <3>1. Comes(<<u, "script">>, j) /\ Comes(<<u, "env">>, j) /\ Runnable(u, j)
      BY <2>3 DEF EnableOK, EnableSteps
    <3> QED BY <2>1, <2>2, <3>1, FilesAre
  <2> QED BY <1>1, <2>3, SMTT(30) DEF EnableSteps, Comes, Runnable, Writes
<1>8. \A u \in Units : disk[<<u, "unit">>] # 0 => disk'[<<u, "unit">>] # 0 BY <1>2, FilesAre
<1>9. EnableOK' BY <1>1, <1>7, <1>8 DEF EnableOK, TypeOK
<1>10. EnabledJobsAreWhole'
  <2>1. SUFFICES ASSUME NEW u \in enabled \cap Timers
                 PROVE  /\ loaded'[u] # 0 /\ u \in exec
                        /\ disk'[<<u, "script">>] # 0 /\ disk'[<<u, "env">>] # 0
    BY <1>1 DEF EnabledJobsAreWhole
  <2>2. loaded[u] # 0 /\ u \in exec /\ disk[<<u, "script">>] # 0 /\ disk[<<u, "env">>] # 0
    BY DEF EnabledJobsAreWhole
  <2>3. disk[<<u, "unit">>] # 0 BY DEF EnableOK
  <2>4. u \in Units BY FilesAre
  <2> QED BY <1>2, <2>2, <2>3, <2>4, FilesAre DEF EnvUnits
<1>11. CaOK'
  <2>1. TlsOK' BY <1>1, <1>3 DEF CaOK, TlsOK
  <2>2. CaSteps' BY <1>1, <1>3 DEF CaOK, CaSteps, Writes
  <2>3. SecretSteps' BY <1>1 DEF CaOK, SecretSteps, Writes
  <2>4. AppNeverAhead'
    <3>1. disk'[AppCa] \in {disk[AppCa], -1} BY <1>2, FilesAre
    <3> QED BY <1>2, <1>3, <3>1 DEF CaOK, AppNeverAhead
  <2> QED BY <2>1, <2>2, <2>3, <2>4 DEF CaOK
<1>14. /\ creds \in Nat /\ loaded["agent"] \in Nat
       /\ \A p \in Parts : /\ wrote[p] \in Nat /\ disk[AgentFile(p)] \in Int /\ disk[AgentFile(p)] >= -1
                           /\ p # "script" => disk[AgentFile(p)] \in Nat
  BY AgentNumbers
<1>15. \A p \in Parts :
        /\ disk'[AgentFile(p)] \in {disk[AgentFile(p)], -1}
        /\ disk[AgentFile(p)] # 0 \/ p = "unit" => disk'[AgentFile(p)] = disk[AgentFile(p)]
  BY <1>2, FilesAre, AgentFilesAre
<1>16. AgentSteps'
  <2>1. CASE creds' = creds
    <3>1. Covered' = Covered BY <1>1 DEF Covered, Parts
    <3>2. creds \in 1..MaxVersion BY DEF TypeOK
    <3>3. \A p \in Covered : disk[AgentFile(p)] = creds => disk'[AgentFile(p)] = creds
      BY <1>15, <3>2, BackupHostsAssumption, CoveredIs
    <3> QED BY <1>1, <2>1, <3>1, <3>3 DEF TornOK, AgentSteps
  <2>2. CASE cmd.kind = "none"
    <3>1. cmd.todo = <<>> BY <2>2 DEF CommandOK
    <3>2. Left' = {} BY <1>1, <3>1 DEF Left
    <3> QED BY <3>2 DEF AgentSteps
  <2> QED BY <2>1, <2>2
<1>17. PartsOK'
  <2>1. loaded'["agent"] \in {loaded["agent"], disk[AgentFile("unit")]}
    BY AgentFilesAre DEF EnvUnits, AgentFile
  <2>2. \A p : CutShort(p)' <=> CutShort(p) BY <1>1 DEF CutShort
  <2>3. creds' >= creds BY <1>14
  <2>4. \A p \in Parts :
          /\ disk'[AgentFile(p)] <= creds'
          /\ wrote[p] # 0 => wrote[p] <= disk'[AgentFile(p)]
          /\ wrote[p] # 0 /\ ~CutShort(p) => wrote[p] = disk'[AgentFile(p)]
    <3> TAKE p \in Parts
    <3>1. /\ disk[AgentFile(p)] <= creds /\ (wrote[p] # 0 => wrote[p] <= disk[AgentFile(p)])
          /\ (wrote[p] # 0 /\ ~CutShort(p) => wrote[p] = disk[AgentFile(p)])
      BY DEF TornOK, PartsOK
    <3>2. creds' \in Int BY <1>14
    <3> QED BY <1>14, <1>15, <2>3, <3>1, <3>2
  <2>5. wrote["unit"] <= loaded'["agent"] /\ loaded'["agent"] <= disk'[AgentFile("unit")]
    <3>1. wrote["unit"] <= loaded["agent"] /\ loaded["agent"] <= disk[AgentFile("unit")]
      BY DEF TornOK, PartsOK
    <3> QED BY <1>14, <1>15, <2>1, <3>1, AgentFilesAre
  <2> QED BY <1>1, <2>2, <2>4, <2>5 DEF PartsOK, AgentFile
<1>12. TornOK' BY <1>16, <1>17 DEF TornOK
<1>18. RestartRunsTheInstall' BY <1>4, <1>6, <1>17, FreshRuns
<1>13. KindOK' BY <1>1 DEF KindOK
<1> QED BY <1>4, <1>5, <1>6, <1>9, <1>10, <1>11, <1>12, <1>13, <1>18

LEMMA NoOutcomeSays == outcome' = NoOutcome => RestartRunsTheInstall'
BY DEF NoOutcome, RestartRunsTheInstall

LEMMA ConfigKeeps == ASSUME Inv, ChangeConfig \/ EditAgentEnv PROVE Inv'
<1>1. UNCHANGED <<db, sops, disk, units, backup, cmd, outcome, commands>>
  BY DEF ChangeConfig, EditAgentEnv, bodies
<1>2. WorldOK BY WorldIs DEF Inv, TypeInv
<1>3. creds' \in 1..MaxVersion /\ complete' \in Completions
  BY <1>2, BackupHostsAssumption DEF ChangeConfig, EditAgentEnv, WorldOK, config
<1>7. own' \in BOOLEAN
  <2>1. own' = own \/ own' = TRUE BY DEF ChangeConfig, EditAgentEnv, bodies
  <2> QED BY <1>2, <2>1 DEF WorldOK
<1>4. WorldOK' BY <1>1, <1>2, <1>3, <1>7 DEF WorldOK, units, service, installs, backup
<1>5. EnvDisk /\ EnvUnits BY <1>1 DEF EnvDisk, EnvUnits, units
<1>6. RestartRunsTheInstall' BY <1>1 DEF Inv, RestartRunsTheInstall, CutShort, units, service, installs
<1>8. creds' = creds \/ (creds' = creds + 1 /\ cmd.kind = "none")
  BY DEF ChangeConfig, EditAgentEnv, config
<1> QED BY <1>1, <1>4, <1>5, <1>6, <1>8, EnvironmentKeeps DEF units

LEMMA MountCaKeeps == ASSUME Inv, MountCa PROVE Inv'
<1>1. UNCHANGED <<config, bodies, sops, units, backup, cmd, outcome, commands>> BY DEF MountCa
<1>2. WorldOK BY WorldIs DEF Inv, TypeInv
<1>3. disk[AppCa] = 0 /\ disk' = [disk EXCEPT ![AppCa] = -1] BY DEF MountCa
<1>4. WorldOK' BY <1>1, <1>2, <1>3 DEF WorldOK, config, bodies, units, service, installs, backup
<1>5. EnvDisk BY <1>2, <1>3 DEF EnvDisk, WorldOK
<1>6. EnvUnits BY <1>1 DEF EnvUnits, units
<1>8. RestartRunsTheInstall' BY <1>1 DEF Inv, RestartRunsTheInstall, CutShort, units, service, installs
<1> QED BY <1>1, <1>4, <1>5, <1>6, <1>8, EnvironmentKeeps DEF units, config

LEMMA AgentStartEnv ==
  ASSUME TypeInv, WorldOK, NEW unit \in Versions, AgentLaunches(unit)
  PROVE  EnvDisk
BY AgentLaunchesIs DEF EnvDisk

LEMMA RebootAppKeeps == ASSUME Inv, RebootApp PROVE Inv'
<1>1. UNCHANGED <<config, bodies, sops, exec, enabled, installs, backup, cmd, commands>> /\ outcome' = NoOutcome
  BY DEF RebootApp
<1>2. WorldOK /\ TypeInv BY WorldIs DEF Inv, TypeInv
<1>3. loaded' = ReadUnits(HostOf("agent")) BY DEF RebootApp
<1>4. /\ loaded' \in [Units -> Versions]
      /\ \A u \in Units : loaded'[u] \in {loaded[u], disk[<<u, "unit">>]}
  BY <1>2, <1>3, ReadUnitsIs
<1>5. EnvDisk /\ disk' \in [Files -> Versions \cup {-1}]
              /\ agent' \in [Parts -> Versions \cup {-1}] /\ wanted' \in BOOLEAN
  <2>1. CASE "agent" \in enabled
    <3> DEFINE unit == loaded'["agent"]
    <3>1. unit \in Versions BY <1>4 DEF Units
    <3>2. PICK v \in Versions : v = unit BY <3>1
    <3>3. AgentLaunches(v) BY <2>1, <3>2 DEF RebootApp
    <3> QED BY <1>2, <3>3, AgentStartEnv, AgentLaunchesIs
  <2>2. CASE "agent" \notin enabled
    <3>1. agent' = NoAgent /\ wanted' = FALSE /\ disk' = disk BY <2>2 DEF RebootApp
    <3>2. 0 \in Versions BY BackupHostsAssumption DEF Versions
    <3>3. NoAgent \in [Parts -> Versions \cup {-1}] BY <3>2 DEF NoAgent, Parts
    <3> QED BY <1>2, <3>1, <3>3 DEF EnvDisk, WorldOK
  <2> QED BY <2>1, <2>2
<1>6. WorldOK' BY <1>1, <1>2, <1>4, <1>5 DEF WorldOK, config, bodies, backup, installs
<1>7. EnvUnits BY <1>4 DEF EnvUnits
<1> QED BY <1>1, <1>5, <1>6, <1>7, NoOutcomeSays, EnvironmentKeeps DEF config

LEMMA RebootBackupKeeps == ASSUME Inv, RebootBackup PROVE Inv'
<1>1. /\ UNCHANGED <<config, bodies, sops, disk, exec, enabled, service, installs, reported, cmd, commands>>
      /\ outcome' = NoOutcome
  BY DEF RebootBackup
<1>2. WorldOK /\ TypeInv BY WorldIs DEF Inv, TypeInv
<1>3. loaded' = ReadUnits(HostOf("offsite")) BY DEF RebootBackup
<1>4. /\ loaded' \in [Units -> Versions]
      /\ \A u \in Units : loaded'[u] \in {loaded[u], disk[<<u, "unit">>]}
  BY <1>2, <1>3, ReadUnitsIs
<1>5. /\ garage'.log \in {"none", "json-file", "local"}
      /\ daemon' \in [running : {"json-file", "local"}, file : {"json-file", "local"}]
  BY <1>2, RestartedIs DEF RebootBackup
<1>6. WorldOK' BY <1>1, <1>2, <1>4, <1>5 DEF WorldOK, config, bodies, service, installs
<1>7. EnvDisk /\ EnvUnits BY <1>1, <1>4 DEF EnvDisk, EnvUnits
<1> QED BY <1>1, <1>6, <1>7, NoOutcomeSays, EnvironmentKeeps DEF config

LEMMA AgentFailsKeeps == ASSUME Inv, AgentFails PROVE Inv'
<1>1. UNCHANGED <<config, bodies, sops, exec, loaded, enabled, installs, backup, cmd, outcome, commands>>
  BY DEF AgentFails
<1>2. WorldOK /\ TypeInv BY WorldIs DEF Inv, TypeInv
<1> DEFINE unit == loaded["agent"]
<1>3. unit \in Versions /\ AgentLaunches(unit) BY <1>2, UnitOfAgent DEF AgentFails
<1>4. unit = loaded'["agent"] BY <1>1
<1> HIDE DEF unit
<1>5. /\ disk' \in [Files -> Versions \cup {-1}]
      /\ agent' \in [Parts -> Versions \cup {-1}] /\ wanted' \in BOOLEAN
      /\ \/ agent' = NoAgent
         \/ agent'["env"] = disk'[AgentFile("env")] /\ agent'["script"] = disk'[AgentFile("script")]
            /\ agent'["unit"] = unit
  BY <1>2, <1>3, AgentLaunchesIs
<1>6. EnvDisk BY <1>2, <1>3, AgentStartEnv
<1>7. EnvUnits BY <1>1 DEF EnvUnits
<1>8. WorldOK' BY <1>1, <1>2, <1>5 DEF WorldOK, config, bodies, backup, installs
<1>9. Fresh' BY <1>4, <1>5 DEF Fresh, AgentFile, NoAgent
<1> QED BY <1>1, <1>6, <1>7, <1>8, <1>9, EnvironmentKeeps DEF config

LEMMA EnvironmentStepKeeps == ASSUME Inv, Environment PROVE Inv'
BY ConfigKeeps, MountCaKeeps, RebootAppKeeps, RebootBackupKeeps, AgentFailsKeeps DEF Environment

----------------------------------------------------------------------------
(* A command begins: what its plan has to be.                              *)

LEMMA BeginKeeps ==
  ASSUME Inv, NEW kind \in Kinds,
         cmd.kind = "none", commands < MaxCommands, commands' = commands + 1,
         cmd' \in CommandSet, cmd'.kind = kind, kind # "none", cmd'.todo # <<>>, outcome' = NoOutcome,
         UNCHANGED <<config, bodies, sops, disk, exec, loaded, enabled, service, wrote, backup>>,
         torn \subseteq torn', torn' \subseteq Units \cup {"agent-local"},
         \A j \in Left' : StepOK(cmd.todo[j])',
         EnableSteps', CaSteps', SecretSteps', AgentSteps', KindOK'
  PROVE  Inv'
<1> USE DEF Inv, TypeInv
<1>1. TypeOK'
  <2>1. WorldOK BY WorldIs
  <2>2. WorldOK' BY <2>1 DEF WorldOK, config, bodies, backup, service, installs
  <2>3. commands' \in 0..MaxCommands BY BackupHostsAssumption DEF TypeOK
  <2>4. cmd'.kind \in Kinds \cup {"none"} /\ outcome'.kind \in Kinds \cup {"none"} BY DEF NoOutcome
  <2> QED BY <2>2, <2>3, <2>4 DEF TypeOK, WorldOK
<1>2. CommandOK' BY DEF CommandOK
<1>3. Latest' = Latest + 1 /\ Latest \in Nat BY NumbersAre DEF Latest
<1>4. FileOK' BY <1>3, NumbersAre DEF FileOK
<1>5. EnableOK' BY DEF EnableOK
<1>6. EnabledJobsAreWhole' BY DEF EnabledJobsAreWhole
<1>7. CaOK' BY DEF CaOK, TlsOK, AppNeverAhead
<1>8. TornOK'
  <2>1. \A p : CutShort(p) => CutShort(p)' BY DEF CutShort
  <2>2. creds' = creds /\ wrote' = wrote /\ disk' = disk /\ loaded' = loaded BY DEF config
  <2> QED BY <2>1, <2>2 DEF TornOK, PartsOK, AgentFile
<1> QED BY <1>1, <1>2, <1>4, <1>5, <1>6, <1>7, <1>8, NoOutcomeSays

(* The steps of the plans are steps.                                       *)
LEMMA StepIs ==
  ASSUME NEW op \in Ops, NEW at \in Places, NEW v \in Nat
  PROVE  /\ Step(op, at, v) \in StepSet
         /\ Step(op, at, v).op = op /\ Step(op, at, v).at = at /\ Step(op, at, v).v = v
BY DEF Step, StepSet

LEMMA PlacesAre ==
  /\ Files \subseteq Places /\ Units \subseteq Places /\ Timers \subseteq Places
  /\ BOOLEAN \subseteq Places /\ Databases \subseteq Places
  /\ "tls" \in Places /\ "stack" \in Places /\ <<>> \in Places
BY DEF Places, Units

LEMMA OneMore ==
  ASSUME NEW S, NEW s \in Seq(S), NEW q \in Seq(S), Len(q) = Len(s) + 1,
         \A i \in 1..Len(s) : q[i] = s[i]
  PROVE  s \o <<q[Len(q)]>> = q
<1> DEFINE e == q[Len(q)]
<1>1. Len(s) \in Nat /\ Len(q) \in Nat /\ e \in S BY ElementOfSeq
<1> HIDE DEF e
<1>2. <<e>> \in Seq(S) /\ Len(<<e>>) = 1 /\ <<e>>[1] = e BY <1>1
<1>3. /\ s \o <<e>> \in Seq(S) /\ Len(s \o <<e>>) = Len(s) + 1
      /\ \A i \in 1..Len(s) + 1 : (s \o <<e>>)[i] = IF i <= Len(s) THEN s[i] ELSE <<e>>[i - Len(s)]
  BY <1>2, ConcatProperties
<1>4. \A i \in 1..Len(q) : q[i] = (s \o <<e>>)[i]
  <2> TAKE i \in 1..Len(q)
  <2>1. CASE i <= Len(s) BY <1>1, <1>3, <2>1
  <2>2. CASE ~(i <= Len(s))
    <3>1. i = Len(q) /\ i - Len(s) = 1 /\ i \in 1..Len(s) + 1 BY <1>1, <2>2
    <3> QED BY <1>2, <1>3, <2>2, <3>1 DEF e
  <2> QED BY <2>1, <2>2
<1>5. s \o <<e>> = q BY <1>3, <1>4, SeqEqual
<1> QED BY <1>5 DEF e

LEMMA Plans ==
  ASSUME NEW a, NEW b, NEW c, NEW d, NEW e, NEW f
  PROVE  /\ <<a, b, c, d>> \o <<>> = <<a, b, c, d>>
         /\ <<a, b, c, d>> \o <<e>> = <<a, b, c, d, e>>
         /\ <<a, b, c, d, e>> \o <<>> = <<a, b, c, d, e>>
         /\ <<a, b, c, d, e>> \o <<f>> = <<a, b, c, d, e, f>>
<1> DEFINE S == {a, b, c, d, e, f}
<1>1. <<a, b, c, d>> \o <<>> = <<a, b, c, d>> OBVIOUS
<1>2. <<a, b, c, d, e>> \o <<>> = <<a, b, c, d, e>> OBVIOUS
<1>3. <<a, b, c, d>> \o <<e>> = <<a, b, c, d, e>>
  <2> DEFINE s == <<a, b, c, d>>
             q == <<a, b, c, d, e>>
  <2>1. s \in Seq(S) /\ q \in Seq(S) /\ Len(s) = 4 /\ Len(q) = 5 /\ q[5] = e OBVIOUS
  <2>4. Len(q) = Len(s) + 1 /\ \A i \in 1..Len(s) : q[i] = s[i] OBVIOUS
  <2> HIDE DEF s, q, S
  <2>3. s \o <<q[Len(q)]>> = q BY <2>1, <2>4, OneMore
  <2> QED BY <2>1, <2>3 DEF s, q
<1>4. <<a, b, c, d, e>> \o <<f>> = <<a, b, c, d, e, f>>
  <2> DEFINE s == <<a, b, c, d, e>>
             q == <<a, b, c, d, e, f>>
  <2>1. s \in Seq(S) /\ q \in Seq(S) /\ Len(s) = 5 /\ Len(q) = 6 /\ q[6] = f OBVIOUS
  <2>4. Len(q) = Len(s) + 1 /\ \A i \in 1..Len(s) : q[i] = s[i] OBVIOUS
  <2> HIDE DEF s, q, S
  <2>3. s \o <<q[Len(q)]>> = q BY <2>1, <2>4, OneMore
  <2> QED BY <2>1, <2>3 DEF s, q
<1> QED BY <1>1, <1>2, <1>3, <1>4

(* What has nothing to do with the authority, nor with the unit of the     *)
(* agent, nor with timers, has nothing to keep to.                         *)
LEMMA NothingToKeep ==
  /\ (\A j \in Left', f \in CaFiles : ~Writes(cmd'.todo[j], f)) => CaSteps' /\ SecretSteps'
  /\ (\A j \in Left', f \in AgentFiles : ~Writes(cmd'.todo[j], f)) /\ cmd'.kind \notin {"agent", "agent-local"}
        => AgentSteps'
  /\ (\A j \in Left' : cmd'.todo[j].op = "enable" => cmd'.todo[j].at \notin Timers) => EnableSteps'
  /\ cmd'.kind # "restart" => KindOK'
<1>1. ASSUME \A j \in Left', f \in CaFiles : ~Writes(cmd'.todo[j], f) PROVE CaSteps' /\ SecretSteps'
  <2>1. AppCa \in CaFiles BY DEF CaFiles
  <2> QED BY <1>1, <2>1 DEF CaSteps, SecretSteps, Writes
<1>2. ASSUME \A j \in Left', f \in AgentFiles : ~Writes(cmd'.todo[j], f),
             cmd'.kind \notin {"agent", "agent-local"}
      PROVE  AgentSteps'
  <2>1. Covered' = {} BY <1>2 DEF Covered
  <2>2. \A j \in Left', p \in Parts : ~Writes(cmd'.todo[j], AgentFile(p)) BY <1>2 DEF AgentFiles
  <2> QED BY <2>1, <2>2 DEF AgentSteps, Writes, AgentFile
<1>3. ASSUME \A j \in Left' : cmd'.todo[j].op = "enable" => cmd'.todo[j].at \notin Timers
      PROVE  EnableSteps'
  BY <1>3 DEF EnableSteps
<1> QED BY <1>1, <1>2, <1>3 DEF KindOK

(* A command starts from nothing.                                          *)
LEMMA BeginsIs ==
  ASSUME Inv
  PROVE  /\ TypeInv /\ WorldOK /\ Latest' = MaxVersion + commands' /\ Latest = MaxVersion + commands
         /\ Latest \in Nat /\ MaxVersion \in Nat
         /\ creds \in 1..MaxVersion /\ creds \in Nat /\ commands \in Nat
         /\ sops.tls \in Int /\ sops.tls <= Latest /\ sops.stack \in Int /\ sops.stack <= Latest
<1>1. TypeInv /\ TypeOK BY DEF Inv, TypeInv
<1>2. \A x \in {"tls", "stack"} : sops[x] \in Int /\ sops[x] <= Latest
  BY <1>1, NumbersAre DEF TypeInv, FileOK
<1> QED BY <1>1, <1>2, WorldIs, NumbersAre DEF Latest, WorldOK

LEMMA ControlAgentKeeps == ASSUME Inv, ControlAgent PROVE Inv'
<1>1. PICK kind \in {"enable", "disable", "restart"} :
        Begins(kind, <<Step(kind, "agent", 0)>>) /\ UNCHANGED torn
  BY DEF ControlAgent
<1> DEFINE s == Step(kind, "agent", 0)
<1>2. s \in StepSet /\ s.op = kind /\ s.at = "agent"
  <2>1. kind \in Ops /\ "agent" \in Places /\ 0 \in Nat BY PlacesAre DEF Ops, Units
  <2> QED BY <2>1, StepIs
<1> HIDE DEF s
<1>3. /\ cmd.kind = "none" /\ kind \in Kinds /\ commands < MaxCommands /\ commands' = commands + 1
      /\ cmd' = [kind |-> kind, todo |-> <<s>>] /\ outcome' = NoOutcome
      /\ UNCHANGED <<config, bodies, sops, disk, exec, loaded, enabled, service, wrote, backup>>
  BY <1>1 DEF Begins, s
<1>4. /\ cmd' \in CommandSet /\ cmd'.kind = kind /\ cmd'.todo = <<s>> /\ cmd'.todo # <<>>
      /\ Left' = {1} /\ cmd'.todo[1] = s /\ Len(cmd'.todo) = 1
  BY <1>2, <1>3 DEF CommandSet, Left
<1>5. \A f : ~Writes(s, f) BY <1>2 DEF Writes
<1>6. \A j \in Left' : StepOK(cmd.todo[j])' BY <1>2, <1>4, <1>5 DEF StepOK, Writes
<1>7. CaSteps' /\ SecretSteps' /\ AgentSteps' BY <1>4, <1>5, NothingToKeep
<1>8. EnableSteps' BY <1>2, <1>4, NothingToKeep DEF Timers
<1>9. KindOK' BY <1>2, <1>4 DEF KindOK
<1>10. torn \subseteq torn' /\ torn' \subseteq Units \cup {"agent-local"} BY <1>1, BeginsIs DEF WorldOK
<1> QED BY <1>3, <1>4, <1>6, <1>7, <1>8, <1>9, <1>10, BeginKeeps

LEMMA ApplyLoggingKeeps == ASSUME Inv, ApplyLogging PROVE Inv'
<1>1. Begins("logging", LoggingPlan) /\ UNCHANGED torn BY DEF ApplyLogging
<1> DEFINE s1 == Step("daemon", <<>>, 0)
           s2 == Step("dockerd", <<>>, 0)
           s3 == Step("probe", <<>>, 0)
<1>2. /\ s1 \in StepSet /\ s2 \in StepSet /\ s3 \in StepSet
      /\ s1.op = "daemon" /\ s2.op = "dockerd" /\ s3.op = "probe"
  <2>1. {"daemon", "dockerd", "probe"} \subseteq Ops /\ <<>> \in Places /\ 0 \in Nat
    BY PlacesAre DEF Ops
  <2> QED BY <2>1, StepIs
<1>3. LoggingPlan = <<s1, s2, s3>> BY DEF LoggingPlan
<1> HIDE DEF s1, s2, s3
<1>4. /\ cmd.kind = "none" /\ "logging" \in Kinds /\ commands < MaxCommands /\ commands' = commands + 1
      /\ cmd' = [kind |-> "logging", todo |-> <<s1, s2, s3>>] /\ outcome' = NoOutcome
      /\ UNCHANGED <<config, bodies, sops, disk, exec, loaded, enabled, service, wrote, backup>>
  BY <1>1, <1>3 DEF Begins
<1>5. /\ cmd' \in CommandSet /\ cmd'.kind = "logging" /\ cmd'.todo # <<>>
      /\ Left' = 1..3 /\ cmd'.todo[1] = s1 /\ cmd'.todo[2] = s2 /\ cmd'.todo[3] = s3 /\ Len(cmd'.todo) = 3
  BY <1>2, <1>4 DEF CommandSet, Left
<1>6. \A j \in Left' : cmd'.todo[j] \in {s1, s2, s3} BY <1>5
<1>7. \A j \in Left' : cmd'.todo[j].op \in {"daemon", "dockerd", "probe"} BY <1>2, <1>6
<1>8. \A j \in Left', f \in Files \cup CaFiles \cup AgentFiles : ~Writes(cmd'.todo[j], f) BY <1>7 DEF Writes
<1>9. \A j \in Left' : StepOK(cmd.todo[j])' BY <1>7, <1>8 DEF StepOK, Writes
<1>10. CaSteps' /\ SecretSteps' /\ AgentSteps' BY <1>5, <1>8, NothingToKeep, FilesAre
<1>11. EnableSteps' BY <1>7, NothingToKeep
<1>12. KindOK' BY <1>5, NothingToKeep
<1>13. torn \subseteq torn' /\ torn' \subseteq Units \cup {"agent-local"} BY <1>1, BeginsIs DEF WorldOK
<1> QED BY <1>4, <1>5, <1>9, <1>10, <1>11, <1>12, <1>13, BeginKeeps

LEMMA CheckLoggingKeeps == ASSUME Inv, CheckLogging PROVE Inv'
<1>1. PICK kind \in {"logging", "logcheck"}, ok \in BOOLEAN, inForce \in BOOLEAN :
        /\ kind \in Kinds /\ cmd.kind = "none" /\ commands < MaxCommands
        /\ commands' = commands + 1 /\ outcome' = [kind |-> kind, ok |-> ok] /\ InForce(inForce)
        /\ UNCHANGED <<config, bodies, sops, disk, units, garage, daemon, cmd>>
  <2>1. PICK kind \in {"logging", "logcheck"}, read \in BOOLEAN, listed \in BOOLEAN :
        /\ kind \in Kinds /\ cmd.kind = "none" /\ commands < MaxCommands
        /\ commands' = commands + 1
        /\ outcome' = [kind |-> kind, ok |-> (DaemonOk /\ read) /\ (listed => Capped)]
        /\ InForce(DaemonOk /\ read)
        /\ UNCHANGED <<config, bodies, sops, disk, units, garage, daemon, cmd>>
    BY DEF CheckLogging
  <2>2. PICK inForce \in BOOLEAN : inForce = (DaemonOk /\ read) BY DEF DaemonOk
  <2>3. PICK ok \in BOOLEAN : ok = ((DaemonOk /\ read) /\ (listed => Capped)) BY DEF DaemonOk
  <2> QED BY <2>1, <2>2, <2>3
<1> USE DEF Inv, TypeInv
<1>2. cmd' = cmd /\ cmd.todo = <<>> /\ Left = {} /\ Left' = {}
  BY <1>1 DEF Left, CommandOK
<1>3. TypeOK'
  <2>1. commands' \in 0..MaxCommands BY <1>1, BackupHostsAssumption DEF TypeOK
  <2>2. outcome'.kind \in Kinds \cup {"none"} BY <1>1
  <2>4. reported' \in {"nothing", "capped", "uncapped"} BY <1>1, WorldIs, ReportIs
  <2>3. WorldOK' BY <1>1, <2>4, WorldIs DEF WorldOK, config, bodies, units, service, installs
  <2> QED BY <1>2, <2>1, <2>2, <2>3 DEF TypeOK, WorldOK
<1>4. CommandOK' BY <1>1, <1>2 DEF CommandOK
<1>5. Latest' = Latest + 1 /\ Latest \in Nat BY <1>1, NumbersAre DEF Latest
<1>6. FileOK' BY <1>1, <1>5, NumbersAre DEF FileOK
<1>7. EnableOK' BY <1>1, <1>2 DEF EnableOK, EnableSteps, units
<1>8. EnabledJobsAreWhole' BY <1>1 DEF EnabledJobsAreWhole, units
<1>9. CaOK' BY <1>1, <1>2 DEF CaOK, TlsOK, CaSteps, SecretSteps, AppNeverAhead
<1>10. TornOK' BY <1>1, <1>2 DEF TornOK, AgentSteps, PartsOK, CutShort, units, installs, config
<1>11. KindOK' BY <1>1, <1>2 DEF KindOK
<1>12. RestartRunsTheInstall' BY <1>1 DEF RestartRunsTheInstall
<1> QED BY <1>3, <1>4, <1>6, <1>7, <1>8, <1>9, <1>10, <1>11, <1>12

LEMMA MakeSecretsKeeps == ASSUME Inv, MakeSecrets PROVE Inv'
<1>1. PICK file \in {"tls", "stack"} :
        Begins(IF file = "tls" THEN "issue" ELSE "bootstrap", WritePlan(file)) /\ UNCHANGED torn
  BY DEF MakeSecrets
<1> DEFINE kind == IF file = "tls" THEN "issue" ELSE "bootstrap"
           s1 == Step("plain", file, 0)
           s2 == Step("encrypt", file, MaxVersion + commands + 1)
<1>2. /\ s1 \in StepSet /\ s2 \in StepSet
      /\ s1.op = "plain" /\ s1.at = file /\ s2.op = "encrypt" /\ s2.at = file
      /\ s2.v = MaxVersion + commands + 1
  <2>1. {"plain", "encrypt"} \subseteq Ops /\ file \in Places /\ 0 \in Nat
    BY PlacesAre DEF Ops
  <2>2. MaxVersion + commands + 1 \in Nat BY BeginsIs
  <2> QED BY <2>1, <2>2, StepIs
<1>3. WritePlan(file) = <<s1, s2>> BY DEF WritePlan
<1>14. kind \in {"issue", "bootstrap"} OBVIOUS
<1> HIDE DEF s1, s2
<1>4. /\ cmd.kind = "none" /\ kind \in Kinds /\ commands < MaxCommands /\ commands' = commands + 1
      /\ cmd' = [kind |-> kind, todo |-> <<s1, s2>>] /\ outcome' = NoOutcome
      /\ UNCHANGED <<config, bodies, sops, disk, exec, loaded, enabled, service, wrote, backup>>
  BY <1>1, <1>3 DEF Begins
<1> HIDE DEF kind
<1>5. /\ cmd' \in CommandSet /\ cmd'.kind = kind /\ cmd'.todo # <<>>
      /\ Left' = 1..2 /\ cmd'.todo[1] = s1 /\ cmd'.todo[2] = s2
  BY <1>2, <1>4 DEF CommandSet, Left
<1>6. \A j \in Left' : cmd'.todo[j] \in {s1, s2} BY <1>5
<1>7. \A j \in Left' : cmd'.todo[j].op \in {"plain", "encrypt"} BY <1>2, <1>6
<1>8. \A j \in Left', f \in Files \cup CaFiles \cup AgentFiles : ~Writes(cmd'.todo[j], f) BY <1>7 DEF Writes
<1>15. Latest' = MaxVersion + commands + 1 BY <1>4, BeginsIs
<1>9. \A j \in Left' : StepOK(cmd.todo[j])'
  <2>1. ASSUME NEW j \in Left' PROVE StepOK(cmd.todo[j])'
    <3>1. cmd'.todo[j].at \in {"tls", "stack"} BY <1>2, <1>6
    <3>2. cmd'.todo[j].op = "encrypt" => cmd'.todo[j].v = Latest' BY <1>2, <1>6, <1>15
    <3> QED BY <1>7, <1>8, <3>1, <3>2 DEF StepOK, Writes
  <2> QED BY <2>1
<1>10. CaSteps' /\ SecretSteps' /\ AgentSteps' BY <1>5, <1>8, <1>14, NothingToKeep, FilesAre
<1>11. EnableSteps' BY <1>7, NothingToKeep
<1>12. KindOK' BY <1>5, <1>14, NothingToKeep DEF kind
<1>13. torn \subseteq torn' /\ torn' \subseteq Units \cup {"agent-local"} BY <1>1, BeginsIs DEF WorldOK
<1>16. kind # "none"  BY DEF kind
<1> QED BY <1>4, <1>5, <1>9, <1>10, <1>11, <1>12, <1>13, <1>16, BeginKeeps

LEMMA RunOffsiteKeeps == ASSUME Inv, RunOffsite PROVE Inv'
<1>1. Begins("offsite-run", OffsiteRunPlan) /\ UNCHANGED torn BY DEF RunOffsite
<1> DEFINE env == <<"offsite", "env">>
           s1 == Step("install", env, creds)
           s2 == Step("start", "offsite", 0)
<1>14. env \in Files /\ env \notin CaFiles /\ env # AgentFile("script") /\ env \notin AgentFiles
  BY FilesAre DEF AgentFile, AgentFiles, Units, Timers, CaFiles, TlsFiles, AppCa
<1>2. /\ s1 \in StepSet /\ s2 \in StepSet
      /\ s1.op = "install" /\ s1.at = env /\ s1.v = creds /\ s2.op = "start"
  <2>1. {"install", "start"} \subseteq Ops /\ env \in Places /\ "offsite" \in Places /\ 0 \in Nat
    BY <1>14, PlacesAre DEF Ops, Timers
  <2> HIDE DEF env
  <2>2. creds \in Nat BY BeginsIs
  <2> QED BY <2>1, <2>2, StepIs
<1>3. OffsiteRunPlan = <<s1, s2>> BY DEF OffsiteRunPlan, OffsiteEnv, Put
<1> HIDE DEF s1, s2, env
<1>4. /\ cmd.kind = "none" /\ "offsite-run" \in Kinds /\ commands < MaxCommands /\ commands' = commands + 1
      /\ cmd' = [kind |-> "offsite-run", todo |-> <<s1, s2>>] /\ outcome' = NoOutcome
      /\ UNCHANGED <<config, bodies, sops, disk, exec, loaded, enabled, service, wrote, backup>>
  BY <1>1, <1>3 DEF Begins
<1>5. /\ cmd' \in CommandSet /\ cmd'.kind = "offsite-run" /\ cmd'.todo # <<>>
      /\ Left' = 1..2 /\ cmd'.todo[1] = s1 /\ cmd'.todo[2] = s2
  BY <1>2, <1>4 DEF CommandSet, Left
<1>6. \A j \in Left' : cmd'.todo[j] \in {s1, s2} BY <1>5
<1>7. \A j \in Left' : cmd'.todo[j].op \in {"install", "start"} BY <1>2, <1>6
<1>8. \A f : (Writes(s1, f) <=> f = env) /\ ~Writes(s2, f) BY <1>2 DEF Writes
<1>15. creds \in 1..Latest' BY <1>4, BeginsIs
<1>9. \A j \in Left' : StepOK(cmd.todo[j])'
  <2>1. ASSUME NEW j \in Left' PROVE StepOK(cmd.todo[j])'
    <3>1. cmd'.todo[j].op = "install" => cmd'.todo[j].at \in Files \ {AgentFile("script")}
      BY <1>2, <1>6, <1>14
    <3>2. \A f \in Files : Writes(cmd'.todo[j], f) => cmd'.todo[j].v \in 1..Latest'
      BY <1>2, <1>6, <1>8, <1>15
    <3> QED BY <1>7, <3>1, <3>2 DEF StepOK, Writes, AgentFile
  <2> QED BY <2>1
<1>10. CaSteps' /\ SecretSteps' /\ AgentSteps' BY <1>5, <1>6, <1>8, <1>14, NothingToKeep
<1>11. EnableSteps' BY <1>7, NothingToKeep
<1>12. KindOK' BY <1>5, NothingToKeep
<1>13. torn \subseteq torn' /\ torn' \subseteq Units \cup {"agent-local"} BY <1>1, BeginsIs DEF WorldOK
<1> QED BY <1>4, <1>5, <1>9, <1>10, <1>11, <1>12, <1>13, BeginKeeps

LEMMA InstallTlsKeeps == ASSUME Inv, InstallTls PROVE Inv'
<1>1. sops.tls > 0 /\ Begins("tls", TlsPlan) /\ UNCHANGED torn BY DEF InstallTls
<1> DEFINE f1 == <<"tls", "ca">>
           f2 == <<"tls", "crt">>
           f3 == <<"tls", "key">>
           s1 == Step("install", f1, sops.tls)
           s2 == Step("install", f2, sops.tls)
           s3 == Step("install", f3, sops.tls)
           s4 == Step("install", AppCa, sops.tls)
<1>2. /\ TlsFiles = {f1, f2, f3} /\ AppCa \notin {f1, f2, f3}
      /\ {f1, f2, f3, AppCa} \subseteq Files \ AgentFiles /\ AgentFile("script") \in AgentFiles
  BY DEF TlsFiles, AppCa, AgentFile, AgentFiles, Files, Parts
<1> HIDE DEF f1, f2, f3
<1>3. sops.tls \in Nat /\ sops.tls \in 1..Latest' BY <1>1, BeginsIs DEF Begins
<1>4. /\ s1 \in StepSet /\ s2 \in StepSet /\ s3 \in StepSet /\ s4 \in StepSet
      /\ s1.op = "install" /\ s1.at = f1 /\ s1.v = sops.tls /\ s2.op = "install" /\ s2.at = f2 /\ s2.v = sops.tls
      /\ s3.op = "install" /\ s3.at = f3 /\ s3.v = sops.tls /\ s4.op = "install" /\ s4.at = AppCa /\ s4.v = sops.tls
  <2>1. "install" \in Ops /\ f1 \in Places /\ f2 \in Places /\ f3 \in Places /\ AppCa \in Places
    BY <1>2, PlacesAre DEF Ops
  <2> QED BY <1>3, <2>1, StepIs
<1>5. TlsPlan = <<s1, s2, s3, s4>> BY DEF TlsPlan, f1, f2, f3
<1> HIDE DEF s1, s2, s3, s4
<1>6. /\ cmd.kind = "none" /\ "tls" \in Kinds /\ commands < MaxCommands /\ commands' = commands + 1
      /\ cmd' = [kind |-> "tls", todo |-> <<s1, s2, s3, s4>>] /\ outcome' = NoOutcome
      /\ UNCHANGED <<config, bodies, sops, disk, exec, loaded, enabled, service, wrote, backup>>
  BY <1>1, <1>5 DEF Begins
<1>7. /\ cmd' \in CommandSet /\ cmd'.kind = "tls" /\ cmd'.todo # <<>> /\ Left' = 1..4
      /\ cmd'.todo[1] = s1 /\ cmd'.todo[2] = s2 /\ cmd'.todo[3] = s3 /\ cmd'.todo[4] = s4
  BY <1>4, <1>6 DEF CommandSet, Left
<1>8. \A j \in Left' : cmd'.todo[j] \in {s1, s2, s3, s4} BY <1>7
<1>9. /\ \A j \in Left' : cmd'.todo[j].op = "install" /\ cmd'.todo[j].v = sops.tls
                          /\ cmd'.todo[j].at \in {f1, f2, f3, AppCa}
  BY <1>4, <1>8
<1>10. \A j \in Left' : \A f : Writes(cmd'.todo[j], f) <=> cmd'.todo[j].at = f BY <1>9 DEF Writes
<1>11. \A j \in Left' : StepOK(cmd.todo[j])'
  <2>1. ASSUME NEW j \in Left' PROVE StepOK(cmd.todo[j])'
    BY <1>2, <1>3, <1>9 DEF StepOK, Writes, AgentFile
  <2> QED BY <2>1
<1>12. CaSteps'
  <2>1. UNCHANGED <<sops, disk>> BY <1>6
  <2>2. \A f \in TlsFiles : \E i \in Left' : i < 4 /\ Writes(cmd'.todo[i], f)
    <3>1. Writes(cmd'.todo[1], f1) /\ Writes(cmd'.todo[2], f2) /\ Writes(cmd'.todo[3], f3)
      BY <1>4, <1>7 DEF Writes
    <3> QED BY <1>2, <1>7, <3>1
  <2>3. \A j \in Left' : Writes(cmd'.todo[j], AppCa) => j = 4
    <3>1. AppCa # f1 /\ AppCa # f2 /\ AppCa # f3 BY <1>2
    <3>2. ~Writes(cmd'.todo[1], AppCa) /\ ~Writes(cmd'.todo[2], AppCa) /\ ~Writes(cmd'.todo[3], AppCa)
      BY <1>4, <1>7, <3>1 DEF Writes
    <3> QED BY <1>7, <3>2
  <2> QED BY <1>1, <1>9, <2>1, <2>2, <2>3 DEF CaSteps, Writes
<1>13. SecretSteps' BY <1>9 DEF SecretSteps
<1>14. AgentSteps' BY <1>2, <1>7, <1>9, <1>10, NothingToKeep
<1>15. EnableSteps' BY <1>9, NothingToKeep
<1>16. KindOK' BY <1>7, NothingToKeep
<1>17. torn \subseteq torn' /\ torn' \subseteq Units \cup {"agent-local"} BY <1>1, BeginsIs DEF WorldOK
<1> QED BY <1>6, <1>7, <1>11, <1>12, <1>13, <1>14, <1>15, <1>16, <1>17, BeginKeeps

LEMMA InstallStackKeeps == ASSUME Inv, InstallStack PROVE Inv'
<1>1. PICK up \in BOOLEAN : sops.stack > 0 /\ Begins("stack", StackPlan(up)) /\ UNCHANGED torn
  BY DEF InstallStack
<1> DEFINE f2 == <<"garage", "compose">>
           f3 == <<"garage", "toml">>
           f4 == <<"garage", "caddy">>
           s1 == Step("require", <<>>, 0)
           s2 == Step("install", f2, sops.stack)
           s3 == Step("install", f3, sops.stack)
           s4 == Step("install", f4, sops.stack)
           s5 == Step("up", <<>>, 0)
<1>2. {f2, f3, f4} \subseteq Files \ (CaFiles \cup AgentFiles) /\ AgentFile("script") \in AgentFiles
  BY DEF TlsFiles, AppCa, AgentFile, AgentFiles, Files, StackFiles, CaFiles, Parts
<1> HIDE DEF f2, f3, f4
<1>3. sops.stack \in Nat /\ sops.stack \in 1..Latest' BY <1>1, BeginsIs DEF Begins
<1>4. /\ s1 \in StepSet /\ s2 \in StepSet /\ s3 \in StepSet /\ s4 \in StepSet /\ s5 \in StepSet
      /\ s1.op = "require" /\ s5.op = "up"
      /\ s2.op = "install" /\ s2.at = f2 /\ s2.v = sops.stack
      /\ s3.op = "install" /\ s3.at = f3 /\ s3.v = sops.stack
      /\ s4.op = "install" /\ s4.at = f4 /\ s4.v = sops.stack
  <2>1. /\ {"require", "install", "up"} \subseteq Ops /\ 0 \in Nat
        /\ f2 \in Places /\ f3 \in Places /\ f4 \in Places /\ <<>> \in Places
    BY <1>2, PlacesAre DEF Ops
  <2> QED BY <1>3, <2>1, StepIs
<1>5. StackPlan(up) = IF up THEN <<s1, s2, s3, s4, s5>> ELSE <<s1, s2, s3, s4>>
  <2>1. StackPlan(up) = <<s1, s2, s3, s4>> \o (IF up THEN <<s5>> ELSE <<>>)
    BY DEF StackPlan, f2, f3, f4
  <2> HIDE DEF s1, s2, s3, s4, s5
  <2> QED BY <2>1, Plans
<1> HIDE DEF s1, s2, s3, s4, s5
<1>6. /\ cmd.kind = "none" /\ "stack" \in Kinds /\ commands < MaxCommands /\ commands' = commands + 1
      /\ cmd' = [kind |-> "stack", todo |-> IF up THEN <<s1, s2, s3, s4, s5>> ELSE <<s1, s2, s3, s4>>]
      /\ outcome' = NoOutcome
      /\ UNCHANGED <<config, bodies, sops, disk, exec, loaded, enabled, service, wrote, backup>>
  BY <1>1, <1>5 DEF Begins
<1>7. /\ cmd' \in CommandSet /\ cmd'.kind = "stack" /\ cmd'.todo # <<>>
      /\ \A j \in Left' : cmd'.todo[j] \in {s1, s2, s3, s4, s5}
  <2>1. CASE up BY <1>4, <1>6, <2>1 DEF CommandSet, Left
  <2>2. CASE ~up BY <1>4, <1>6, <2>2 DEF CommandSet, Left
  <2> QED BY <2>1, <2>2
<1>8. \A j \in Left' : /\ cmd'.todo[j].op \in {"require", "install", "up"}
                       /\ cmd'.todo[j].op = "install" =>
                            cmd'.todo[j].at \in {f2, f3, f4} /\ cmd'.todo[j].v = sops.stack
  BY <1>4, <1>7
<1>9. \A j \in Left' : \A f : Writes(cmd'.todo[j], f) => f \in {f2, f3, f4} /\ cmd'.todo[j].v = sops.stack
  BY <1>8 DEF Writes
<1>10. \A j \in Left' : StepOK(cmd.todo[j])'
  <2>1. ASSUME NEW j \in Left' PROVE StepOK(cmd.todo[j])'
    BY <1>2, <1>3, <1>8, <1>9 DEF StepOK, Writes, AgentFile
  <2> QED BY <2>1
<1>11. CaSteps' /\ SecretSteps' /\ AgentSteps' BY <1>2, <1>7, <1>9, NothingToKeep
<1>12. EnableSteps' BY <1>8, NothingToKeep
<1>13. KindOK' BY <1>7, NothingToKeep
<1>14. torn \subseteq torn' /\ torn' \subseteq Units \cup {"agent-local"} BY <1>1, BeginsIs DEF WorldOK
<1> QED BY <1>6, <1>7, <1>10, <1>11, <1>12, <1>13, <1>14, BeginKeeps

(* The agent, over ssh and on the machine itself.                          *)
LEMMA InstallAgentKeeps == ASSUME Inv, InstallAgent PROVE Inv'
<1>1. PICK read \in BOOLEAN : Begins("agent", AgentPlan(read)) /\ Installs("agent") BY DEF InstallAgent
<1> DEFINE f2 == AgentFile("script")
           f3 == AgentFile("unit")
           s1 == Step("merge", read, creds)
           s2 == Step("tee", f2, creds)
           s3 == Step("tee", f3, creds)
           s4 == Step("reload", <<>>, 0)
<1>2. {f2, f3, AgentFile("env")} \subseteq Files \ CaFiles /\ f2 # f3 /\ f3 # AgentFile("env")
  BY DEF TlsFiles, AppCa, AgentFile, Files, UnitFiles, Parts, Units, CaFiles
<1>3. creds \in Nat /\ creds \in 1..Latest' BY <1>1, BeginsIs DEF Begins
<1>5. AgentPlan(read) = <<s1, s2, s3, s4>>
  BY DEF AgentPlan, AgentEnv, AgentParameters, AgentUnit, Reload, AgentFile
<1> HIDE DEF f2, f3
<1>4. /\ s1 \in StepSet /\ s2 \in StepSet /\ s3 \in StepSet /\ s4 \in StepSet
      /\ s1.op = "merge" /\ s1.at \in BOOLEAN /\ s1.v = creds
      /\ s2.op = "tee" /\ s2.at = f2 /\ s2.v = creds
      /\ s3.op = "tee" /\ s3.at = f3 /\ s3.v = creds /\ s4.op = "reload"
  <2>1. /\ {"merge", "tee", "reload"} \subseteq Ops /\ 0 \in Nat
        /\ f2 \in Places /\ f3 \in Places /\ <<>> \in Places
    BY <1>2, PlacesAre DEF Ops
  <2>2. PICK r \in Places : r = read BY PlacesAre
  <2>3. s1 = Step("merge", r, creds) BY <2>2
  <2>4. s1 \in StepSet /\ s1.op = "merge" /\ s1.at = r /\ s1.v = creds
    <3> HIDE DEF s1
    <3> QED BY <1>3, <2>1, <2>3, StepIs
  <2>5. s1.at \in BOOLEAN BY <2>2, <2>4
  <2> QED BY <1>3, <2>1, <2>4, <2>5, StepIs
<1> HIDE DEF s1, s2, s3, s4
<1>6. /\ cmd.kind = "none" /\ "agent" \in Kinds /\ commands < MaxCommands /\ commands' = commands + 1
      /\ cmd' = [kind |-> "agent", todo |-> <<s1, s2, s3, s4>>] /\ outcome' = NoOutcome
      /\ UNCHANGED <<config, bodies, sops, disk, exec, loaded, enabled, service, wrote, backup>>
  BY <1>1, <1>5 DEF Begins
<1>7. /\ cmd' \in CommandSet /\ cmd'.kind = "agent" /\ cmd'.todo # <<>> /\ Left' = 1..4
      /\ cmd'.todo[1] = s1 /\ cmd'.todo[2] = s2 /\ cmd'.todo[3] = s3 /\ cmd'.todo[4] = s4
  BY <1>4, <1>6 DEF CommandSet, Left
<1>8. \A j \in Left' : cmd'.todo[j] \in {s1, s2, s3, s4} BY <1>7
<1>9. \A f : /\ Writes(s1, f) <=> f = AgentFile("env")
             /\ Writes(s2, f) <=> f = f2
             /\ Writes(s3, f) <=> f = f3
             /\ ~Writes(s4, f)
  BY <1>4 DEF Writes
<1>10. \A j \in Left' : StepOK(cmd.todo[j])'
  <2>1. ASSUME NEW j \in Left' PROVE StepOK(cmd.todo[j])'
    <3>1. /\ cmd'.todo[j].op \in {"merge", "tee", "reload"}
          /\ cmd'.todo[j].op = "tee" => cmd'.todo[j].at \in {f2, f3}
          /\ cmd'.todo[j].op = "merge" => cmd'.todo[j].at \in BOOLEAN
      BY <1>4, <1>8
    <3>2. \A f \in Files : Writes(cmd'.todo[j], f) => cmd'.todo[j].v \in 1..Latest'
      BY <1>3, <1>4, <1>8, <1>9
    <3> QED BY <3>1, <3>2 DEF StepOK, Writes, AgentFile, f2, f3
  <2> QED BY <2>1
<1>11. CaSteps' /\ SecretSteps' BY <1>2, <1>8, <1>9, NothingToKeep
<1>12. AgentSteps'
  <2>1. cmd'.kind \in torn' BY <1>1, <1>7 DEF Installs
  <2>2. \A j \in Left' : cmd'.todo[j].op = "reload" => j = 4 BY <1>4, <1>7
  <2>3. Covered' = {"script", "env", "unit"} BY <1>7 DEF Covered, Parts
  <2>5. \A i \in Left' : ~(i > 4) BY <1>7
  <2>4. \A p \in Covered' : \E k \in Left' : k < 4 /\ Writes(cmd'.todo[k], AgentFile(p))
    <3>1. Writes(cmd'.todo[1], AgentFile("env")) /\ Writes(cmd'.todo[2], AgentFile("script"))
          /\ Writes(cmd'.todo[3], AgentFile("unit"))
      BY <1>7, <1>9 DEF Writes, AgentFile, f2, f3
    <3> QED BY <1>7, <2>3, <3>1
  <2>6. \A j \in Left', p \in Parts : Writes(cmd'.todo[j], AgentFile(p)) =>
            cmd'.todo[j].v = creds /\ p \in Covered'
    <3>1. \A j \in Left' : \A f : Writes(cmd'.todo[j], f) =>
            cmd'.todo[j].v = creds /\ f \in {AgentFile("env"), f2, f3}
      BY <1>4, <1>8, <1>9
    <3> QED BY <2>3, <3>1, AgentFilesAre DEF f2, f3
  <2>7. creds' = creds BY <1>6 DEF config
  <2> QED BY <2>1, <2>2, <2>4, <2>5, <2>6, <2>7 DEF AgentSteps
<1>13. EnableSteps' BY <1>4, <1>8, NothingToKeep
<1>14. KindOK' BY <1>7, NothingToKeep
<1>15. torn \subseteq torn' /\ torn' \subseteq Units \cup {"agent-local"} BY <1>1, BeginsIs DEF WorldOK, Installs, Units
<1> QED BY <1>6, <1>7, <1>10, <1>11, <1>12, <1>13, <1>14, <1>15, BeginKeeps

LEMMA InstallAgentLocallyKeeps == ASSUME Inv, InstallAgentLocally PROVE Inv'
<1>1. PICK read \in BOOLEAN : Begins("agent-local", AgentLocalPlan(read)) /\ Installs("agent-local")
  BY DEF InstallAgentLocally
<1> DEFINE f2 == AgentFile("unit")
           s1 == Step("merge", read, creds)
           s2 == Step("install", f2, creds)
           s3 == Step("reload", <<>>, 0)
<1>2. {f2, AgentFile("env")} \subseteq Files \ CaFiles /\ f2 # AgentFile("script")
  BY DEF TlsFiles, AppCa, AgentFile, Files, UnitFiles, Parts, Units, CaFiles
<1>3. creds \in Nat /\ creds \in 1..Latest' BY <1>1, BeginsIs DEF Begins
<1>5. AgentLocalPlan(read) = <<s1, s2, s3>>
  BY DEF AgentLocalPlan, AgentEnv, AgentUnit, Reload, AgentFile
<1> HIDE DEF f2
<1>4. /\ s1 \in StepSet /\ s2 \in StepSet /\ s3 \in StepSet
      /\ s1.op = "merge" /\ s1.at \in BOOLEAN /\ s1.v = creds
      /\ s2.op = "install" /\ s2.at = f2 /\ s2.v = creds /\ s3.op = "reload"
  <2>1. /\ {"merge", "install", "reload"} \subseteq Ops /\ 0 \in Nat /\ f2 \in Places /\ <<>> \in Places
    BY <1>2, PlacesAre DEF Ops
  <2>2. PICK r \in Places : r = read BY PlacesAre
  <2>3. s1 = Step("merge", r, creds) BY <2>2
  <2>4. s1 \in StepSet /\ s1.op = "merge" /\ s1.at = r /\ s1.v = creds
    <3> HIDE DEF s1
    <3> QED BY <1>3, <2>1, <2>3, StepIs
  <2>5. s1.at \in BOOLEAN BY <2>2, <2>4
  <2> QED BY <1>3, <2>1, <2>4, <2>5, StepIs
<1> HIDE DEF s1, s2, s3
<1>6. /\ cmd.kind = "none" /\ "agent-local" \in Kinds /\ commands < MaxCommands /\ commands' = commands + 1
      /\ cmd' = [kind |-> "agent-local", todo |-> <<s1, s2, s3>>] /\ outcome' = NoOutcome
      /\ UNCHANGED <<config, bodies, sops, disk, exec, loaded, enabled, service, wrote, backup>>
  BY <1>1, <1>5 DEF Begins
<1>7. /\ cmd' \in CommandSet /\ cmd'.kind = "agent-local" /\ cmd'.todo # <<>> /\ Left' = 1..3
      /\ cmd'.todo[1] = s1 /\ cmd'.todo[2] = s2 /\ cmd'.todo[3] = s3
  BY <1>4, <1>6 DEF CommandSet, Left
<1>8. \A j \in Left' : cmd'.todo[j] \in {s1, s2, s3} BY <1>7
<1>9. \A f : /\ Writes(s1, f) <=> f = AgentFile("env")
             /\ Writes(s2, f) <=> f = f2
             /\ ~Writes(s3, f)
  BY <1>4 DEF Writes
<1>10. \A j \in Left' : StepOK(cmd.todo[j])'
  <2>1. ASSUME NEW j \in Left' PROVE StepOK(cmd.todo[j])'
    <3>1. /\ cmd'.todo[j].op \in {"merge", "install", "reload"}
          /\ cmd'.todo[j].op = "install" => cmd'.todo[j].at \in Files \ {AgentFile("script")}
          /\ cmd'.todo[j].op = "merge" => cmd'.todo[j].at \in BOOLEAN
      BY <1>2, <1>4, <1>8
    <3>2. \A f \in Files : Writes(cmd'.todo[j], f) => cmd'.todo[j].v \in 1..Latest'
      BY <1>3, <1>4, <1>8, <1>9
    <3> QED BY <3>1, <3>2 DEF StepOK, Writes, AgentFile
  <2> QED BY <2>1
<1>11. CaSteps' /\ SecretSteps' BY <1>2, <1>8, <1>9, NothingToKeep
<1>12. AgentSteps'
  <2>1. cmd'.kind \in torn' BY <1>1, <1>7 DEF Installs
  <2>2. \A j \in Left' : cmd'.todo[j].op = "reload" => j = 3 BY <1>4, <1>7
  <2>3. Covered' = {"env", "unit"} BY <1>7 DEF Covered, Parts
  <2>5. \A i \in Left' : ~(i > 3) BY <1>7
  <2>4. \A p \in Covered' : \E k \in Left' : k < 3 /\ Writes(cmd'.todo[k], AgentFile(p))
    <3>1. Writes(cmd'.todo[1], AgentFile("env")) /\ Writes(cmd'.todo[2], AgentFile("unit"))
      BY <1>7, <1>9 DEF Writes, AgentFile, f2
    <3> QED BY <1>7, <2>3, <3>1
  <2>6. \A j \in Left', p \in Parts : Writes(cmd'.todo[j], AgentFile(p)) =>
            cmd'.todo[j].v = creds /\ p \in Covered'
    <3>1. \A j \in Left' : \A f : Writes(cmd'.todo[j], f) =>
            cmd'.todo[j].v = creds /\ f \in {AgentFile("env"), f2}
      BY <1>4, <1>8, <1>9
    <3> QED BY <2>3, <3>1, AgentFilesAre DEF f2
  <2>7. creds' = creds BY <1>6 DEF config
  <2> QED BY <2>1, <2>2, <2>4, <2>5, <2>6, <2>7 DEF AgentSteps
<1>13. EnableSteps' BY <1>4, <1>8, NothingToKeep
<1>14. KindOK' BY <1>7, NothingToKeep
<1>15. torn \subseteq torn' /\ torn' \subseteq Units \cup {"agent-local"} BY <1>1, BeginsIs DEF WorldOK, Installs, Units
<1> QED BY <1>6, <1>7, <1>10, <1>11, <1>12, <1>13, <1>14, <1>15, BeginKeeps

(* The plans of the timers: the script, its bit, the environment and the   *)
(* unit in either order, and the timer last.                               *)
TimerPlan(u) ==
    /\ \A j \in Left :
        /\ cmd.todo[j].op \in {"install", "chmod", "dbenv", "reload", "enable"}
        /\ cmd.todo[j].op = "install" =>
            cmd.todo[j].at \in {<<u, "script">>, <<u, "env">>, <<u, "unit">>} /\ cmd.todo[j].v = creds
        /\ cmd.todo[j].op = "dbenv" =>
            u = "pgbr" /\ cmd.todo[j].at \in Databases /\ cmd.todo[j].v = creds
        /\ cmd.todo[j].op \in {"chmod", "enable"} => cmd.todo[j].at = u
        /\ cmd.todo[j].op = "enable" => j = 6
    /\ {1, 2, 3, 4} \subseteq Left
    /\ Writes(cmd.todo[1], <<u, "script">>) /\ cmd.todo[2].op = "chmod"
    /\ \E k \in {3, 4} : Writes(cmd.todo[k], <<u, "env">>)

LEMMA TimerKeeps ==
  ASSUME Inv, NEW u \in Timers, u \in Kinds,
         cmd.kind = "none", commands < MaxCommands, commands' = commands + 1,
         cmd' \in CommandSet, cmd'.kind = u, cmd'.todo # <<>>, outcome' = NoOutcome,
         UNCHANGED <<config, bodies, sops, disk, exec, loaded, enabled, service, wrote, backup>>,
         Installs(u), TimerPlan(u)'
  PROVE  Inv'
<1>1. /\ {<<u, "script">>, <<u, "env">>, <<u, "unit">>} \subseteq Files \ (CaFiles \cup AgentFiles)
      /\ AgentFile("script") \notin {<<u, "script">>, <<u, "env">>, <<u, "unit">>}
      /\ <<u, "env">> # AgentFile("env")
  BY DEF Timers, Files, UnitFiles, Units, CaFiles, TlsFiles, AppCa, AgentFile, AgentFiles, Parts
<1>2. creds' = creds /\ creds \in 1..Latest' BY BeginsIs DEF config
<1>3. \A j \in Left' : cmd'.todo[j].op \in {"install", "chmod", "dbenv", "reload", "enable"}
  BY DEF TimerPlan
<1>4. \A j \in Left' : \A f : Writes(cmd'.todo[j], f) =>
        f \in {<<u, "script">>, <<u, "env">>, <<u, "unit">>} /\ cmd'.todo[j].v = creds
  BY <1>2, <1>3 DEF TimerPlan, Writes
<1>5. ASSUME NEW j \in Left' PROVE StepOK(cmd.todo[j])'
  <2>1. \A f \in Files : Writes(cmd'.todo[j], f) => cmd'.todo[j].v \in 1..Latest' BY <1>2, <1>4
  <2>2. cmd'.todo[j].op = "install" => cmd'.todo[j].at \in Files \ {AgentFile("script")}
    BY <1>1 DEF TimerPlan
  <2>3. cmd'.todo[j].op = "dbenv" => cmd'.todo[j].at \in Databases BY DEF TimerPlan
  <2>4. cmd'.todo[j].op = "chmod" => cmd'.todo[j].at \in Timers BY DEF TimerPlan
  <2> QED BY <1>3, <2>1, <2>2, <2>3, <2>4 DEF StepOK, Writes
<1>11. u \notin {"agent", "agent-local"} BY DEF Timers
<1>6. CaSteps' /\ SecretSteps' /\ AgentSteps' BY <1>1, <1>4, <1>11, NothingToKeep
<1>7. EnableSteps'
  <2>1. SUFFICES ASSUME NEW j \in Left', cmd'.todo[j].op = "enable"
                 PROVE  LET w == cmd.todo[j].at
                        IN (Comes(<<w, "script">>, j) /\ Comes(<<w, "env">>, j) /\ Runnable(w, j))'
    BY DEF EnableSteps
  <2>2. j = 6 /\ cmd'.todo[j].at = u BY <2>1 DEF TimerPlan
  <2>3. \E i \in Left' : i < 6 /\ Writes(cmd'.todo[i], <<u, "script">>)
    <3>1. 1 \in Left' /\ Writes(cmd'.todo[1], <<u, "script">>) BY DEF TimerPlan, Writes
    <3> QED BY <3>1
  <2>4. \E i \in Left' : i < 6 /\ Writes(cmd'.todo[i], <<u, "env">>)
    <3>1. \E k \in {3, 4} : Writes(cmd'.todo[k], <<u, "env">>) BY DEF TimerPlan, Writes
    <3>2. {3, 4} \subseteq Left' BY DEF TimerPlan
    <3> QED BY <3>1, <3>2
  <2>5. \E i \in Left' : i < 6 /\ cmd'.todo[i].op = "chmod" /\ cmd'.todo[i].at = u
    <3>1. 2 \in Left' /\ cmd'.todo[2].op = "chmod" /\ cmd'.todo[2].at = u BY DEF TimerPlan
    <3> QED BY <3>1
  <2> QED BY <2>2, <2>3, <2>4, <2>5 DEF Comes, Runnable, Writes
<1>8. KindOK' BY NothingToKeep DEF Timers
<1>9. torn \subseteq torn' /\ torn' \subseteq Units \cup {"agent-local"} BY BeginsIs DEF WorldOK, Installs, Units
<1>10. u # "none" BY DEF Timers
<1> QED BY <1>5, <1>6, <1>7, <1>8, <1>9, <1>10, BeginKeeps

LEMMA InstallBackupsKeeps == ASSUME Inv, InstallBackups PROVE Inv'
<1> SUFFICES ASSUME NEW u \in {"pgbr", "restic"}, NEW enable \in BOOLEAN, NEW container \in Databases,
                    NEW database \in BOOLEAN, database => u = "pgbr", Installs(u),
                    Begins(u, BackupsPlan(u, IF database THEN PgbrEnv(container) ELSE Put(u, "env"), enable))
             PROVE  Inv'
  <2>1. PICK enable \in BOOLEAN :
        \/ /\ Installs("pgbr")
           /\ \E running \in SUBSET Databases : \E container \in Discovered(running) :
                Begins("pgbr", BackupsPlan("pgbr", PgbrEnv(container), enable))
        \/ /\ Installs("restic")
           /\ Begins("restic", BackupsPlan("restic", Put("restic", "env"), enable))
    BY DEF InstallBackups
  <2>2. ASSUME NEW running \in SUBSET Databases, NEW container \in Discovered(running)
        PROVE  container \in Databases
    BY DEF Discovered, Databases
  <2>3. "own" \in Databases BY DEF Databases
  <2> QED BY <2>1, <2>2, <2>3
<1> DEFINE f1 == <<u, "script">>
           f3 == <<u, "unit">>
           f4 == <<u, "env">>
           s1 == Step("install", f1, creds)
           s2 == Step("chmod", u, 0)
           s3 == Step("install", f3, creds)
           s4 == IF database THEN Step("dbenv", container, creds) ELSE Step("install", f4, creds)
           s5 == Step("reload", <<>>, 0)
           s6 == Step("enable", u, 0)
<1>1. f1 \in Files /\ f3 \in Files /\ f4 \in Files /\ u \in Timers
  BY DEF Files, UnitFiles, Parts, Units, Timers
<1>2. BackupsPlan(u, IF database THEN PgbrEnv(container) ELSE Put(u, "env"), enable) =
        IF enable THEN <<s1, s2, s3, s4, s5, s6>> ELSE <<s1, s2, s3, s4, s5>>
  <2>1. BackupsPlan(u, IF database THEN PgbrEnv(container) ELSE Put(u, "env"), enable) =
          <<s1, s2, s3, s4, s5>> \o (IF enable THEN <<s6>> ELSE <<>>)
    BY DEF BackupsPlan, PgbrEnv, Put, UnitFile, Reload, Enabling, EnableTimer
  <2> HIDE DEF s1, s2, s3, s4, s5, s6
  <2> QED BY <2>1, Plans, ZenonT(60)
<1>3. /\ s1 \in StepSet /\ s2 \in StepSet /\ s3 \in StepSet /\ s4 \in StepSet /\ s5 \in StepSet /\ s6 \in StepSet
      /\ s1.op = "install" /\ s1.at = f1 /\ s1.v = creds
      /\ s2.op = "chmod" /\ s2.at = u
      /\ s3.op = "install" /\ s3.at = f3 /\ s3.v = creds
      /\ s4.op = (IF database THEN "dbenv" ELSE "install") /\ s4.v = creds
      /\ s4.at = (IF database THEN container ELSE f4)
      /\ s5.op = "reload" /\ s6.op = "enable" /\ s6.at = u
  <2> HIDE DEF f1, f3, f4
  <2>1. /\ {"install", "chmod", "dbenv", "reload", "enable"} \subseteq Ops /\ 0 \in Nat /\ creds \in Nat
        /\ f1 \in Places /\ f3 \in Places /\ f4 \in Places /\ u \in Places /\ container \in Places /\ <<>> \in Places
    BY <1>1, PlacesAre, BeginsIs DEF Ops
  <2>2. s4 \in StepSet /\ s4.op = (IF database THEN "dbenv" ELSE "install") /\ s4.v = creds
        /\ s4.at = (IF database THEN container ELSE f4)
    <3>1. CASE database
      <4>1. s4 = Step("dbenv", container, creds) BY <3>1
      <4> HIDE DEF s4
      <4> QED BY <2>1, <3>1, <4>1, StepIs
    <3>2. CASE ~database BY <2>1, <3>2, StepIs
    <3> QED BY <3>1, <3>2
  <2>3. s1 \in StepSet /\ s1.op = "install" /\ s1.at = f1 /\ s1.v = creds BY <2>1, StepIs
  <2>4. s2 \in StepSet /\ s2.op = "chmod" /\ s2.at = u BY <2>1, StepIs
  <2>5. s3 \in StepSet /\ s3.op = "install" /\ s3.at = f3 /\ s3.v = creds BY <2>1, StepIs
  <2>6. s5 \in StepSet /\ s5.op = "reload" BY <2>1 DEF Step, StepSet
  <2>7. s6 \in StepSet /\ s6.op = "enable" /\ s6.at = u BY <2>1, StepIs
  <2> HIDE DEF s1, s2, s3, s4, s5, s6
  <2> QED BY <2>2, <2>3, <2>4, <2>5, <2>6, <2>7
<1> HIDE DEF s1, s2, s3, s4, s5, s6
<1>4. /\ cmd.kind = "none" /\ u \in Kinds /\ commands < MaxCommands /\ commands' = commands + 1
      /\ cmd' = [kind |-> u, todo |-> IF enable THEN <<s1, s2, s3, s4, s5, s6>> ELSE <<s1, s2, s3, s4, s5>>]
      /\ outcome' = NoOutcome
      /\ UNCHANGED <<config, bodies, sops, disk, exec, loaded, enabled, service, wrote, backup>>
  BY <1>2 DEF Begins
<1>5. /\ cmd' \in CommandSet /\ cmd'.kind = u /\ cmd'.todo # <<>> /\ {1, 2, 3, 4} \subseteq Left'
      /\ cmd'.todo[1] = s1 /\ cmd'.todo[2] = s2 /\ cmd'.todo[4] = s4
      /\ \A j \in Left' : cmd'.todo[j] \in {s1, s2, s3, s4, s5} \/ (j = 6 /\ cmd'.todo[j] = s6)
  <2>1. CASE enable BY <1>3, <1>4, <2>1 DEF CommandSet, Left
  <2>2. CASE ~enable BY <1>3, <1>4, <2>2 DEF CommandSet, Left
  <2> QED BY <2>1, <2>2
<1>6. creds' = creds BY <1>4 DEF config
<1>7. TimerPlan(u)'
  <2>1. Writes(s1, f1) /\ Writes(s4, f4) BY <1>3 DEF Writes
  <2>2. Writes(cmd.todo[1], f1)' /\ Writes(cmd.todo[4], f4)' BY <1>5, <2>1 DEF Writes
  <2>3. ASSUME NEW j \in Left'
        PROVE  /\ cmd'.todo[j].op \in {"install", "chmod", "dbenv", "reload", "enable"}
               /\ cmd'.todo[j].op = "install" => cmd'.todo[j].at \in {f1, f4, f3} /\ cmd'.todo[j].v = creds
               /\ cmd'.todo[j].op = "dbenv" =>
                    u = "pgbr" /\ cmd'.todo[j].at \in Databases /\ cmd'.todo[j].v = creds
               /\ cmd'.todo[j].op \in {"chmod", "enable"} => cmd'.todo[j].at = u
               /\ cmd'.todo[j].op = "enable" => j = 6
    BY <1>3, <1>5
  <2> QED BY <1>3, <1>5, <1>6, <2>2, <2>3 DEF TimerPlan
<1> QED BY <1>1, <1>4, <1>5, <1>7, TimerKeeps

LEMMA InstallOffsiteKeeps == ASSUME Inv, InstallOffsite PROVE Inv'
<1>0. PICK enable \in BOOLEAN : Begins("offsite", OffsitePlan(enable)) /\ Installs("offsite")
  BY DEF InstallOffsite
<1> DEFINE u == "offsite"
           f1 == <<u, "script">>
           f3 == <<u, "env">>
           f4 == <<u, "unit">>
           s1 == Step("install", f1, creds)
           s2 == Step("chmod", u, 0)
           s3 == Step("install", f3, creds)
           s4 == Step("install", f4, creds)
           s5 == Step("reload", <<>>, 0)
           s6 == Step("enable", u, 0)
<1>1. f1 \in Files /\ f3 \in Files /\ f4 \in Files /\ u \in Timers
  BY DEF Files, UnitFiles, Parts, Units, Timers
<1>2. OffsitePlan(enable) =
        IF enable THEN <<s1, s2, s3, s4, s5, s6>> ELSE <<s1, s2, s3, s4, s5>>
  <2>1. OffsitePlan(enable) = <<s1, s2, s3, s4, s5>> \o (IF enable THEN <<s6>> ELSE <<>>)
    BY DEF OffsitePlan, OffsiteEnv, Put, UnitFile, Reload, Enabling, EnableTimer
  <2> HIDE DEF s1, s2, s3, s4, s5, s6
  <2> QED BY <2>1, Plans
<1>3. /\ s1 \in StepSet /\ s2 \in StepSet /\ s3 \in StepSet /\ s4 \in StepSet /\ s5 \in StepSet /\ s6 \in StepSet
      /\ s1.op = "install" /\ s1.at = f1 /\ s1.v = creds
      /\ s2.op = "chmod" /\ s2.at = u
      /\ s3.op = "install" /\ s3.at = f3 /\ s3.v = creds
      /\ s4.op = "install" /\ s4.at = f4 /\ s4.v = creds
      /\ s5.op = "reload" /\ s6.op = "enable" /\ s6.at = u
  <2> HIDE DEF f1, f3, f4
  <2>1. /\ {"install", "chmod", "reload", "enable"} \subseteq Ops /\ 0 \in Nat /\ creds \in Nat
        /\ f1 \in Places /\ f3 \in Places /\ f4 \in Places /\ u \in Places /\ <<>> \in Places
    BY <1>1, PlacesAre, BeginsIs DEF Ops
  <2> QED BY <2>1, StepIs
<1> HIDE DEF s1, s2, s3, s4, s5, s6
<1>4. /\ cmd.kind = "none" /\ u \in Kinds /\ commands < MaxCommands /\ commands' = commands + 1
      /\ cmd' = [kind |-> u, todo |-> IF enable THEN <<s1, s2, s3, s4, s5, s6>> ELSE <<s1, s2, s3, s4, s5>>]
      /\ outcome' = NoOutcome
      /\ UNCHANGED <<config, bodies, sops, disk, exec, loaded, enabled, service, wrote, backup>>
  BY <1>0, <1>2 DEF Begins
<1>5. /\ cmd' \in CommandSet /\ cmd'.kind = u /\ cmd'.todo # <<>> /\ {1, 2, 3, 4} \subseteq Left'
      /\ cmd'.todo[1] = s1 /\ cmd'.todo[2] = s2 /\ cmd'.todo[3] = s3
      /\ \A j \in Left' : cmd'.todo[j] \in {s1, s2, s3, s4, s5} \/ (j = 6 /\ cmd'.todo[j] = s6)
  <2>1. CASE enable BY <1>3, <1>4, <2>1 DEF CommandSet, Left
  <2>2. CASE ~enable BY <1>3, <1>4, <2>2 DEF CommandSet, Left
  <2> QED BY <2>1, <2>2
<1>6. creds' = creds BY <1>4 DEF config
<1>7. TimerPlan(u)'
  <2>1. Writes(s1, f1) /\ Writes(s3, f3) BY <1>3 DEF Writes
  <2>2. Writes(cmd.todo[1], f1)' /\ Writes(cmd.todo[3], f3)' BY <1>5, <2>1 DEF Writes
  <2>3. ASSUME NEW j \in Left'
        PROVE  /\ cmd'.todo[j].op \in {"install", "chmod", "reload", "enable"}
               /\ cmd'.todo[j].op = "install" => cmd'.todo[j].at \in {f1, f3, f4} /\ cmd'.todo[j].v = creds
               /\ cmd'.todo[j].op \in {"chmod", "enable"} => cmd'.todo[j].at = u
               /\ cmd'.todo[j].op = "enable" => j = 6
    BY <1>3, <1>5
  <2> QED BY <1>3, <1>5, <1>6, <2>2, <2>3 DEF TimerPlan
<1> QED BY <1>0, <1>1, <1>4, <1>5, <1>7, TimerKeeps

----------------------------------------------------------------------------
(* The beginning, and the theorems.                                        *)

LEMMA InitHolds == Init => Inv
<1> SUFFICES ASSUME Init PROVE Inv OBVIOUS
<1>1. PICK old \in {0, 1}, up \in {0, 1} :
        /\ sops = [tls |-> old, stack |-> old]
        /\ disk = [f \in Files |-> old] /\ loaded = [u \in Units |-> old]
        /\ exec = {u \in Timers : old = 1} /\ enabled = {u \in Units : old = 1}
        /\ agent = [env |-> old, script |-> old, unit |-> old] /\ wanted = (old = 1)
        /\ wrote = [p \in Parts |-> old]
        /\ db = IF old = 0 THEN "none" ELSE "own"
        /\ garage = IF up = 0 THEN NoGarage ELSE [toml |-> 1, crt |-> 1, key |-> 1, log |-> "json-file"]
  BY DEF Init
<1>2. /\ creds = 1 /\ complete \in Completions /\ own = FALSE /\ torn = {} /\ reported = "nothing"
      /\ daemon = [running |-> "json-file", file |-> "json-file"]
      /\ cmd = Idle /\ outcome = NoOutcome /\ commands = 0
  BY DEF Init
<1>3. /\ old \in Versions /\ old \in Nat /\ MaxVersion \in Nat \ {0} /\ MaxCommands \in Nat
  BY BackupHostsAssumption DEF Versions
<1>4. /\ cmd \in CommandSet /\ cmd.todo = <<>> /\ cmd.kind = "none" /\ Left = {}
  BY <1>2, IdleIsCommand DEF Left, Idle
<1>5. WorldOK
  <2>1. creds \in 1..MaxVersion BY <1>2, <1>3
  <2>9. own \in BOOLEAN BY <1>2
  <2>2. db \in {"none"} \cup Databases BY <1>1 DEF Databases
  <2>3. sops \in [{"tls", "stack"} -> Versions \cup {-1}] BY <1>1, <1>3
  <2>4. disk \in [Files -> Versions \cup {-1}] /\ loaded \in [Units -> Versions] BY <1>1, <1>3
  <2>5. exec \subseteq Timers /\ enabled \subseteq Units /\ torn \subseteq Units \cup {"agent-local"}
    BY <1>1, <1>2
  <2>6. agent \in [Parts -> Versions \cup {-1}] /\ wrote \in [Parts -> Versions] /\ wanted \in BOOLEAN
    BY <1>1, <1>3 DEF Parts
  <2>7. garage.log \in {"none", "json-file", "local"} BY <1>1 DEF NoGarage
  <2>8. daemon \in [running : {"json-file", "local"}, file : {"json-file", "local"}] BY <1>2
  <2> QED BY <1>2, <2>1, <2>2, <2>3, <2>4, <2>5, <2>6, <2>7, <2>8, <2>9 DEF WorldOK
<1>6. TypeOK BY <1>2, <1>3, <1>4, <1>5 DEF TypeOK, WorldOK, NoOutcome
<1>7. CommandOK BY <1>2, <1>4 DEF CommandOK
<1>8. \A f \in Files : disk[f] = old BY <1>1
<1>9. FileOK BY <1>1, <1>2, <1>3, <1>8 DEF FileOK, Latest
<1>16. \A u \in enabled : u \in Units /\ old = 1 BY <1>1
<1>17. \A u \in Units : /\ disk[<<u, "unit">>] = old /\ disk[<<u, "script">>] = old
                       /\ disk[<<u, "env">>] = old /\ loaded[u] = old
  BY <1>1, <1>8, FilesAre
<1>18. \A u \in enabled : /\ disk[<<u, "unit">>] # 0 /\ disk[<<u, "script">>] # 0
                         /\ disk[<<u, "env">>] # 0 /\ loaded[u] # 0
  <2> TAKE u \in enabled
  <2>1. u \in Units /\ old # 0 BY <1>16
  <2> QED BY <1>17, <2>1
<1>19. \A u \in enabled \cap Timers : u \in exec BY <1>1, <1>16
<1>20. EnableSteps BY <1>4 DEF EnableSteps
<1>10. EnableOK BY <1>18, <1>20 DEF EnableOK
<1>11. EnabledJobsAreWhole BY <1>18, <1>19 DEF EnabledJobsAreWhole
<1>12. CaOK
  <2>1. AppCa \in Files /\ TlsFiles \subseteq Files BY FilesAre
  <2>2. sops.tls = old BY <1>1
  <2> QED BY <1>3, <1>4, <1>8, <2>1, <2>2 DEF CaOK, TlsOK, CaSteps, SecretSteps, AppNeverAhead
<1>13. TornOK
  <2>1. \A p \in Parts : disk[AgentFile(p)] = old /\ wrote[p] = old BY <1>1, <1>8, AgentFilesAre
  <2>2. loaded["agent"] = old BY <1>1, AgentFilesAre
  <2> QED BY <1>2, <1>3, <1>4, <2>1, <2>2, AgentFilesAre DEF TornOK, AgentSteps, PartsOK
<1>14. KindOK BY <1>4 DEF KindOK
<1>15. RestartRunsTheInstall BY <1>2 DEF RestartRunsTheInstall, NoOutcome
<1> QED BY <1>6, <1>7, <1>9, <1>10, <1>11, <1>12, <1>13, <1>14, <1>15 DEF Inv, TypeInv

LEMMA StutterHolds == ASSUME Inv, UNCHANGED vars PROVE Inv'
<1>1. UNCHANGED <<config, bodies, sops, disk, units, backup, cmd, outcome, commands>>
  BY DEF vars, config, bodies, units, backup, service, installs
<1>2. WorldOK BY WorldIs DEF Inv, TypeInv
<1>3. WorldOK' BY <1>1, <1>2 DEF WorldOK, config, bodies, units, service, installs, backup
<1>4. EnvDisk /\ EnvUnits BY <1>1 DEF EnvDisk, EnvUnits, units
<1>5. RestartRunsTheInstall' BY <1>1 DEF Inv, RestartRunsTheInstall, CutShort, units, service, installs
<1> QED BY <1>1, <1>3, <1>4, <1>5, EnvironmentKeeps DEF units, config

LEMMA CommandsKeep == ASSUME Inv, Commands PROVE Inv'
BY InstallBackupsKeeps, InstallOffsiteKeeps, RunOffsiteKeeps, InstallAgentKeeps, InstallAgentLocallyKeeps,
   ControlAgentKeeps, MakeSecretsKeeps, InstallTlsKeeps, InstallStackKeeps, ApplyLoggingKeeps,
   CheckLoggingKeeps
   DEF Commands

LEMMA CommandStepsKeep == ASSUME Inv, CommandStep PROVE Inv'
BY InstallFileKeeps, TeeFileKeeps, MergeEnvKeeps, WriteDbEnvKeeps, ChmodKeeps, DaemonReloadKeeps,
   EnableUnitKeeps, StartOffsiteKeeps, EnableAgentKeeps, DisableAgentKeeps, RestartAgentKeeps,
   WritePlainKeeps, EncryptKeeps, RequireFilesKeeps, StackUpKeeps, WriteDaemonKeeps, RestartDockerKeeps,
   ProbeKeeps
   DEF CommandStep

LEMMA Invariance == Spec => []Inv
<1>1. Inv /\ [Next]_vars => Inv'
  BY CommandsKeep, CommandStepsKeep, StopsKeeps, EnvironmentStepKeeps, StutterHolds DEF Next
<1> QED BY <1>1, InitHolds, PTL DEF Spec

(* Every file is missing, a directory or of some version, whatever the     *)
(* commands leave behind on the hosts.                                     *)
THEOREM TypeCorrect == Spec => []TypeOK
<1>1. Inv => TypeOK BY DEF Inv, TypeInv
<1> QED BY <1>1, Invariance, PTL

(* Whatever installations were cut short, a timer that is enabled finds    *)
(* its unit, its script and its environment                                *)
(* (cmd_install_systemd_backups, cmd_dc_backup_offsite_install).           *)
THEOREM EnabledJobsAreAlwaysWhole == Spec => []EnabledJobsAreWhole
<1>1. Inv => EnabledJobsAreWhole BY DEF Inv
<1> QED BY <1>1, Invariance, PTL

(* The app host is never given an authority ahead of the certificate and   *)
(* the key of the server, wherever tls install stopped                     *)
(* (cmd_dc_backup_tls_install).                                            *)
THEOREM AppIsNeverAhead == Spec => []AppNeverAhead
<1>1. Inv => AppNeverAhead BY DEF Inv, CaOK
<1> QED BY <1>1, Invariance, PTL

(* An agent that runs after a restart that reported success runs of each   *)
(* file what the last whole installation wrote of it, or something newer   *)
(* from one that was cut short, whatever else had systemd reload and       *)
(* however often docker run failed (cmd_restart_remote,                    *)
(* _remote_install_script).                                                *)
THEOREM RestartAlwaysRunsTheInstall == Spec => []RestartRunsTheInstall
<1>1. Inv => RestartRunsTheInstall BY DEF Inv
<1> QED BY <1>1, Invariance, PTL

----------------------------------------------------------------------------
(* What log rotation was reported to be, from steps on the backup host.    *)

LogsOK == LogsAreCapped /\ (reported # "nothing" => daemon.file = "local")

LEMMA LogsKeep == ASSUME Inv, LogsOK, Next PROVE LogsOK'
<1>1. WorldOK BY WorldIs DEF Inv, TypeInv
<1>2. CASE UNCHANGED backup BY <1>2 DEF LogsOK, LogsAreCapped, backup
<1>3. CASE StackUp
  <2>1. UNCHANGED <<daemon, reported>> BY <1>3 DEF StackUp
  <2>2. garage' = garage \/ garage'.log = daemon.running BY <1>3 DEF StackUp, Started
  <2> QED BY <2>1, <2>2 DEF LogsOK, LogsAreCapped
<1>4. CASE WriteDaemon
  <2>1. UNCHANGED <<garage, reported>> /\ daemon' = [daemon EXCEPT !.file = "local"]
    BY <1>4 DEF WriteDaemon
  <2> QED BY <1>1, <2>1 DEF LogsOK, LogsAreCapped, WorldOK
<1>5. CASE RestartDocker \/ RebootBackup
  <2>1. UNCHANGED reported /\ daemon' = [daemon EXCEPT !.running = daemon.file] /\ garage' = RestartedGarage
    BY <1>5 DEF RestartDocker, RebootBackup
  <2>2. RestartedGarage.log = garage.log BY DEF RestartedGarage, Started
  <2> QED BY <1>1, <2>1, <2>2 DEF LogsOK, LogsAreCapped, WorldOK
<1>6. ASSUME NEW ok, ok => DaemonOk, InForce(ok), UNCHANGED <<garage, daemon>> PROVE LogsOK'
  BY <1>6 DEF InForce, DaemonOk, Capped, LogsOK, LogsAreCapped
<1>7. CASE Probe BY <1>6, <1>7 DEF Probe
<1>8. CASE CheckLogging BY <1>6, <1>8 DEF CheckLogging
<1>9. CASE Commands
  <2>1. ASSUME NEW kind, NEW plan, Begins(kind, plan) PROVE UNCHANGED backup BY <2>1 DEF Begins
  <2>2. CASE InstallBackups BY <1>2, <2>1, <2>2 DEF InstallBackups
  <2>3. CASE InstallOffsite \/ RunOffsite \/ InstallAgent \/ InstallAgentLocally
    BY <1>2, <2>1, <2>3 DEF InstallOffsite, RunOffsite, InstallAgent, InstallAgentLocally
  <2>4. CASE ControlAgent \/ MakeSecrets BY <1>2, <2>1, <2>4 DEF ControlAgent, MakeSecrets
  <2>5. CASE InstallTls \/ InstallStack \/ ApplyLogging
    BY <1>2, <2>1, <2>5 DEF InstallTls, InstallStack, ApplyLogging
  <2> QED BY <1>8, <1>9, <2>2, <2>3, <2>4, <2>5 DEF Commands
<1>10. CASE CommandStep
  <2>1. CASE InstallFile \/ TeeFile \/ MergeEnv \/ WriteDbEnv \/ Chmod \/ DaemonReload
    BY <1>2, <2>1 DEF InstallFile, TeeFile, MergeEnv, WriteDbEnv, Chmod, DaemonReload
  <2>2. CASE EnableUnit \/ StartOffsite \/ EnableAgent \/ DisableAgent \/ RestartAgent
    BY <1>2, <2>2 DEF EnableUnit, StartOffsite, EnableAgent, DisableAgent, RestartAgent
  <2>3. CASE WritePlain \/ Encrypt \/ RequireFiles BY <1>2, <2>3 DEF WritePlain, Encrypt, RequireFiles
  <2> QED BY <1>3, <1>4, <1>5, <1>7, <1>10, <2>1, <2>2, <2>3 DEF CommandStep
<1>11. CASE Stops BY <1>2, <1>11 DEF Stops
<1>12. CASE Environment
  BY <1>2, <1>5, <1>12 DEF Environment, ChangeConfig, EditAgentEnv, MountCa, RebootApp, AgentFails
<1> QED BY <1>9, <1>10, <1>11, <1>12 DEF Next

(* Once log rotation was reported in force, the daemon that runs has it,   *)
(* and no container without it is added to those there were                *)
(* (cmd_host_logging).                                                     *)
THEOREM LogsAreAlwaysCapped == Spec => []LogsAreCapped
<1>1. Init => LogsOK BY DEF Init, LogsOK, LogsAreCapped
<1>2. Inv /\ LogsOK /\ [Next]_vars => LogsOK'
  <2>1. ASSUME LogsOK, UNCHANGED vars PROVE LogsOK' BY <2>1 DEF LogsOK, LogsAreCapped, vars
  <2> QED BY <2>1, LogsKeep
<1>3. LogsOK => LogsAreCapped BY DEF LogsOK
<1> QED BY <1>1, <1>2, <1>3, Invariance, PTL DEF Spec
==============================================================================
