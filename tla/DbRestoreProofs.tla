--------------------------- MODULE DbRestoreProofs ---------------------------
(***************************************************************************)
(* Theorems about DbRestore, for any choice of hooks and command lines,    *)
(* with and without Metabase: its type, the single writer of PGDATA, that  *)
(* nothing is dropped for an archive that is none, and what a restore that *)
(* succeeds has done.                                                      *)
(***************************************************************************)
EXTENDS DbRestore, TLAPS

\* The database whose turn it is is one of those still to do.
LEMMA CurrentInTodo ==
  ASSUME todo \subseteq Db, todo # {}
  PROVE  Current \in todo /\ Current \in Db
  BY DbAssumption DEF Current

\* A command line that is considered has the type of one.
LEMMA RequestType == ASSUME NEW r \in Requests PROVE r \in Request
  BY RequestsAssumption

\* Moving on from one label to another, and ending.
LEMMA Moves ==
  ASSUME ControlOK, NEW from, NEW to \in Labels, from # "idle", Step(from, to)
  PROVE  ControlOK'
  BY DEF ControlOK, Step, Goto, At

LEMMA Ends ==
  ASSUME NEW how \in {"ok", "refused", "failed", "cancelled", "killed"}, Finish(how)
  PROVE  ControlOK'
  BY DEF ControlOK, Finish, Labels

LEMMA LabelsAre ==
  /\ HookLabels \subseteq Labels /\ LoadLabels \subseteq Labels
  /\ PgBackRestLabels \subseteq Labels
  /\ ConfLabels \subseteq Labels /\ Offline \subseteq Labels
  BY DEF Labels, PgBackRestLabels

\* A database is done with: the next one's turn, or the end.
LEMMA DoneMoves ==
  ASSUME ControlOK, NEW l, l # "idle", Done(l)
  PROVE  ControlOK' /\ hooked' = hooked \cup {Current} /\ Current \in Db
<1>1. Current \in todo /\ Current \in Db
  BY CurrentInTodo DEF ControlOK, Done, At
<1>2. "psql" \in Labels /\ "ensureDb" \in Labels /\ "idle" \in Labels
  BY DEF Labels, HookLabels, LoadLabels
<1> QED BY <1>1, <1>2 DEF Done, ControlOK

\* A step of any command or of the world around it keeps the type.
LEMMA TypeStep == ASSUME TypeOK, [Next]_vars PROVE TypeOK'
<1>a. StackOK /\ RunnerOK /\ ControlOK /\ RecordOK
  BY DEF TypeOK
<1> SUFFICES (StackOK /\ RunnerOK /\ ControlOK /\ RecordOK)'
  BY DEF TypeOK
<1> USE DEF files, cluster, runner, record, asked
<1>0. CASE UNCHANGED vars
  BY <1>a, <1>0 DEF StackOK, RunnerOK, ControlOK, RecordOK, vars
<1>1. ASSUME NEW r \in Requests, Begin(r)
      PROVE  (StackOK /\ RunnerOK /\ ControlOK /\ RecordOK)'
  <2>1. r \in Request BY <1>1, RequestType
  <2>2. data' \in [Db -> Contents] BY <1>a, <1>1 DEF Begin, StackOK, Contents
  <2>3. Entry(r) \in {"ok", "refused", "fetch", "check", "volume"}
    BY DEF Entry
  <2>4. {"fetch", "check", "volume"} \subseteq Labels
    BY DEF Labels, PgBackRestLabels, ConfLabels
  <2>5. ControlOK'
    <3>1. CASE Finish(Entry(r)) /\ Entry(r) \in {"ok", "refused"}
      BY <3>1, Ends
    <3>2. CASE Finish("refused")
      BY <3>2, Ends
    <3>3. CASE /\ Entry(r) \in Labels
               /\ pc' = Entry(r) /\ UNCHANGED outcome
               /\ todo' = IF r.kind = "file" THEN {"app"} ELSE Db
      BY <3>3, <1>a, DbAssumption DEF ControlOK
    <3> QED BY <1>1, <3>1, <3>2, <3>3 DEF Begin
  <2>6. RecordOK' BY <1>1, <2>1, <2>2 DEF Begin, RecordOK
  <2>7. StackOK' BY <1>a, <1>1, <2>2 DEF Begin, StackOK
  <2>8. RunnerOK' BY <1>a, <1>1 DEF Begin, RunnerOK
  <2> QED BY <2>5, <2>6, <2>7, <2>8
<1>2. CASE Fetch
  <2>1. ControlOK'
    BY <1>a, <1>2, Ends, LabelsAre, DbAssumption, ZenonT(60) DEF Fetch, ControlOK, Labels
  <2>3. StackOK' /\ RunnerOK' /\ RecordOK'
    BY <1>a, <1>2 DEF Fetch, StackOK, RunnerOK, RecordOK, Contents
  <2> QED BY <2>1, <2>3
<1>3. CASE CheckArchives
  <2>1. ControlOK'
    BY <1>a, <1>3, Moves, Ends, LabelsAre
    DEF CheckArchives, Fails, HookLabels, LoadLabels, PgBackRestLabels, ConfLabels, Offline
  <2>3. StackOK' /\ RunnerOK' /\ RecordOK'
    BY <1>a, <1>3 DEF CheckArchives, StackOK, RunnerOK, RecordOK, Contents
  <2> QED BY <2>1, <2>3
<1>4. CASE EnsureDb
  <2>1. ControlOK'
    BY <1>a, <1>4, Moves, Ends, LabelsAre
    DEF EnsureDb, Fails, HookLabels, LoadLabels, PgBackRestLabels, ConfLabels, Offline
  <2>3. StackOK' /\ RunnerOK' /\ RecordOK'
    BY <1>a, <1>4 DEF EnsureDb, StackOK, RunnerOK, RecordOK, Contents
  <2> QED BY <2>1, <2>3
<1>5. CASE StartDb
  <2>1. ControlOK'
    BY <1>a, <1>5, Moves, Ends, LabelsAre
    DEF StartDb, Fails, HookLabels, LoadLabels, PgBackRestLabels, ConfLabels, Offline
  <2>3. StackOK' /\ RunnerOK' /\ RecordOK'
    BY <1>a, <1>5 DEF StartDb, StackOK, RunnerOK, RecordOK, Contents
  <2> QED BY <2>1, <2>3
<1>6. CASE DropCreate
  <2>1. ControlOK'
    BY <1>a, <1>6, Moves, Ends, LabelsAre
    DEF DropCreate, Fails, HookLabels, LoadLabels, PgBackRestLabels, ConfLabels, Offline
  <2>2. Current \in Db
    BY <1>a, <1>6, CurrentInTodo DEF DropCreate, ControlOK, Step, Fails, At
  <2>3. StackOK' /\ RunnerOK' /\ RecordOK'
    BY <1>a, <1>6, <2>2 DEF DropCreate, StackOK, RunnerOK, RecordOK, Contents
  <2> QED BY <2>1, <2>3
<1>7. CASE CopyIn
  <2>1. ControlOK'
    BY <1>a, <1>7, Moves, Ends, LabelsAre
    DEF CopyIn, Fails, HookLabels, LoadLabels, PgBackRestLabels, ConfLabels, Offline
  <2>2. Current \in Db
    BY <1>a, <1>7, CurrentInTodo DEF CopyIn, ControlOK, Step, Fails, At
  <2>3. StackOK' /\ RunnerOK' /\ RecordOK'
    BY <1>a, <1>7, <2>2 DEF CopyIn, StackOK, RunnerOK, RecordOK, Contents
  <2> QED BY <2>1, <2>3
<1>8. CASE LoadEnds
  <2>1. ControlOK'
    BY <1>a, <1>8, Moves, Ends, LabelsAre
    DEF LoadEnds, Fails, HookLabels, LoadLabels, PgBackRestLabels, ConfLabels, Offline
  <2>2. Current \in Db
    BY <1>a, <1>8, CurrentInTodo DEF LoadEnds, ControlOK, Step, Fails, At
  <2>3. StackOK' /\ RunnerOK' /\ RecordOK'
    BY <1>a, <1>8, <2>2 DEF LoadEnds, StackOK, RunnerOK, RecordOK, Contents
  <2> QED BY <2>1, <2>3
<1>9. CASE Psql
  <2>1. ControlOK'
    BY <1>a, <1>9, Moves, Ends, DoneMoves, LabelsAre
    DEF Psql, Fails, HookLabels, LoadLabels, PgBackRestLabels, ConfLabels, Offline
  <2>2. Current \in Db
    BY <1>a, <1>9, CurrentInTodo DEF Psql, ControlOK, Step, Fails, At, Done
  <2>3. StackOK' /\ RunnerOK' /\ RecordOK'
    BY <1>a, <1>9, <2>2, DoneMoves DEF Psql, StackOK, RunnerOK, RecordOK, Contents
  <2> QED BY <2>1, <2>3
<1>10. CASE WebUp
  <2>1. ControlOK'
    BY <1>a, <1>10, Moves, Ends, LabelsAre
    DEF WebUp, Fails, HookLabels, LoadLabels, PgBackRestLabels, ConfLabels, Offline
  <2>3. StackOK' /\ RunnerOK' /\ RecordOK'
    BY <1>a, <1>10 DEF WebUp, StackOK, RunnerOK, RecordOK, Contents
  <2> QED BY <2>1, <2>3
<1>11. CASE Manage
  <2>1. ControlOK'
    BY <1>a, <1>11, Moves, Ends, LabelsAre
    DEF Manage, Fails, HookLabels, LoadLabels, PgBackRestLabels, ConfLabels, Offline
  <2>3. StackOK' /\ RunnerOK' /\ RecordOK'
    BY <1>a, <1>11 DEF Manage, StackOK, RunnerOK, RecordOK, Contents
  <2> QED BY <2>1, <2>3
<1>12. CASE RestartServices
  <2>1. ControlOK'
    BY <1>a, <1>12, Moves, Ends, DoneMoves, LabelsAre
    DEF RestartServices, Fails, HookLabels, LoadLabels, PgBackRestLabels, ConfLabels, Offline
  <2>3. StackOK' /\ RunnerOK' /\ RecordOK'
    BY <1>a, <1>12, DoneMoves DEF RestartServices, StackOK, RunnerOK, RecordOK, Contents
  <2> QED BY <2>1, <2>3
<1>13. CASE EnsureVolume
  <2>1. ControlOK'
    BY <1>a, <1>13, Moves, Ends, LabelsAre
    DEF EnsureVolume, Fails, HookLabels, LoadLabels, PgBackRestLabels, ConfLabels, Offline
  <2>3. StackOK' /\ RunnerOK' /\ RecordOK'
    BY <1>a, <1>13 DEF EnsureVolume, StackOK, RunnerOK, RecordOK, Contents
  <2> QED BY <2>1, <2>3
<1>14. CASE ReadConf
  <2>1. ControlOK'
    BY <1>a, <1>14, Moves, Ends, LabelsAre
    DEF ReadConf, Fails, HookLabels, LoadLabels, PgBackRestLabels, ConfLabels, Offline, Matches
  <2>3. StackOK' /\ RunnerOK' /\ RecordOK'
    BY <1>a, <1>14 DEF ReadConf, StackOK, RunnerOK, RecordOK, Contents, Matches
  <2> QED BY <2>1, <2>3
<1>15. CASE WriteConf
  <2>1. ControlOK'
    BY <1>a, <1>15, Moves, Ends, LabelsAre
    DEF WriteConf, Fails, HookLabels, LoadLabels, PgBackRestLabels, ConfLabels, Offline
  <2>3. StackOK' /\ RunnerOK' /\ RecordOK'
    BY <1>a, <1>15 DEF WriteConf, StackOK, RunnerOK, RecordOK, Contents, Request, Step, At
  <2> QED BY <2>1, <2>3
<1>16. CASE WriteArchive
  <2>1. ControlOK'
    BY <1>a, <1>16, Moves, Ends, LabelsAre
    DEF WriteArchive, Fails, HookLabels, LoadLabels, PgBackRestLabels, ConfLabels, Offline
  <2>3. StackOK' /\ RunnerOK' /\ RecordOK'
    BY <1>a, <1>16, ZenonT(60) DEF WriteArchive, StackOK, RunnerOK, RecordOK, Contents
  <2> QED BY <2>1, <2>3
<1>17. CASE Confirm
  <2>1. ControlOK'
    BY <1>a, <1>17, Moves, Ends, LabelsAre
    DEF Confirm, Fails, HookLabels, LoadLabels, PgBackRestLabels, ConfLabels, Offline
  <2>3. StackOK' /\ RunnerOK' /\ RecordOK'
    BY <1>a, <1>17 DEF Confirm, StackOK, RunnerOK, RecordOK, Contents
  <2> QED BY <2>1, <2>3
<1>18. CASE ProbeDb
  <2>1. ControlOK'
    BY <1>a, <1>18, Moves, Ends, LabelsAre
    DEF ProbeDb, Fails, HookLabels, LoadLabels, PgBackRestLabels, ConfLabels, Offline, Unanswered
  <2>3. StackOK' /\ RunnerOK' /\ RecordOK'
    BY <1>a, <1>18 DEF ProbeDb, StackOK, RunnerOK, RecordOK, Contents, Unanswered, Unseen, Outliving
  <2> QED BY <2>1, <2>3
<1>19. CASE StopDb
  <2>1. ControlOK'
    BY <1>a, <1>19, Moves, Ends, LabelsAre
    DEF StopDb, Fails, HookLabels, LoadLabels, PgBackRestLabels, ConfLabels, Offline
  <2>3. StackOK' /\ RunnerOK' /\ RecordOK'
    BY <1>a, <1>19 DEF StopDb, StackOK, RunnerOK, RecordOK, Contents
  <2> QED BY <2>1, <2>3
<1>20. CASE Recheck
  <2>1. ControlOK'
    BY <1>a, <1>20, Moves, Ends, LabelsAre
    DEF Recheck, Fails, HookLabels, LoadLabels, PgBackRestLabels, ConfLabels, Offline, Unanswered
  <2>3. StackOK' /\ RunnerOK' /\ RecordOK'
    BY <1>a, <1>20 DEF Recheck, StackOK, RunnerOK, RecordOK, Contents, Unanswered, Unseen, Outliving
  <2> QED BY <2>1, <2>3
<1>21. CASE RunOneOff
  <2>1. ControlOK'
    BY <1>a, <1>21, Moves, Ends, LabelsAre
    DEF RunOneOff, Fails, HookLabels, LoadLabels, PgBackRestLabels, ConfLabels, Offline
  <2>3. StackOK' /\ RunnerOK' /\ RecordOK'
    BY <1>a, <1>21 DEF RunOneOff, StackOK, RunnerOK, RecordOK, Contents
  <2> QED BY <2>1, <2>3
<1>22. CASE AwaitOneOff
  <2>1. ControlOK'
    BY <1>a, <1>22, Moves, Ends, LabelsAre
    DEF AwaitOneOff, Fails, HookLabels, LoadLabels, PgBackRestLabels, ConfLabels, Offline
  <2>3. StackOK' /\ RunnerOK' /\ RecordOK'
    BY <1>a, <1>22 DEF AwaitOneOff, StackOK, RunnerOK, RecordOK, Contents, Unseen, Outliving
  <2> QED BY <2>1, <2>3
<1>23. CASE Sweep
  <2>1. ControlOK'
    BY <1>a, <1>23, Moves, Ends, LabelsAre
    DEF Sweep, Fails, HookLabels, LoadLabels, PgBackRestLabels, ConfLabels, Offline
  <2>3. StackOK' /\ RunnerOK' /\ RecordOK'
    BY <1>a, <1>23 DEF Sweep, StackOK, RunnerOK, RecordOK, Contents
  <2> QED BY <2>1, <2>3
<1>24. CASE KillOneOff
  <2>1. ControlOK'
    BY <1>a, <1>24, Moves, Ends, LabelsAre
    DEF KillOneOff, Fails, HookLabels, LoadLabels, PgBackRestLabels, ConfLabels, Offline
  <2>3. StackOK' /\ RunnerOK' /\ RecordOK'
    BY <1>a, <1>24 DEF KillOneOff, StackOK, RunnerOK, RecordOK, Contents
  <2> QED BY <2>1, <2>3
<1>25. CASE Terminate
  <2>1. ControlOK'
    BY <1>a, <1>25, Moves, Ends, LabelsAre
    DEF Terminate, Fails, HookLabels, LoadLabels, PgBackRestLabels, ConfLabels, Offline
  <2>3. StackOK' /\ RunnerOK' /\ RecordOK'
    BY <1>a, <1>25 DEF Terminate, StackOK, RunnerOK, RecordOK, Contents, Unseen, Outliving
  <2> QED BY <2>1, <2>3
<1>26. CASE UpDb
  <2>1. ControlOK'
    BY <1>a, <1>26, Moves, Ends, LabelsAre
    DEF UpDb, Fails, HookLabels, LoadLabels, PgBackRestLabels, ConfLabels, Offline
  <2>3. StackOK' /\ RunnerOK' /\ RecordOK'
    BY <1>a, <1>26 DEF UpDb, StackOK, RunnerOK, RecordOK, Contents
  <2> QED BY <2>1, <2>3
<1>27. CASE WaitRecovery
  <2>1. ControlOK'
    BY <1>a, <1>27, Moves, Ends, LabelsAre
    DEF WaitRecovery, Fails, HookLabels, LoadLabels, PgBackRestLabels, ConfLabels, Offline
  <2>3. StackOK' /\ RunnerOK' /\ RecordOK'
    BY <1>a, <1>27 DEF WaitRecovery, StackOK, RunnerOK, RecordOK, Contents
  <2> QED BY <2>1, <2>3
<1>28. CASE Interrupt
  <2>1. ControlOK'
    BY <1>a, <1>28, Moves, Ends, LabelsAre
    DEF Interrupt, Fails, HookLabels, LoadLabels, PgBackRestLabels, ConfLabels, Offline
  <2>3. StackOK' /\ RunnerOK' /\ RecordOK'
    BY <1>a, <1>28 DEF Interrupt, StackOK, RunnerOK, RecordOK, Contents
  <2> QED BY <2>1, <2>3
<1>29. CASE Killed
  <2>1. ControlOK'
    BY <1>29, Ends DEF Killed
  <2>3. StackOK' /\ RunnerOK' /\ RecordOK'
    BY <1>a, <1>29 DEF Killed, StackOK, RunnerOK, RecordOK, Contents, Unseen, Outliving
  <2> QED BY <2>1, <2>3
<1>30. CASE OneOffStarts
  <2>1. ControlOK'
    BY <1>a, <1>30 DEF OneOffStarts, ControlOK
  <2>3. StackOK' /\ RunnerOK' /\ RecordOK'
    BY <1>a, <1>30 DEF OneOffStarts, StackOK, RunnerOK, RecordOK, Contents
  <2> QED BY <2>1, <2>3
<1>31. CASE OneOffEnds
  <2>1. ControlOK'
    BY <1>a, <1>31 DEF OneOffEnds, ControlOK, Restored
  <2>3. StackOK' /\ RunnerOK' /\ RecordOK'
    BY <1>a, <1>31 DEF OneOffEnds, StackOK, RunnerOK, RecordOK, Contents, Restored
  <2> QED BY <2>1, <2>3
<1>32. CASE OrphanEnds
  <2>1. ControlOK'
    BY <1>a, <1>32 DEF OrphanEnds, ControlOK, Restored
  <2>3. StackOK' /\ RunnerOK' /\ RecordOK'
    BY <1>a, <1>32 DEF OrphanEnds, StackOK, RunnerOK, RecordOK, Contents, Restored
  <2> QED BY <2>1, <2>3
<1>33. CASE Recovers
  <2>1. ControlOK'
    BY <1>a, <1>33 DEF Recovers, ControlOK
  <2>3. StackOK' /\ RunnerOK' /\ RecordOK'
    BY <1>a, <1>33 DEF Recovers, StackOK, RunnerOK, RecordOK, Contents
  <2> QED BY <2>1, <2>3
<1>34. CASE DbStops
  <2>1. ControlOK'
    BY <1>a, <1>34 DEF DbStops, ControlOK
  <2>3. StackOK' /\ RunnerOK' /\ RecordOK'
    BY <1>a, <1>34 DEF DbStops, StackOK, RunnerOK, RecordOK, Contents
  <2> QED BY <2>1, <2>3
<1>35. CASE OtherUp
  <2>1. ControlOK'
    BY <1>a, <1>35 DEF OtherUp, ControlOK
  <2>3. StackOK' /\ RunnerOK' /\ RecordOK'
    BY <1>a, <1>35 DEF OtherUp, StackOK, RunnerOK, RecordOK, Contents, Unseen, Outliving
  <2> QED BY <2>1, <2>3
<1>36. CASE ArchiveGoes
  <2>1. ControlOK'
    BY <1>a, <1>36 DEF ArchiveGoes, ControlOK
  <2>3. StackOK' /\ RunnerOK' /\ RecordOK'
    BY <1>a, <1>36 DEF ArchiveGoes, StackOK, RunnerOK, RecordOK, Contents
  <2> QED BY <2>1, <2>3
<1> QED
  BY <1>0, <1>1, <1>2, <1>3, <1>4, <1>5, <1>6, <1>7, <1>8, <1>9, <1>10,
     <1>11, <1>12, <1>13, <1>14, <1>15, <1>16, <1>17, <1>18, <1>19, <1>20, <1>21,
     <1>22, <1>23, <1>24, <1>25, <1>26, <1>27, <1>28, <1>29, <1>30, <1>31, <1>32,
     <1>33, <1>34, <1>35, <1>36
  DEF Next, Proceed, World, Loading, HookStep, Offlining

\* TypeOK: every variable keeps its type.
THEOREM TypeCorrect == Spec => []TypeOK
<1>1. Init => TypeOK
  <2> SUFFICES ASSUME Init PROVE TypeOK
    OBVIOUS
  <2>1. req \in Request BY DEF Init, Request
  <2>2. pc \in Labels BY DEF Init, Labels
  <2>3. data \in [Db -> Contents] BY DEF Init, Contents
  <2>4. StackOK /\ RunnerOK BY <2>3 DEF Init, StackOK, RunnerOK
  <2>5. ControlOK /\ RecordOK BY <2>1, <2>2, <2>3 DEF Init, ControlOK, RecordOK
  <2> QED BY <2>4, <2>5 DEF TypeOK
<1>2. TypeOK /\ [Next]_vars => TypeOK'
  BY TypeStep
<1> QED BY <1>1, <1>2, PTL DEF Spec

-----------------------------------------------------------------------------
\* Where a command that begins finds itself.
LEMMA BeginLabel ==
  ASSUME NEW r \in Requests, Begin(r)
  PROVE  /\ pc' \in {"idle", "fetch", "check", "volume"}
         /\ pc' = "volume" => ByPgBackRest(r)
<1>1. Entry(r) \in {"ok", "refused", "fetch", "check", "volume"}
  BY DEF Entry
<1>2. Entry(r) = "volume" => ByPgBackRest(r)
  BY DEF Entry
<1>3. "ok" \notin Labels /\ "refused" \notin Labels
  BY DEF Labels, HookLabels, LoadLabels, PgBackRestLabels, ConfLabels, Offline
<1>4. CASE pc' = "idle"
  BY <1>4
<1>5. CASE Entry(r) \in Labels /\ pc' = Entry(r)
  BY <1>1, <1>2, <1>3, <1>5
<1> QED BY <1>4, <1>5 DEF Begin, Finish

\* Whether all the archives are dumps depends on them and on the command line only.
LEMMA DumpsFrame ==
  ASSUME UNCHANGED <<archive, req>>
  PROVE  (\A d \in Scope : IsDump(Src(d)))' <=> \A d \in Scope : IsDump(Src(d))
  BY DEF Scope, IsDump, Src

LEMMA OfflineStep == ASSUME TypeOK, OfflineInv, [Next]_vars PROVE OfflineInv'
<1> USE DEF files, cluster, runner, record, asked
<1>a. db \in {"stopped", "recovering", "running"} /\ orphan \in BOOLEAN
  BY DEF TypeOK, StackOK, RunnerOK
<1>0. CASE UNCHANGED vars
  BY <1>0 DEF OfflineInv, vars
<1>1. ASSUME NEW r \in Requests, Begin(r) PROVE OfflineInv'
  <2>1. pc' \notin Offline /\ oneoff = "none" /\ oneoff' = "none"
    BY <1>1, BeginLabel DEF Begin, At, OfflineInv, Offline
  <2>2. orphan' => blind' \cap Outliving # {}
    BY <1>1, <1>a DEF Begin, Over, OfflineInv
  <2> QED BY <2>1, <2>2 DEF OfflineInv
<1>2. CASE Fetch
  BY <1>a, <1>2 DEF Fetch, Step, Goto, At, Finish, Fails, OfflineInv, Offline
<1>3. CASE CheckArchives
  BY <1>a, <1>3 DEF CheckArchives, Step, Goto, At, Finish, Fails, OfflineInv, Offline
<1>4. CASE EnsureDb
  BY <1>a, <1>4 DEF EnsureDb, Step, Goto, At, Finish, Fails, OfflineInv, Offline
<1>5. CASE StartDb
  BY <1>a, <1>5 DEF StartDb, Step, Goto, At, Finish, Fails, OfflineInv, Offline
<1>6. CASE DropCreate
  BY <1>a, <1>6 DEF DropCreate, Step, Goto, At, Finish, Fails, OfflineInv, Offline
<1>7. CASE CopyIn
  BY <1>a, <1>7 DEF CopyIn, Step, Goto, At, Finish, Fails, OfflineInv, Offline
<1>8. CASE LoadEnds
  BY <1>a, <1>8 DEF LoadEnds, Step, Goto, At, Finish, Fails, OfflineInv, Offline
<1>9. CASE Psql
  BY <1>a, <1>9 DEF Psql, Step, Goto, At, Finish, Fails, Done, OfflineInv, Offline
<1>10. CASE WebUp
  BY <1>a, <1>10 DEF WebUp, Step, Goto, At, Finish, Fails, OfflineInv, Offline
<1>11. CASE Manage
  BY <1>a, <1>11 DEF Manage, Step, Goto, At, Finish, Fails, OfflineInv, Offline
<1>12. CASE RestartServices
  BY <1>a, <1>12 DEF RestartServices, Step, Goto, At, Finish, Fails, Done, OfflineInv, Offline
<1>13. CASE EnsureVolume
  BY <1>a, <1>13 DEF EnsureVolume, Step, Goto, At, Finish, Fails, OfflineInv, Offline
<1>14. CASE ReadConf
  BY <1>a, <1>14 DEF ReadConf, Step, Goto, At, Finish, Fails, Matches, OfflineInv, Offline
<1>15. CASE WriteConf
  BY <1>a, <1>15 DEF WriteConf, Step, Goto, At, Finish, Fails, OfflineInv, Offline
<1>16. CASE WriteArchive
  BY <1>a, <1>16 DEF WriteArchive, Step, Goto, At, Finish, Fails, OfflineInv, Offline
<1>17. CASE Confirm
  BY <1>a, <1>17 DEF Confirm, Step, Goto, At, Finish, Fails, OfflineInv, Offline
<1>18. CASE ProbeDb
  BY <1>a, <1>18 DEF ProbeDb, Step, Goto, At, Finish, Fails, Unanswered, OfflineInv, Offline,
       Unseen, Outliving
<1>19. CASE StopDb
  BY <1>a, <1>19 DEF StopDb, Step, Goto, At, Finish, Fails, OfflineInv, Offline
<1>20. CASE Recheck
  BY <1>a, <1>20 DEF Recheck, Step, Goto, At, Finish, Fails, Unanswered, OfflineInv, Offline,
       Unseen, Outliving
<1>21. CASE RunOneOff
  BY <1>a, <1>21 DEF RunOneOff, Step, Goto, At, Finish, Fails, OfflineInv, Offline
<1>22. CASE AwaitOneOff
  BY <1>a, <1>22 DEF AwaitOneOff, Step, Goto, At, Finish, Fails, OfflineInv, Offline,
       Unseen, Outliving
<1>23. CASE Sweep
  BY <1>a, <1>23 DEF Sweep, Step, Goto, At, Finish, Fails, OfflineInv, Offline
<1>24. CASE KillOneOff
  BY <1>a, <1>24 DEF KillOneOff, Step, Goto, At, Finish, Fails, OfflineInv, Offline
<1>25. CASE Terminate
  BY <1>a, <1>25 DEF Terminate, Step, Goto, At, Finish, Fails, OfflineInv, Offline,
       Unseen, Outliving
<1>26. CASE UpDb
  BY <1>a, <1>26 DEF UpDb, Step, Goto, At, Finish, Fails, OfflineInv, Offline
<1>27. CASE WaitRecovery
  BY <1>a, <1>27 DEF WaitRecovery, Step, Goto, At, Finish, Fails, OfflineInv, Offline
<1>28. CASE Interrupt
  BY <1>a, <1>28 DEF Interrupt, Step, Goto, At, Finish, Fails, OfflineInv, Offline
<1>29. CASE Killed
  BY <1>a, <1>29 DEF Killed, Step, Goto, At, Finish, Fails, OfflineInv, Offline,
       Unseen, Outliving
<1>30. CASE OneOffStarts
  BY <1>a, <1>30 DEF OneOffStarts, OfflineInv, Offline
<1>31. CASE OneOffEnds
  BY <1>a, <1>31 DEF OneOffEnds, Restored, OfflineInv, Offline
<1>32. CASE OrphanEnds
  BY <1>a, <1>32 DEF OrphanEnds, Restored, OfflineInv, Offline
<1>33. CASE Recovers
  BY <1>a, <1>33 DEF Recovers, OfflineInv, Offline
<1>34. CASE DbStops
  BY <1>a, <1>34 DEF DbStops, OfflineInv, Offline
<1>35. CASE OtherUp
  BY <1>a, <1>35 DEF OtherUp, OfflineInv, Offline,
       Unseen, Outliving
<1>36. CASE ArchiveGoes
  BY <1>a, <1>36 DEF ArchiveGoes, OfflineInv, Offline
<1> QED
  BY <1>0, <1>1, <1>2, <1>3, <1>4, <1>5, <1>6, <1>7, <1>8, <1>9, <1>10,
     <1>11, <1>12, <1>13, <1>14, <1>15, <1>16, <1>17, <1>18, <1>19, <1>20, <1>21,
     <1>22, <1>23, <1>24, <1>25, <1>26, <1>27, <1>28, <1>29, <1>30, <1>31, <1>32,
     <1>33, <1>34, <1>35, <1>36
  DEF Next, Proceed, World, Loading, HookStep, Offlining

LEMMA SoundStep == ASSUME TypeOK, SoundInv, [Next]_vars PROVE SoundInv'
<1> USE DEF files, cluster, runner, record, asked
<1>a. sound \in BOOLEAN
  BY DEF TypeOK, RecordOK
<1>0. CASE UNCHANGED vars
  BY <1>0, DumpsFrame DEF SoundInv, vars, ByPgBackRest
<1>1. ASSUME NEW r \in Requests, Begin(r) PROVE SoundInv'
  <2>1. req' = r BY <1>1 DEF Begin
  <2>2. pc' \in {"idle", "fetch", "check", "volume"} /\ (pc' = "volume" => ByPgBackRest(r))
    BY <1>1, BeginLabel
  <2>3. (\A d \in Scope : IsDump(Src(d)))' => sound'
    <3>1. UNCHANGED archive BY <1>1 DEF Begin
    <3>2. sound' = \A d \in Db : IsDump(IF r.kind = "file" THEN "file" ELSE d)
      BY <1>1 DEF Begin
    <3>3. CASE r.kind = "file"
      BY <2>1, <3>1, <3>2, <3>3, DbAssumption DEF Scope, Src, IsDump
    <3>4. CASE r.kind # "file"
      BY <2>1, <3>1, <3>2, <3>4 DEF Scope, Src, IsDump
    <3> QED BY <3>3, <3>4
  <2> QED
    BY <2>1, <2>2, <2>3
    DEF SoundInv, LoadLabels, HookLabels, PgBackRestLabels, ConfLabels, Offline
<1>2. CASE Fetch
  <2>1. UNCHANGED req /\ pc = "fetch" /\ pc' \in {"idle", "fetch", "check"}
    BY <1>2 DEF Fetch, At, Finish
  <2>2. (\A d \in Scope : IsDump(Src(d)))' => sound'
    BY <1>2, <2>1 DEF Fetch, Scope, Src, IsDump
  <2> QED BY <2>1, <2>2 DEF SoundInv, ByPgBackRest, LoadLabels, HookLabels,
      PgBackRestLabels, ConfLabels, Offline
<1>3. CASE CheckArchives
  BY <1>a, <1>3, DumpsFrame DEF CheckArchives, Step, Goto, At, Finish, Fails,
      SoundInv, ByPgBackRest, LoadLabels, HookLabels,
      PgBackRestLabels, ConfLabels, Offline
<1>4. CASE EnsureDb
  BY <1>a, <1>4, DumpsFrame DEF EnsureDb, Step, Goto, At, Finish, Fails,
      SoundInv, ByPgBackRest, LoadLabels, HookLabels,
      PgBackRestLabels, ConfLabels, Offline
<1>5. CASE StartDb
  BY <1>a, <1>5, DumpsFrame DEF StartDb, Step, Goto, At, Finish, Fails,
      SoundInv, ByPgBackRest, LoadLabels, HookLabels,
      PgBackRestLabels, ConfLabels, Offline
<1>6. CASE DropCreate
  BY <1>a, <1>6, DumpsFrame DEF DropCreate, Step, Goto, At, Finish, Fails,
      SoundInv, ByPgBackRest, LoadLabels, HookLabels,
      PgBackRestLabels, ConfLabels, Offline
<1>7. CASE CopyIn
  BY <1>a, <1>7, DumpsFrame DEF CopyIn, Step, Goto, At, Finish, Fails,
      SoundInv, ByPgBackRest, LoadLabels, HookLabels,
      PgBackRestLabels, ConfLabels, Offline
<1>8. CASE LoadEnds
  BY <1>a, <1>8, DumpsFrame DEF LoadEnds, Step, Goto, At, Finish, Fails,
      SoundInv, ByPgBackRest, LoadLabels, HookLabels,
      PgBackRestLabels, ConfLabels, Offline
<1>9. CASE Psql
  BY <1>a, <1>9, DumpsFrame DEF Psql, Step, Goto, At, Finish, Fails, Done,
      SoundInv, ByPgBackRest, LoadLabels, HookLabels,
      PgBackRestLabels, ConfLabels, Offline
<1>10. CASE WebUp
  BY <1>a, <1>10, DumpsFrame DEF WebUp, Step, Goto, At, Finish, Fails,
      SoundInv, ByPgBackRest, LoadLabels, HookLabels,
      PgBackRestLabels, ConfLabels, Offline
<1>11. CASE Manage
  BY <1>a, <1>11, DumpsFrame DEF Manage, Step, Goto, At, Finish, Fails,
      SoundInv, ByPgBackRest, LoadLabels, HookLabels,
      PgBackRestLabels, ConfLabels, Offline
<1>12. CASE RestartServices
  BY <1>a, <1>12, DumpsFrame DEF RestartServices, Step, Goto, At, Finish, Fails, Done,
      SoundInv, ByPgBackRest, LoadLabels, HookLabels,
      PgBackRestLabels, ConfLabels, Offline
<1>13. CASE EnsureVolume
  BY <1>a, <1>13, DumpsFrame DEF EnsureVolume, Step, Goto, At, Finish, Fails,
      SoundInv, ByPgBackRest, LoadLabels, HookLabels,
      PgBackRestLabels, ConfLabels, Offline
<1>14. CASE ReadConf
  BY <1>a, <1>14, DumpsFrame DEF ReadConf, Step, Goto, At, Finish, Fails, Matches,
      SoundInv, ByPgBackRest, LoadLabels, HookLabels,
      PgBackRestLabels, ConfLabels, Offline
<1>15. CASE WriteConf
  BY <1>a, <1>15, DumpsFrame DEF WriteConf, Step, Goto, At, Finish, Fails,
      SoundInv, ByPgBackRest, LoadLabels, HookLabels,
      PgBackRestLabels, ConfLabels, Offline
<1>16. CASE WriteArchive
  BY <1>a, <1>16, DumpsFrame DEF WriteArchive, Step, Goto, At, Finish, Fails,
      SoundInv, ByPgBackRest, LoadLabels, HookLabels,
      PgBackRestLabels, ConfLabels, Offline
<1>17. CASE Confirm
  BY <1>a, <1>17, DumpsFrame DEF Confirm, Step, Goto, At, Finish, Fails,
      SoundInv, ByPgBackRest, LoadLabels, HookLabels,
      PgBackRestLabels, ConfLabels, Offline
<1>18. CASE ProbeDb
  BY <1>a, <1>18, DumpsFrame DEF ProbeDb, Step, Goto, At, Finish, Fails, Unanswered,
      SoundInv, ByPgBackRest, LoadLabels, HookLabels,
      PgBackRestLabels, ConfLabels, Offline
<1>19. CASE StopDb
  BY <1>a, <1>19, DumpsFrame DEF StopDb, Step, Goto, At, Finish, Fails,
      SoundInv, ByPgBackRest, LoadLabels, HookLabels,
      PgBackRestLabels, ConfLabels, Offline
<1>20. CASE Recheck
  BY <1>a, <1>20, DumpsFrame DEF Recheck, Step, Goto, At, Finish, Fails, Unanswered,
      SoundInv, ByPgBackRest, LoadLabels, HookLabels,
      PgBackRestLabels, ConfLabels, Offline
<1>21. CASE RunOneOff
  BY <1>a, <1>21, DumpsFrame DEF RunOneOff, Step, Goto, At, Finish, Fails,
      SoundInv, ByPgBackRest, LoadLabels, HookLabels,
      PgBackRestLabels, ConfLabels, Offline
<1>22. CASE AwaitOneOff
  BY <1>a, <1>22, DumpsFrame DEF AwaitOneOff, Step, Goto, At, Finish, Fails,
      SoundInv, ByPgBackRest, LoadLabels, HookLabels,
      PgBackRestLabels, ConfLabels, Offline
<1>23. CASE Sweep
  BY <1>a, <1>23, DumpsFrame DEF Sweep, Step, Goto, At, Finish, Fails,
      SoundInv, ByPgBackRest, LoadLabels, HookLabels,
      PgBackRestLabels, ConfLabels, Offline
<1>24. CASE KillOneOff
  BY <1>a, <1>24, DumpsFrame DEF KillOneOff, Step, Goto, At, Finish, Fails,
      SoundInv, ByPgBackRest, LoadLabels, HookLabels,
      PgBackRestLabels, ConfLabels, Offline
<1>25. CASE Terminate
  BY <1>a, <1>25, DumpsFrame DEF Terminate, Step, Goto, At, Finish, Fails,
      SoundInv, ByPgBackRest, LoadLabels, HookLabels,
      PgBackRestLabels, ConfLabels, Offline
<1>26. CASE UpDb
  BY <1>a, <1>26, DumpsFrame DEF UpDb, Step, Goto, At, Finish, Fails,
      SoundInv, ByPgBackRest, LoadLabels, HookLabels,
      PgBackRestLabels, ConfLabels, Offline
<1>27. CASE WaitRecovery
  BY <1>a, <1>27, DumpsFrame DEF WaitRecovery, Step, Goto, At, Finish, Fails,
      SoundInv, ByPgBackRest, LoadLabels, HookLabels,
      PgBackRestLabels, ConfLabels, Offline
<1>28. CASE Interrupt
  BY <1>a, <1>28, DumpsFrame DEF Interrupt, Step, Goto, At, Finish, Fails,
      SoundInv, ByPgBackRest, LoadLabels, HookLabels,
      PgBackRestLabels, ConfLabels, Offline
<1>29. CASE Killed
  BY <1>a, <1>29, DumpsFrame DEF Killed, Step, Goto, At, Finish, Fails,
      SoundInv, ByPgBackRest, LoadLabels, HookLabels,
      PgBackRestLabels, ConfLabels, Offline
<1>30. CASE OneOffStarts
  BY <1>a, <1>30, DumpsFrame DEF OneOffStarts,
      SoundInv, ByPgBackRest, LoadLabels, HookLabels,
      PgBackRestLabels, ConfLabels, Offline
<1>31. CASE OneOffEnds
  BY <1>a, <1>31, DumpsFrame DEF OneOffEnds, Restored,
      SoundInv, ByPgBackRest, LoadLabels, HookLabels,
      PgBackRestLabels, ConfLabels, Offline
<1>32. CASE OrphanEnds
  BY <1>a, <1>32, DumpsFrame DEF OrphanEnds, Restored,
      SoundInv, ByPgBackRest, LoadLabels, HookLabels,
      PgBackRestLabels, ConfLabels, Offline
<1>33. CASE Recovers
  BY <1>a, <1>33, DumpsFrame DEF Recovers,
      SoundInv, ByPgBackRest, LoadLabels, HookLabels,
      PgBackRestLabels, ConfLabels, Offline
<1>34. CASE DbStops
  BY <1>a, <1>34, DumpsFrame DEF DbStops,
      SoundInv, ByPgBackRest, LoadLabels, HookLabels,
      PgBackRestLabels, ConfLabels, Offline
<1>35. CASE OtherUp
  BY <1>a, <1>35, DumpsFrame DEF OtherUp,
      SoundInv, ByPgBackRest, LoadLabels, HookLabels,
      PgBackRestLabels, ConfLabels, Offline
<1>36. CASE ArchiveGoes
  <2>1. UNCHANGED <<req, pc, sound>>
    BY <1>36 DEF ArchiveGoes
  <2>2. (\A d \in Scope : IsDump(Src(d)))' => \A d \in Scope : IsDump(Src(d))
    <3>1. PICK s \in Sources : archive' = [archive EXCEPT ![s] = "foreign"]
      BY <1>36 DEF ArchiveGoes
    <3>2. archive \in [Sources -> {"foreign", "small", "good"}]
      BY DEF TypeOK, StackOK
    <3>3. \A d \in Scope : Src(d) \in Sources
      BY DEF Scope, Src, Sources
    <3> QED BY <2>1, <3>1, <3>2, <3>3 DEF Scope, Src, IsDump
  <2> QED BY <2>1, <2>2 DEF SoundInv, ByPgBackRest, LoadLabels, HookLabels,
      PgBackRestLabels, ConfLabels, Offline
<1> QED
  BY <1>0, <1>1, <1>2, <1>3, <1>4, <1>5, <1>6, <1>7, <1>8, <1>9, <1>10,
     <1>11, <1>12, <1>13, <1>14, <1>15, <1>16, <1>17, <1>18, <1>19, <1>20, <1>21,
     <1>22, <1>23, <1>24, <1>25, <1>26, <1>27, <1>28, <1>29, <1>30, <1>31, <1>32,
     <1>33, <1>34, <1>35, <1>36
  DEF Next, Proceed, World, Loading, HookStep, Offlining

THEOREM Steps == Spec => []StepInv
<1>1. Init => StepInv
  BY DEF Init, StepInv, OfflineInv, SoundInv, Offline, PgBackRestLabels, ConfLabels,
         LoadLabels, HookLabels
<1>2. TypeOK /\ StepInv /\ [Next]_vars => StepInv'
  BY OfflineStep, SoundStep DEF StepInv
<1> QED BY <1>1, <1>2, TypeCorrect, PTL DEF Spec

\* OneWriter: db is up beside the command's own container only if it was started
\* behind the command's back or the exec that asks for it failed (Unseen), and a
\* container that outlived its command is at work only after a kill, a dropped
\* connection or a sweep that missed it (Outliving).
THEOREM SingleWriter == Spec => []OneWriter
<1>1. TypeOK /\ StepInv => OneWriter
  BY DEF TypeOK, RunnerOK, StepInv, OfflineInv, OneWriter, Offline
<1> QED BY <1>1, TypeCorrect, Steps, PTL

\* NothingDroppedUnsound: the databases are as they were until every archive to load
\* has been seen to be a dump.
THEOREM NothingDropped == Spec => []NothingDroppedUnsound
<1>1. Init => NothingDroppedUnsound
  BY DEF Init, NothingDroppedUnsound
<1>2. ASSUME TypeOK, StepInv, NothingDroppedUnsound, [Next]_vars
      PROVE  NothingDroppedUnsound'
  <2> USE DEF files, cluster, runner, record, asked
  <2>a. sound \in BOOLEAN /\ SoundInv /\ OfflineInv
    BY <1>2 DEF TypeOK, RecordOK, StepInv
  \* What leaves the databases and the command line alone, and forgets nothing.
  <2>b. ASSUME UNCHANGED <<data, req, before>>, sound => sound', blind' = {} => blind = {}
        PROVE  NothingDroppedUnsound'
    BY <2>b, <1>2, <2>a DEF NothingDroppedUnsound, ByPgBackRest
  <2>0. CASE UNCHANGED vars
    BY <2>0, <2>b DEF vars
  <2>1. ASSUME NEW r \in Requests, Begin(r) PROVE NothingDroppedUnsound'
    BY <2>1 DEF Begin, NothingDroppedUnsound
  <2>2. CASE DropCreate \/ CopyIn \/ LoadEnds
    <3>1. UNCHANGED <<req, sound>> /\ pc \in LoadLabels
      BY <2>2 DEF DropCreate, CopyIn, LoadEnds, Step, Fails, At, LoadLabels
    <3> QED BY <2>a, <3>1 DEF SoundInv, NothingDroppedUnsound, ByPgBackRest
  <2>3. CASE Fetch
    BY <2>3, <2>b DEF Fetch
  <2>4. CASE CheckArchives \/ EnsureDb \/ StartDb
    BY <2>4, <2>b DEF CheckArchives, EnsureDb, StartDb
  <2>5. CASE HookStep
    BY <2>5, <2>b DEF HookStep, Psql, WebUp, Manage, RestartServices
  <2>6. CASE EnsureVolume \/ ReadConf \/ Confirm
    BY <2>6, <2>b DEF EnsureVolume, ReadConf, Confirm
  <2>12. CASE WriteConf \/ WriteArchive
    <3>1. UNCHANGED <<data, req, before, sound, blind>>
      BY <2>12 DEF WriteConf, WriteArchive
    <3> QED BY <3>1, <2>b
  <2>7. CASE ProbeDb \/ StopDb \/ Recheck \/ RunOneOff \/ AwaitOneOff
    BY <2>7, <2>b DEF ProbeDb, StopDb, Recheck, RunOneOff, AwaitOneOff, Unanswered
  <2>8. CASE Sweep \/ KillOneOff \/ Terminate \/ UpDb \/ WaitRecovery
    BY <2>8, <2>b DEF Sweep, KillOneOff, Terminate, UpDb, WaitRecovery
  <2>9. CASE OneOffEnds
    <3>1. UNCHANGED req /\ pc \in PgBackRestLabels
      BY <2>a, <2>9 DEF OneOffEnds, OfflineInv, PgBackRestLabels, Offline
    <3> QED BY <2>a, <3>1 DEF SoundInv, NothingDroppedUnsound, ByPgBackRest
  <2>10. CASE OrphanEnds
    BY <2>a, <2>10 DEF OrphanEnds, OfflineInv, NothingDroppedUnsound
  <2>11. CASE \/ Interrupt \/ Killed \/ OneOffStarts
              \/ Recovers \/ DbStops \/ OtherUp \/ ArchiveGoes
    BY <2>11, <2>b
    DEF Interrupt, Killed, OneOffStarts, Recovers, DbStops, OtherUp, ArchiveGoes
  <2> QED
    BY <1>2, <2>0, <2>1, <2>2, <2>3, <2>4, <2>5, <2>6, <2>7, <2>8, <2>9, <2>10, <2>11,
       <2>12
    DEF Next, Proceed, World, Loading, Offlining
<1> QED BY <1>1, <1>2, TypeCorrect, Steps, PTL DEF Spec

-----------------------------------------------------------------------------
(* What a restore that succeeds has done, and what web is started on.      *)

\* Whose turn it is: every database of the command is still to do or done with.
TurnInv ==
  /\ todo \cap hooked = {}
  /\ pc \in {"fetch", "check"} => hooked = {}
  /\ pc \notin {"idle", "fetch"} => todo \cup hooked = Scope /\ req.kind # "fetch"
  /\ pc \in {"fetch", "check"} \cup LoadLabels => ~ByPgBackRest(req)
  /\ pc \in {"web", "manage", "restart"} => Current \in scrubbed

Standing == {"drop", "copyIn", "loading", "upDb", "wait"} \cup HookLabels

\* Where PGDATA is known to be whole.
PgdataInv ==
  blind = {} =>
    /\ db # "stopped" \/ pc \in Standing \/ oneoff = "ok" => pgdata = "whole"

\* What has been restored: the databases done with and the one whose hooks run, or
\* with pgBackRest all of them.
DataInv ==
  blind = {} =>
    /\ pc \in LoadLabels \cup HookLabels => \A d \in hooked : data[d] = "restored"
    /\ pc \in HookLabels => data[Current] = "restored"
    /\ pc \in {"upDb", "wait"} \cup HookLabels /\ ByPgBackRest(req)
         => \A d \in Db : data[d] = "restored"
    /\ oneoff = "ok" => \A d \in Db : data[d] = "restored"

\* A running command is at work on one of its databases.
LEMMA TurnOf ==
  ASSUME TypeOK, pc # "idle"
  PROVE  Current \in todo /\ Current \in Db /\ todo \subseteq Db
BY CurrentInTodo DEF TypeOK, ControlOK

\* A database's hooks are over: whose turn it is then.
LEMMA DoneTurn ==
  ASSUME TypeOK, TurnInv, NEW l \in HookLabels, Done(l), UNCHANGED req
  PROVE  TurnInv'
<1>1. Current \in todo /\ pc \in HookLabels
  BY TurnOf DEF Done, At, HookLabels
<1>2. todo \cap hooked = {} /\ todo \cup hooked = Scope /\ req.kind # "fetch"
  BY <1>1 DEF TurnInv, HookLabels
<1>3. todo' \cap hooked' = {} /\ todo' \cup hooked' = Scope
  BY <1>1, <1>2 DEF Done
<1>4. pc' \in {"idle", "psql", "ensureDb"} /\ (pc' = "ensureDb" => ~ByPgBackRest(req))
  BY DEF Done
<1> QED BY <1>2, <1>3, <1>4 DEF TurnInv, Scope, ByPgBackRest, LoadLabels

LEMMA TurnStep == ASSUME TypeOK, SoundInv, TurnInv, [Next]_vars PROVE TurnInv'
<1> USE DEF files, cluster, runner, record, asked
<1> USE DEF TurnInv, Scope, ByPgBackRest, Current, LoadLabels, HookLabels, PgBackRestLabels, ConfLabels, Offline
<1>0. CASE UNCHANGED vars
  BY <1>0 DEF vars
<1>1. ASSUME NEW r \in Requests, Begin(r) PROVE TurnInv'
  <2>1. req' = r /\ hooked' = {} /\ pc' \in {"idle", "fetch", "check", "volume"}
    BY <1>1, BeginLabel DEF Begin
  <2>2. todo' = {} \/ todo' = Scope'
    BY <1>1, <2>1 DEF Begin, Finish
  <2>3. pc' \in {"fetch", "check"} => ~ByPgBackRest(r)
    BY <1>1 DEF Begin, Entry, Finish
  <2> QED BY <1>1, <2>1, <2>2, <2>3 DEF Begin, Entry, Finish
<1>2. CASE Fetch
  BY <1>2 DEF Fetch, Step, Goto, At, Finish, Fails
<1>3. CASE CheckArchives
  BY <1>3 DEF CheckArchives, Step, Goto, At, Finish, Fails
<1>4. CASE EnsureDb
  BY <1>4 DEF EnsureDb, Step, Goto, At, Finish, Fails
<1>5. CASE StartDb
  BY <1>5 DEF StartDb, Step, Goto, At, Finish, Fails
<1>6. CASE DropCreate
  BY <1>6 DEF DropCreate, Step, Goto, At, Finish, Fails
<1>7. CASE CopyIn
  BY <1>7 DEF CopyIn, Step, Goto, At, Finish, Fails
<1>8. CASE LoadEnds
  BY <1>8 DEF LoadEnds, Step, Goto, At, Finish, Fails
<1>9. CASE Psql
  <2>1. CASE Done("psql")
    BY <1>9, <2>1, DoneTurn DEF Psql
  <2>2. CASE ~Done("psql")
    BY <1>9, <2>2 DEF Psql, Step, Goto, At, Finish, Fails
  <2> QED BY <2>1, <2>2
<1>10. CASE WebUp
  BY <1>10 DEF WebUp, Step, Goto, At, Finish, Fails
<1>11. CASE Manage
  BY <1>11 DEF Manage, Step, Goto, At, Finish, Fails
<1>12. CASE RestartServices
  <2>1. CASE Done("restart")
    BY <1>12, <2>1, DoneTurn DEF RestartServices
  <2>2. CASE ~Done("restart")
    BY <1>12, <2>2 DEF RestartServices, Step, Goto, At, Finish, Fails
  <2> QED BY <2>1, <2>2
<1>13. CASE EnsureVolume
  BY <1>13 DEF EnsureVolume, Step, Goto, At, Finish, Fails
<1>14. CASE ReadConf
  BY <1>14 DEF ReadConf, Step, Goto, At, Finish, Fails, Matches
<1>15. CASE WriteConf
  BY <1>15 DEF WriteConf, Step, Goto, At, Finish, Fails
<1>16. CASE WriteArchive
  BY <1>16 DEF WriteArchive, Step, Goto, At, Finish, Fails
<1>17. CASE Confirm
  BY <1>17 DEF Confirm, Step, Goto, At, Finish, Fails
<1>18. CASE ProbeDb
  BY <1>18 DEF ProbeDb, Step, Goto, At, Finish, Fails, Unanswered
<1>19. CASE StopDb
  BY <1>19 DEF StopDb, Step, Goto, At, Finish, Fails
<1>20. CASE Recheck
  BY <1>20 DEF Recheck, Step, Goto, At, Finish, Fails, Unanswered
<1>21. CASE RunOneOff
  BY <1>21 DEF RunOneOff, Step, Goto, At, Finish, Fails
<1>22. CASE AwaitOneOff
  BY <1>22 DEF AwaitOneOff, Step, Goto, At, Finish, Fails
<1>23. CASE Sweep
  BY <1>23 DEF Sweep, Step, Goto, At, Finish, Fails
<1>24. CASE KillOneOff
  BY <1>24 DEF KillOneOff, Step, Goto, At, Finish, Fails
<1>25. CASE Terminate
  BY <1>25 DEF Terminate, Step, Goto, At, Finish, Fails
<1>26. CASE UpDb
  BY <1>26 DEF UpDb, Step, Goto, At, Finish, Fails
<1>27. CASE WaitRecovery
  BY <1>27 DEF WaitRecovery, Step, Goto, At, Finish, Fails
<1>28. CASE Interrupt
  BY <1>28 DEF Interrupt, Step, Goto, At, Finish, Fails
<1>29. CASE Killed
  BY <1>29 DEF Killed, Step, Goto, At, Finish, Fails
<1>30. CASE OneOffStarts
  BY <1>30 DEF OneOffStarts
<1>31. CASE OneOffEnds
  BY <1>31 DEF OneOffEnds, Restored
<1>32. CASE OrphanEnds
  BY <1>32 DEF OrphanEnds, Restored
<1>33. CASE Recovers
  BY <1>33 DEF Recovers
<1>34. CASE DbStops
  BY <1>34 DEF DbStops
<1>35. CASE OtherUp
  BY <1>35 DEF OtherUp
<1>36. CASE ArchiveGoes
  BY <1>36 DEF ArchiveGoes
<1> QED
  BY <1>0, <1>1, <1>2, <1>3, <1>4, <1>5, <1>6, <1>7, <1>8, <1>9, <1>10, <1>11, <1>12, <1>13,
    <1>14, <1>15, <1>16, <1>17, <1>18, <1>19, <1>20, <1>21, <1>22, <1>23, <1>24, <1>25, <1>26,
    <1>27, <1>28, <1>29, <1>30, <1>31, <1>32, <1>33, <1>34, <1>35, <1>36 DEF Next, Proceed,
    World, Loading, HookStep, Offlining

LEMMA PgdataStep == ASSUME TypeOK, OfflineInv, PgdataInv, [Next]_vars PROVE PgdataInv'
<1> USE DEF files, cluster, runner, record, asked
<1>a. db \in {"stopped", "recovering", "running"} /\ orphan \in BOOLEAN
  BY DEF TypeOK, StackOK, RunnerOK
<1> USE DEF OfflineInv, PgdataInv, Standing, HookLabels, Offline
<1>0. CASE UNCHANGED vars
  BY <1>0 DEF vars
<1>1. ASSUME NEW r \in Requests, Begin(r) PROVE PgdataInv'
  <2>1. pc' \in {"idle", "fetch", "check", "volume"}
    BY <1>1, BeginLabel
  <2> QED BY <1>1, <2>1 DEF Begin, Over, At
<1>2. CASE Fetch
  BY <1>2, <1>a DEF Fetch, Step, Goto, At, Finish, Fails
<1>3. CASE CheckArchives
  BY <1>3, <1>a DEF CheckArchives, Step, Goto, At, Finish, Fails
<1>4. CASE EnsureDb
  BY <1>4, <1>a DEF EnsureDb, Step, Goto, At, Finish, Fails
<1>5. CASE StartDb
  BY <1>5, <1>a DEF StartDb, Step, Goto, At, Finish, Fails
<1>6. CASE DropCreate
  BY <1>6, <1>a DEF DropCreate, Step, Goto, At, Finish, Fails
<1>7. CASE CopyIn
  BY <1>7, <1>a DEF CopyIn, Step, Goto, At, Finish, Fails
<1>8. CASE LoadEnds
  BY <1>8, <1>a DEF LoadEnds, Step, Goto, At, Finish, Fails
<1>9. CASE Psql
  BY <1>9, <1>a DEF Psql, Step, Goto, At, Finish, Fails, Done
<1>10. CASE WebUp
  BY <1>10, <1>a DEF WebUp, Step, Goto, At, Finish, Fails
<1>11. CASE Manage
  BY <1>11, <1>a DEF Manage, Step, Goto, At, Finish, Fails
<1>12. CASE RestartServices
  BY <1>12, <1>a DEF RestartServices, Step, Goto, At, Finish, Fails, Done
<1>13. CASE EnsureVolume
  BY <1>13, <1>a DEF EnsureVolume, Step, Goto, At, Finish, Fails
<1>14. CASE ReadConf
  BY <1>14, <1>a DEF ReadConf, Step, Goto, At, Finish, Fails, Matches
<1>15. CASE WriteConf
  BY <1>15, <1>a DEF WriteConf, Step, Goto, At, Finish, Fails
<1>16. CASE WriteArchive
  BY <1>16, <1>a DEF WriteArchive, Step, Goto, At, Finish, Fails
<1>17. CASE Confirm
  BY <1>17, <1>a DEF Confirm, Step, Goto, At, Finish, Fails
<1>18. CASE ProbeDb
  BY <1>18, <1>a DEF ProbeDb, Step, Goto, At, Finish, Fails, Unanswered
<1>19. CASE StopDb
  BY <1>19, <1>a DEF StopDb, Step, Goto, At, Finish, Fails
<1>20. CASE Recheck
  BY <1>20, <1>a DEF Recheck, Step, Goto, At, Finish, Fails, Unanswered
<1>21. CASE RunOneOff
  BY <1>21, <1>a DEF RunOneOff, Step, Goto, At, Finish, Fails
<1>22. CASE AwaitOneOff
  BY <1>22, <1>a DEF AwaitOneOff, Step, Goto, At, Finish, Fails
<1>23. CASE Sweep
  BY <1>23, <1>a DEF Sweep, Step, Goto, At, Finish, Fails
<1>24. CASE KillOneOff
  BY <1>24, <1>a DEF KillOneOff, Step, Goto, At, Finish, Fails
<1>25. CASE Terminate
  BY <1>25, <1>a DEF Terminate, Step, Goto, At, Finish, Fails
<1>26. CASE UpDb
  BY <1>26, <1>a DEF UpDb, Step, Goto, At, Finish, Fails
<1>27. CASE WaitRecovery
  BY <1>27, <1>a DEF WaitRecovery, Step, Goto, At, Finish, Fails
<1>28. CASE Interrupt
  BY <1>28, <1>a DEF Interrupt, Step, Goto, At, Finish, Fails
<1>29. CASE Killed
  BY <1>29, <1>a DEF Killed, Step, Goto, At, Finish, Fails
<1>30. CASE OneOffStarts
  BY <1>30, <1>a DEF OneOffStarts
<1>31. CASE OneOffEnds
  BY <1>31, <1>a DEF OneOffEnds, Restored
<1>32. CASE OrphanEnds
  BY <1>32, <1>a DEF OrphanEnds, Restored
<1>33. CASE Recovers
  BY <1>33, <1>a DEF Recovers
<1>34. CASE DbStops
  BY <1>34, <1>a DEF DbStops
<1>35. CASE OtherUp
  BY <1>35, <1>a DEF OtherUp
<1>36. CASE ArchiveGoes
  BY <1>36, <1>a DEF ArchiveGoes
<1> QED
  BY <1>0, <1>1, <1>2, <1>3, <1>4, <1>5, <1>6, <1>7, <1>8, <1>9, <1>10, <1>11, <1>12, <1>13,
    <1>14, <1>15, <1>16, <1>17, <1>18, <1>19, <1>20, <1>21, <1>22, <1>23, <1>24, <1>25, <1>26,
    <1>27, <1>28, <1>29, <1>30, <1>31, <1>32, <1>33, <1>34, <1>35, <1>36 DEF Next, Proceed,
    World, Loading, HookStep, Offlining

LEMMA DoneData ==
  ASSUME TypeOK, OfflineInv, TurnInv, DataInv, NEW l \in HookLabels, Done(l),
         UNCHANGED <<req, data, blind, oneoff>>
  PROVE  DataInv'
<1>1. Current \in todo /\ pc \in HookLabels /\ todo \subseteq Db
  BY TurnOf DEF Done, At, HookLabels
<1>2. SUFFICES ASSUME blind = {} PROVE DataInv'
  BY DEF DataInv
<1>3. /\ \A d \in hooked' : data[d] = "restored"
      /\ oneoff = "none"
  BY <1>1, <1>2 DEF DataInv, Done, OfflineInv, HookLabels
<1>4. CASE todo = {Current}
  BY <1>2, <1>3, <1>4 DEF DataInv, Done, HookLabels, LoadLabels
<1>5. CASE todo # {Current} /\ ByPgBackRest(req)
  <2>1. todo' \subseteq Db /\ todo' # {} /\ pc' = "psql"
    BY <1>1, <1>5 DEF Done
  <2>2. Current' \in Db
    BY <2>1, DbAssumption DEF Current
  <2>3. \A d \in Db : data[d] = "restored"
    BY <1>1, <1>2, <1>5 DEF DataInv
  <2> QED BY <1>2, <1>3, <2>1, <2>2, <2>3 DEF DataInv
<1>6. CASE todo # {Current} /\ ~ByPgBackRest(req)
  <2>1. pc' = "ensureDb"
    BY <1>6 DEF Done
  <2> QED BY <1>2, <1>3, <1>6, <2>1 DEF DataInv, HookLabels
<1> QED BY <1>4, <1>5, <1>6

LEMMA DataStep == ASSUME TypeOK, OfflineInv, SoundInv, TurnInv, DataInv, [Next]_vars PROVE DataInv'
<1> USE DEF files, cluster, runner, record, asked
<1>a. orphan \in BOOLEAN /\ data \in [Db -> Contents]
  BY DEF TypeOK, StackOK, RunnerOK
<1> USE DEF DataInv, Current, ByPgBackRest, LoadLabels, HookLabels, PgBackRestLabels, ConfLabels, Offline
<1>0. CASE UNCHANGED vars
  BY <1>0 DEF vars
<1>1. ASSUME NEW r \in Requests, Begin(r) PROVE DataInv'
  <2>1. pc' \in {"idle", "fetch", "check", "volume"}
    BY <1>1, BeginLabel
  <2> QED BY <1>1, <2>1 DEF Begin, OfflineInv, At
<1>2. CASE Fetch
  BY <1>2, <1>a DEF Fetch, Step, Goto, At, Finish, Fails
<1>3. CASE CheckArchives
  BY <1>3, <1>a DEF CheckArchives, TurnInv, Step, Goto, At, Finish, Fails
<1>4. CASE EnsureDb
  BY <1>4, <1>a DEF EnsureDb, Step, Goto, At, Finish, Fails
<1>5. CASE StartDb
  BY <1>5, <1>a DEF StartDb, Step, Goto, At, Finish, Fails
<1>6. CASE DropCreate
  <2> HIDE DEF Current, ByPgBackRest
  <2>1. Current \in todo /\ Current \in Db /\ todo \cap hooked = {} /\ hooked \subseteq Db
    BY <1>6, TurnOf DEF TurnInv, DropCreate, Step, Fails, At, TypeOK, RecordOK
  <2>2. data' \in {data} \cup {[data EXCEPT ![Current] = c] : c \in Contents}
    BY <1>6 DEF DropCreate, Contents
  <2>3. \A d \in hooked : data'[d] = data[d]
    BY <1>a, <2>1, <2>2
  <2>4. \/ pc' \in LoadLabels \cup {"idle"}
        \/ pc' = "psql" /\ todo' = todo /\ data'[Current] = "restored"
    BY <1>6, <1>a, <2>1 DEF DropCreate, Step, Goto, Finish, Fails
  <2>5. UNCHANGED <<hooked, blind, oneoff, req>> /\ pc \in LoadLabels
    BY <1>6 DEF DropCreate, Step, Fails, At
  <2>6. ~ByPgBackRest(req) /\ oneoff = "none"
    BY <2>5 DEF TurnInv, OfflineInv
  <2>7. todo' = todo => Current' = Current
    BY DEF Current
  <2> QED BY <2>3, <2>4, <2>5, <2>6, <2>7 DEF ByPgBackRest
<1>7. CASE CopyIn
  <2> HIDE DEF Current, ByPgBackRest
  <2>1. Current \in todo /\ Current \in Db /\ todo \cap hooked = {} /\ hooked \subseteq Db
    BY <1>7, TurnOf DEF TurnInv, CopyIn, Step, Fails, At, TypeOK, RecordOK
  <2>2. data' \in {data} \cup {[data EXCEPT ![Current] = c] : c \in Contents}
    BY <1>7 DEF CopyIn, Contents
  <2>3. \A d \in hooked : data'[d] = data[d]
    BY <1>a, <2>1, <2>2
  <2>4. \/ pc' \in LoadLabels \cup {"idle"}
        \/ pc' = "psql" /\ todo' = todo /\ data'[Current] = "restored"
    BY <1>7, <1>a, <2>1 DEF CopyIn, Step, Goto, Finish, Fails
  <2>5. UNCHANGED <<hooked, blind, oneoff, req>> /\ pc \in LoadLabels
    BY <1>7 DEF CopyIn, Step, Fails, At
  <2>6. ~ByPgBackRest(req) /\ oneoff = "none"
    BY <2>5 DEF TurnInv, OfflineInv
  <2>7. todo' = todo => Current' = Current
    BY DEF Current
  <2> QED BY <2>3, <2>4, <2>5, <2>6, <2>7 DEF ByPgBackRest
<1>8. CASE LoadEnds
  <2> HIDE DEF Current, ByPgBackRest
  <2>1. Current \in todo /\ Current \in Db /\ todo \cap hooked = {} /\ hooked \subseteq Db
    BY <1>8, TurnOf DEF TurnInv, LoadEnds, Step, Fails, At, TypeOK, RecordOK
  <2>2. data' \in {data} \cup {[data EXCEPT ![Current] = c] : c \in Contents}
    BY <1>8 DEF LoadEnds, Contents
  <2>3. \A d \in hooked : data'[d] = data[d]
    BY <1>a, <2>1, <2>2
  <2>4. \/ pc' \in LoadLabels \cup {"idle"}
        \/ pc' = "psql" /\ todo' = todo /\ data'[Current] = "restored"
    BY <1>8, <1>a, <2>1 DEF LoadEnds, Step, Goto, Finish, Fails
  <2>5. UNCHANGED <<hooked, blind, oneoff, req>> /\ pc \in LoadLabels
    BY <1>8 DEF LoadEnds, Step, Fails, At
  <2>6. ~ByPgBackRest(req) /\ oneoff = "none"
    BY <2>5 DEF TurnInv, OfflineInv
  <2>7. todo' = todo => Current' = Current
    BY DEF Current
  <2> QED BY <2>3, <2>4, <2>5, <2>6, <2>7 DEF ByPgBackRest
<1>9. CASE Psql
  <2>1. CASE Done("psql")
    <3>1. UNCHANGED <<req, data, blind, oneoff>>
      BY <1>9 DEF Psql
    <3> QED BY <2>1, <3>1, DoneData
  <2>2. CASE ~Done("psql")
    BY <1>9, <2>2, <1>a DEF Psql, Step, Goto, At, Finish, Fails
  <2> QED BY <2>1, <2>2
<1>10. CASE WebUp
  BY <1>10, <1>a DEF WebUp, Step, Goto, At, Finish, Fails
<1>11. CASE Manage
  BY <1>11, <1>a DEF Manage, Step, Goto, At, Finish, Fails
<1>12. CASE RestartServices
  <2>1. CASE Done("restart")
    <3>1. UNCHANGED <<req, data, blind, oneoff>>
      BY <1>12 DEF RestartServices
    <3> QED BY <2>1, <3>1, DoneData
  <2>2. CASE ~Done("restart")
    BY <1>12, <2>2, <1>a DEF RestartServices, Step, Goto, At, Finish, Fails
  <2> QED BY <2>1, <2>2
<1>13. CASE EnsureVolume
  BY <1>13, <1>a DEF EnsureVolume, Step, Goto, At, Finish, Fails
<1>14. CASE ReadConf
  BY <1>14, <1>a DEF ReadConf, Step, Goto, At, Finish, Fails, Matches
<1>15. CASE WriteConf
  BY <1>15, <1>a DEF WriteConf, Step, Goto, At, Finish, Fails
<1>16. CASE WriteArchive
  BY <1>16, <1>a DEF WriteArchive, Step, Goto, At, Finish, Fails
<1>17. CASE Confirm
  BY <1>17, <1>a DEF Confirm, Step, Goto, At, Finish, Fails
<1>18. CASE ProbeDb
  BY <1>18, <1>a DEF ProbeDb, Step, Goto, At, Finish, Fails, Unanswered
<1>19. CASE StopDb
  BY <1>19, <1>a DEF StopDb, Step, Goto, At, Finish, Fails
<1>20. CASE Recheck
  BY <1>20, <1>a DEF Recheck, Step, Goto, At, Finish, Fails, Unanswered
<1>21. CASE RunOneOff
  BY <1>21, <1>a DEF RunOneOff, Step, Goto, At, Finish, Fails
<1>22. CASE AwaitOneOff
  BY <1>22, <1>a DEF AwaitOneOff, Step, Goto, At, Finish, Fails
<1>23. CASE Sweep
  BY <1>23, <1>a DEF Sweep, Step, Goto, At, Finish, Fails
<1>24. CASE KillOneOff
  BY <1>24, <1>a DEF KillOneOff, Step, Goto, At, Finish, Fails
<1>25. CASE Terminate
  BY <1>25, <1>a DEF Terminate, Step, Goto, At, Finish, Fails
<1>26. CASE UpDb
  BY <1>26, <1>a DEF UpDb, Step, Goto, At, Finish, Fails
<1>27. CASE WaitRecovery
  <2>1. Current \in Db /\ oneoff = "none" /\ ByPgBackRest(req)
    BY <1>27, TurnOf DEF WaitRecovery, OfflineInv, SoundInv, Step, Fails, At
  <2>2. UNCHANGED <<data, hooked, oneoff, blind, req>> /\ pc = "wait"
    BY <1>27 DEF WaitRecovery, Step, Fails, At
  <2>3. CASE pc' = "idle"
    BY <2>1, <2>2, <2>3
  <2>4. CASE pc' = "psql" /\ todo' = todo
    <3>1. Current' = Current
      BY <2>4
    <3>2. hooked \subseteq Db
      BY DEF TypeOK, RecordOK
    <3> HIDE DEF Current
    <3> QED BY <2>1, <2>2, <2>4, <3>1, <3>2
  <2> QED BY <1>27, <2>3, <2>4 DEF WaitRecovery, Step, Goto, Finish, Fails
<1>28. CASE Interrupt
  BY <1>28, <1>a DEF Interrupt, Step, Goto, At, Finish, Fails
<1>29. CASE Killed
  BY <1>29, <1>a DEF Killed, Step, Goto, At, Finish, Fails
<1>30. CASE OneOffStarts
  BY <1>30, <1>a DEF OneOffStarts
<1>31. CASE OneOffEnds
  BY <1>31, <1>a DEF OneOffEnds, OfflineInv, Restored
<1>32. CASE OrphanEnds
  BY <1>32, <1>a DEF OrphanEnds, OfflineInv, Restored
<1>33. CASE Recovers
  BY <1>33, <1>a DEF Recovers
<1>34. CASE DbStops
  BY <1>34, <1>a DEF DbStops
<1>35. CASE OtherUp
  BY <1>35, <1>a DEF OtherUp
<1>36. CASE ArchiveGoes
  BY <1>36, <1>a DEF ArchiveGoes
<1> QED
  BY <1>0, <1>1, <1>2, <1>3, <1>4, <1>5, <1>6, <1>7, <1>8, <1>9, <1>10, <1>11, <1>12, <1>13,
    <1>14, <1>15, <1>16, <1>17, <1>18, <1>19, <1>20, <1>21, <1>22, <1>23, <1>24, <1>25, <1>26,
    <1>27, <1>28, <1>29, <1>30, <1>31, <1>32, <1>33, <1>34, <1>35, <1>36 DEF Next, Proceed,
    World, Loading, HookStep, Offlining

\* What a restore knows of itself at each of its steps.
RestoreInv == TurnInv /\ PgdataInv /\ DataInv

LEMMA RestoreAlways == Spec => []RestoreInv
<1>1. Init => RestoreInv
  BY DEF Init, RestoreInv, TurnInv, PgdataInv, DataInv, Standing, HookLabels, LoadLabels
<1>2. TypeOK /\ StepInv /\ RestoreInv /\ [Next]_vars => RestoreInv'
  BY TurnStep, PgdataStep, DataStep DEF RestoreInv, StepInv
<1> QED BY <1>1, <1>2, TypeCorrect, Steps, PTL DEF Spec

\* Web is started only over a restored database whose SQL hooks have run, whatever
\* fails, is killed or happens beside the command
\* (run_post_db_restore_manage_commands after run_db_psql_hooks).
THEOREM ScrubbedFirst == Spec => ScrubbedBeforeServed
<1>1. RestoreInv =>
        [At("web") /\ pc' = "manage" /\ blind = {}
           => data[Current] = "restored" /\ Current \in scrubbed]_vars
  BY DEF RestoreInv, TurnInv, DataInv, At, HookLabels
<1> QED BY <1>1, RestoreAlways, PTL DEF ScrubbedBeforeServed

\* A command succeeds in the last database's hooks, or as a fetch.
LEMMA SucceedsDone ==
  ASSUME [Next]_vars, pc # "idle", pc' = "idle", outcome' = "ok", req.kind # "fetch", ~req.dry
  PROVE  /\ \E l \in HookLabels : Done(l)
         /\ UNCHANGED <<req, data, pgdata>>
<1> USE DEF files, cluster, runner, record, asked
<1>1. ASSUME NEW r \in Requests, Begin(r) PROVE FALSE
  BY <1>1 DEF Begin, At
<1>2. CASE Loading
  BY <1>2 DEF Loading, Fetch, CheckArchives, EnsureDb, StartDb, DropCreate, CopyIn,
              LoadEnds, Step, Goto, Finish, Fails, At
<1>3. CASE Offlining
  BY <1>3 DEF Offlining, EnsureVolume, ReadConf, WriteConf, WriteArchive, Confirm, ProbeDb,
              StopDb, Recheck, Unanswered, RunOneOff, AwaitOneOff, Sweep, KillOneOff,
              Terminate, UpDb, WaitRecovery, Step, Goto, Finish, Fails, At
<1>4. CASE World
  BY <1>4 DEF World, Interrupt, Killed, OneOffStarts, OneOffEnds, OrphanEnds, Recovers,
              DbStops, OtherUp, ArchiveGoes, Step, Goto, Finish, At
<1>5. CASE WebUp \/ Manage
  BY <1>5 DEF WebUp, Manage, Step, Goto, Finish, Fails
<1>6. CASE Psql
  BY <1>6 DEF Psql, Step, Goto, Finish, Fails, HookLabels
<1>7. CASE RestartServices
  BY <1>7 DEF RestartServices, Finish, Fails, HookLabels
<1>8. CASE UNCHANGED vars
  BY <1>8 DEF vars
<1> QED BY <1>1, <1>2, <1>3, <1>4, <1>5, <1>6, <1>7, <1>8 DEF Next, Proceed, HookStep

\* A restore that reports success has replaced every database of its command, run
\* the hooks of each and left PGDATA whole, whichever way it restored and whatever
\* happened meanwhile, unless something happened behind its back
\* (run_unified_db_restore).
THEOREM SuccessWhole == Spec => SuccessIsWhole
<1>1. TypeOK /\ RestoreInv /\ [Next]_vars =>
        [pc # "idle" /\ pc' = "idle" /\ outcome' = "ok" /\ blind = {}
         /\ req.kind # "fetch" /\ ~req.dry
           => pgdata' = "whole"
              /\ \A d \in Scope : data'[d] = "restored" /\ d \in hooked']_vars
  <2> SUFFICES ASSUME TypeOK, RestoreInv, [Next]_vars, pc # "idle", pc' = "idle",
                      outcome' = "ok", blind = {}, req.kind # "fetch", ~req.dry
               PROVE  /\ pgdata' = "whole"
                      /\ \A d \in Scope : data'[d] = "restored" /\ d \in hooked'
    OBVIOUS
  <2>1. PICK l \in HookLabels : Done(l)
    BY SucceedsDone
  <2>2. UNCHANGED <<data, pgdata>> /\ pc = l
    BY <2>1, SucceedsDone DEF Done, At
  <2>3. hooked' = hooked \cup {Current} /\ todo = {Current}
    BY <2>1 DEF Done
  <2>4. todo \cup hooked = Scope
    BY <2>2 DEF RestoreInv, TurnInv, HookLabels
  <2>5. pgdata = "whole" /\ data[Current] = "restored" /\ \A d \in hooked : data[d] = "restored"
    BY <2>2 DEF RestoreInv, PgdataInv, DataInv, Standing
  <2> QED BY <2>2, <2>3, <2>4, <2>5
<1> QED BY <1>1, RestoreAlways, TypeCorrect, PTL DEF Spec, SuccessIsWhole
=============================================================================
