-------------------------- MODULE DataCopyProofs --------------------------
(***************************************************************************)
(* Theorems of DataCopy, for any set of uploads, either command or both,   *)
(* any configuration and any number of commands.  Each invariant has one   *)
(* lemma per group of steps: the ones that end or abandon a command, the   *)
(* database's, the media's.                                                *)
(***************************************************************************)
EXTENDS DataCopy, TLAPS

USE OldIsOther, KindsAreKnown, SettingsAreBoolean, BoundIsNat

-----------------------------------------------------------------------------
(* Type correctness *)

WorldOK ==
  /\ item \in [Items -> Stages]
  /\ volumes \in [Sides -> BOOLEAN]
  /\ dbUp \in [Sides -> BOOLEAN]
  /\ writers \in BOOLEAN
  /\ role \in BOOLEAN

DataOK ==
  /\ database \in [state : DbStates, rows : SUBSET Objects]
  /\ media \subseteq Objects
  /\ dump \subseteq Objects
  /\ stage \subseteq Objects
  /\ session \in BOOLEAN
  /\ began \in [Items -> Stages]

ControlOK ==
  /\ pc \in Phases
  /\ args \in Args
  /\ outcome \in {"none", "ok", "failed", "aborted", "killed"}
  /\ faults \in BOOLEAN
  /\ notes \subseteq Notes
  /\ promoted \in BOOLEAN
  /\ first \in [Items -> Stages]
  /\ commands \in Nat

LEMMA Parts == TypeOK <=> WorldOK /\ DataOK /\ ControlOK
BY DEF TypeOK, WorldOK, DataOK, ControlOK

LEMMA ArgsNonempty == NoArgs \in Args
<1>1. PICK k \in Kinds : TRUE
  OBVIOUS
<1>2. [kind |-> k, db |-> TRUE, media |-> TRUE, dry |-> TRUE,
       method |-> "tar", keep |-> TRUE] \in Args
  BY <1>1 DEF Args
<1> QED
  BY <1>2 DEF NoArgs

LEMMA KindOfArgs == TypeOK => args.kind \in {"transfer", "seed"}
BY DEF TypeOK, Args

LEMMA FileSets ==
  ASSUME WorldOK, DataOK
  PROVE  /\ Files \subseteq Objects /\ Rows \subseteq Objects
         /\ Steady \subseteq Objects /\ Seen \subseteq Objects
         /\ \A copy \in Copies : copy \subseteq Objects
BY DEF Files, FilesOf, Rows, Steady, Seen, Copies, Objects

LEMMA InitTypes == Init => TypeOK
<1> SUFFICES ASSUME Init PROVE TypeOK
  OBVIOUS
<1>1. WorldOK
  BY DEF Init, WorldOK, Stages, Fresh
<1>2. DataOK
  <2>1. /\ database \in [state : DbStates, rows : SUBSET Objects]
        /\ media \subseteq Objects
    <3>1. CASE database = [state |-> "whole", rows |-> {Old}] /\ media = {Old}
      BY <3>1 DEF DbStates, Objects
    <3>2. CASE database = [state |-> "empty", rows |-> {}] /\ media = {}
      BY <3>2 DEF DbStates, Objects
    <3> QED
      BY <3>1, <3>2 DEF Init
  <2> QED
    BY <2>1 DEF Init, DataOK, Fresh, Stages
<1>3. ControlOK
  BY ArgsNonempty DEF Init, ControlOK, Phases, Fresh, Stages, Notes
<1> QED
  BY <1>1, <1>2, <1>3, Parts

LEMMA StepTypes ==
  ASSUME TypeOK, Step \/ Begin \/ Killed \/ DbStops
  PROVE  TypeOK'
<1> USE Parts, FileSets
<1> SUFFICES WorldOK' /\ DataOK' /\ ControlOK'
  BY DEF TypeOK, WorldOK, DataOK, ControlOK
<1>1. CASE \E s \in Sides : CheckSide(s)
  <2>1. WorldOK'
    BY <1>1 DEF TypeOK, WorldOK, CheckSide, source, target, report, workdir, control
  <2>2. DataOK'
    BY <1>1 DEF TypeOK, WorldOK, DataOK, CheckSide, source, target, report, workdir, control,
      DbStates, Objects
  <2>3. ControlOK'
    BY <1>1 DEF TypeOK, ControlOK, CheckSide, source, target, report, workdir, control, AfterDb,
      AfterMedia, OnFailure, Phases, Sides, Rebuilding, Copying, Notes
  <2> QED
    BY <2>1, <2>2, <2>3
<1>2. CASE Decide
  <2>1. WorldOK'
    BY <1>2 DEF TypeOK, WorldOK, Decide, source, target, report, workdir, control
  <2>2. DataOK'
    BY <1>2 DEF TypeOK, WorldOK, DataOK, Decide, source, target, report, workdir, control,
      DbStates, Objects
  <2>3. ControlOK'
    BY <1>2 DEF TypeOK, ControlOK, Decide, source, target, report, workdir, control, Goto, End,
      AfterDb, AfterMedia, OnFailure, Phases, Sides, Rebuilding, Copying, Notes
  <2> QED
    BY <2>1, <2>2, <2>3
<1>3. CASE StopWriters
  <2>1. WorldOK'
    BY <1>3 DEF TypeOK, WorldOK, StopWriters, source, target, report, workdir, control
  <2>2. DataOK'
    BY <1>3 DEF TypeOK, WorldOK, DataOK, StopWriters, source, target, report, workdir, control,
      DbStates, Objects
  <2>3. ControlOK'
    BY <1>3 DEF TypeOK, ControlOK, StopWriters, source, target, report, workdir, control,
      AfterDb, AfterMedia, OnFailure, Phases, Sides, Rebuilding, Copying, Notes
  <2> QED
    BY <2>1, <2>2, <2>3
<1>4. CASE RestartWriters
  <2>1. WorldOK'
    BY <1>4 DEF TypeOK, WorldOK, RestartWriters, source, target, report, workdir, control
  <2>2. DataOK'
    BY <1>4 DEF TypeOK, WorldOK, DataOK, RestartWriters, source, target, report, workdir,
      control, DbStates, Objects
  <2>3. ControlOK'
    <3>1. notes' \subseteq Notes
      BY <1>4 DEF TypeOK, RestartWriters, Notes
    <3>2. pc' \in Phases
      BY <1>4 DEF TypeOK, RestartWriters, Phases
    <3> QED
      BY <1>4, <3>1, <3>2 DEF TypeOK, ControlOK, RestartWriters, control
  <2> QED
    BY <2>1, <2>2, <2>3
<1>5. CASE Confirm
  <2>1. WorldOK'
    BY <1>5 DEF TypeOK, WorldOK, Confirm, source, target, report, workdir, control
  <2>2. DataOK'
    BY <1>5 DEF TypeOK, WorldOK, DataOK, Confirm, source, target, report, workdir, control,
      DbStates, Objects
  <2>3. ControlOK'
    BY <1>5 DEF TypeOK, ControlOK, Confirm, source, target, report, workdir, control, Goto, End,
      AfterDb, AfterMedia, OnFailure, Phases, Sides, Rebuilding, Copying, Notes
  <2> QED
    BY <2>1, <2>2, <2>3
<1>6. CASE EnsureDatabases
  <2>1. WorldOK'
    BY <1>6 DEF TypeOK, WorldOK, EnsureDatabases, source, target, report, workdir, control
  <2>2. DataOK'
    BY <1>6 DEF TypeOK, WorldOK, DataOK, EnsureDatabases, source, target, report, workdir,
      control, DbStates, Objects
  <2>3. ControlOK'
    BY <1>6 DEF TypeOK, ControlOK, EnsureDatabases, source, target, report, workdir, control,
      Goto, Fail, AfterDb, AfterMedia, OnFailure, Phases, Sides, Rebuilding, Copying, Notes
  <2> QED
    BY <2>1, <2>2, <2>3
<1>7. CASE Dump
  <2>1. WorldOK'
    BY <1>7 DEF TypeOK, WorldOK, Dump, source, target, report, workdir, control
  <2>2. DataOK'
    BY <1>7 DEF TypeOK, WorldOK, DataOK, Dump, source, target, report, workdir, control,
      DbStates, Objects
  <2>3. ControlOK'
    BY <1>7 DEF TypeOK, ControlOK, Dump, source, target, report, workdir, control, Goto, Fail,
      AfterDb, AfterMedia, OnFailure, Phases, Sides, Rebuilding, Copying, Notes
  <2> QED
    BY <2>1, <2>2, <2>3
<1>8. CASE DropCreate
  <2>1. WorldOK'
    BY <1>8 DEF TypeOK, WorldOK, DropCreate, source, target, report, workdir, control
  <2>2. DataOK'
    BY <1>8 DEF TypeOK, WorldOK, DataOK, DropCreate, source, target, report, workdir, control,
      DbStates, Objects
  <2>3. ControlOK'
    BY <1>8 DEF TypeOK, ControlOK, DropCreate, source, target, report, workdir, control, Goto,
      Fail, AfterDb, AfterMedia, OnFailure, Phases, Sides, Rebuilding, Copying, Notes
  <2> QED
    BY <2>1, <2>2, <2>3
<1>9. CASE Restore
  <2>1. WorldOK'
    BY <1>9 DEF TypeOK, WorldOK, Restore, source, target, report, workdir, control
  <2>2. DataOK'
    BY <1>9 DEF TypeOK, WorldOK, DataOK, Restore, source, target, report, workdir, control,
      DbStates, Objects
  <2>3. ControlOK'
    BY <1>9 DEF TypeOK, ControlOK, Restore, source, target, report, workdir, control, Goto,
      Fail, AfterDb, AfterMedia, OnFailure, Phases, Sides, Rebuilding, Copying, Notes
  <2> QED
    BY <2>1, <2>2, <2>3
<1>10. CASE RestoreEnds
  <2>1. WorldOK'
    BY <1>10 DEF TypeOK, WorldOK, RestoreEnds, source, target, report, workdir, control
  <2>2. DataOK'
    BY <1>10 DEF TypeOK, WorldOK, DataOK, RestoreEnds, source, target, report, workdir, control,
      DbStates, Objects
  <2>3. ControlOK'
    BY <1>10 DEF TypeOK, ControlOK, RestoreEnds, source, target, report, workdir, control, Goto,
      Fail, AfterDb, AfterMedia, OnFailure, Phases, Sides, Rebuilding, Copying, Notes
  <2> QED
    BY <2>1, <2>2, <2>3
<1>11. CASE ChooseMedia
  <2>1. WorldOK'
    BY <1>11 DEF TypeOK, WorldOK, ChooseMedia, source, target, report, workdir, control
  <2>2. DataOK'
    BY <1>11 DEF TypeOK, WorldOK, DataOK, ChooseMedia, source, target, report, workdir, control,
      StartCopy, DbStates, Objects
  <2>3. ControlOK'
    <3>1. notes' \subseteq Notes
      BY <1>11 DEF TypeOK, ChooseMedia, StartCopy, Goto, report, Notes
    <3>2. pc' \in Phases
      BY <1>11 DEF TypeOK, ChooseMedia, StartCopy, Goto, AfterMedia, Phases, Copying
    <3> QED
      BY <1>11, <3>1, <3>2 DEF TypeOK, ControlOK, ChooseMedia, StartCopy, Goto, report, control
  <2> QED
    BY <2>1, <2>2, <2>3
<1>12. CASE DirectRsync
  <2>1. WorldOK'
    BY <1>12 DEF TypeOK, WorldOK, DirectRsync, source, target, report, workdir, control
  <2>2. DataOK'
    BY <1>12 DEF TypeOK, WorldOK, DataOK, DirectRsync, source, target, report, workdir, control,
      Torn, StartCopy, DbStates, Objects
  <2>3. ControlOK'
    BY <1>12 DEF TypeOK, ControlOK, DirectRsync, source, target, report, workdir, control, Goto,
      StartCopy, AfterDb, AfterMedia, OnFailure, Phases, Sides, Rebuilding, Copying, Notes
  <2> QED
    BY <2>1, <2>2, <2>3
<1>13. CASE StageRsync
  <2>1. WorldOK'
    BY <1>13 DEF TypeOK, WorldOK, StageRsync, source, target, report, workdir, control
  <2>2. DataOK'
    BY <1>13 DEF TypeOK, WorldOK, DataOK, StageRsync, source, target, report, workdir, control,
      StartCopy, DbStates, Objects
  <2>3. ControlOK'
    BY <1>13 DEF TypeOK, ControlOK, StageRsync, source, target, report, workdir, control, Goto,
      StartCopy, AfterDb, AfterMedia, OnFailure, Phases, Sides, Rebuilding, Copying, Notes
  <2> QED
    BY <2>1, <2>2, <2>3
<1>14. CASE PullTar
  <2>1. WorldOK'
    BY <1>14 DEF TypeOK, WorldOK, PullTar, source, target, report, workdir, control
  <2>2. DataOK'
    BY <1>14 DEF TypeOK, WorldOK, DataOK, PullTar, source, target, report, workdir, control,
      DbStates, Objects
  <2>3. ControlOK'
    BY <1>14 DEF TypeOK, ControlOK, PullTar, source, target, report, workdir, control, Goto,
      Fail, AfterDb, AfterMedia, OnFailure, Phases, Sides, Rebuilding, Copying, Notes
  <2> QED
    BY <2>1, <2>2, <2>3
<1>15. CASE PushRsync
  <2>1. WorldOK'
    BY <1>15 DEF TypeOK, WorldOK, PushRsync, source, target, report, workdir, control
  <2>2. DataOK'
    BY <1>15 DEF TypeOK, WorldOK, DataOK, PushRsync, source, target, report, workdir, control,
      Torn, DbStates, Objects
  <2>3. ControlOK'
    BY <1>15 DEF TypeOK, ControlOK, PushRsync, source, target, report, workdir, control, Goto,
      End, AfterDb, AfterMedia, OnFailure, Phases, Sides, Rebuilding, Copying, Notes
  <2> QED
    BY <2>1, <2>2, <2>3
<1>16. CASE PushTar
  <2>1. WorldOK'
    BY <1>16 DEF TypeOK, WorldOK, PushTar, source, target, report, workdir, control
  <2>2. DataOK'
    BY <1>16 DEF TypeOK, WorldOK, DataOK, PushTar, source, target, report, workdir, control,
      DbStates, Objects
  <2>3. ControlOK'
    BY <1>16 DEF TypeOK, ControlOK, PushTar, source, target, report, workdir, control, Goto,
      Fail, AfterDb, AfterMedia, OnFailure, Phases, Sides, Rebuilding, Copying, Notes
  <2> QED
    BY <2>1, <2>2, <2>3
<1>17. CASE Extract
  <2>1. WorldOK'
    BY <1>17 DEF TypeOK, WorldOK, Extract, source, target, report, workdir, control
  <2>2. DataOK'
    BY <1>17 DEF TypeOK, WorldOK, DataOK, Extract, source, target, report, workdir, control,
      DbStates, Objects
  <2>3. ControlOK'
    BY <1>17 DEF TypeOK, ControlOK, Extract, source, target, report, workdir, control, Goto,
      Fail, AfterDb, AfterMedia, OnFailure, Phases, Sides, Rebuilding, Copying, Notes
  <2> QED
    BY <2>1, <2>2, <2>3
<1>18. CASE Hooks
  <2>1. WorldOK'
    BY <1>18 DEF TypeOK, WorldOK, Hooks, source, target, report, workdir, control
  <2>2. DataOK'
    BY <1>18 DEF TypeOK, WorldOK, DataOK, Hooks, source, target, report, workdir, control,
      DbStates, Objects
  <2>3. ControlOK'
    BY <1>18 DEF TypeOK, ControlOK, Hooks, source, target, report, workdir, control, AfterDb,
      AfterMedia, OnFailure, Phases, Sides, Rebuilding, Copying, Notes
  <2> QED
    BY <2>1, <2>2, <2>3
<1>19. CASE Cleanup
  <2>1. WorldOK'
    BY <1>19 DEF TypeOK, WorldOK, Cleanup, source, target, report, workdir, control
  <2>2. DataOK'
    BY <1>19 DEF TypeOK, WorldOK, DataOK, Cleanup, source, target, report, workdir, control,
      DbStates, Objects
  <2>3. ControlOK'
    BY <1>19 DEF TypeOK, ControlOK, Cleanup, source, target, report, workdir, control, End,
      AfterDb, AfterMedia, OnFailure, Phases, Sides, Rebuilding, Copying, Notes
  <2> QED
    BY <2>1, <2>2, <2>3
<1>20. CASE Begin
  <2>1. WorldOK'
    BY <1>20 DEF TypeOK, WorldOK, Begin, source, target, report, workdir, control
  <2>2. DataOK'
    BY <1>20 DEF TypeOK, WorldOK, DataOK, Begin, source, target, report, workdir, control,
      DbStates, Objects
  <2>3. ControlOK'
    <3>1. args' \in Args /\ pc' \in Phases /\ outcome' \in {"none", "ok"}
      BY <1>20 DEF Begin, Phases, Sides
    <3>2. notes' \subseteq Notes /\ first' \in [Items -> Stages] /\ commands' \in Nat
      BY <1>20 DEF TypeOK, Begin
    <3> QED
      BY <1>20, <3>1, <3>2 DEF TypeOK, ControlOK, Begin
  <2> QED
    BY <2>1, <2>2, <2>3
<1>21. CASE Killed
  <2>1. WorldOK'
    BY <1>21 DEF TypeOK, WorldOK, Killed, source, target, report, workdir, control
  <2>2. DataOK'
    BY <1>21 DEF TypeOK, WorldOK, DataOK, Killed, source, target, report, workdir, control,
      DbStates, Objects
  <2>3. ControlOK'
    BY <1>21 DEF TypeOK, ControlOK, Killed, source, target, report, workdir, control, End,
      AfterDb, AfterMedia, OnFailure, Phases, Sides, Rebuilding, Copying, Notes
  <2> QED
    BY <2>1, <2>2, <2>3
<1>22. CASE DbStops
  <2>1. WorldOK'
    BY <1>22 DEF TypeOK, WorldOK, DbStops, source, target, report, workdir, control
  <2>2. DataOK'
    BY <1>22 DEF TypeOK, WorldOK, DataOK, DbStops, source, target, report, workdir, control,
      DbStates, Objects
  <2>3. ControlOK'
    BY <1>22 DEF TypeOK, ControlOK, DbStops, source, target, report, workdir, control, Fail,
      AfterDb, AfterMedia, OnFailure, Phases, Sides, Rebuilding, Copying, Notes
  <2> QED
    BY <2>1, <2>2, <2>3
<1> QED
  BY <1>1, <1>2, <1>3, <1>4, <1>5, <1>6, <1>7, <1>8, <1>9, <1>10, <1>11, <1>12, <1>13, <1>14,
    <1>15, <1>16, <1>17, <1>18, <1>19, <1>20, <1>21, <1>22 DEF Step

\* The source's application moves one upload.
LEMMA SourceTypes ==
  ASSUME TypeOK, NEW i \in Items, SourceMoves(i)
  PROVE  TypeOK'
<1>1. item' \in [Items -> Stages]
  BY DEF TypeOK, SourceMoves
<1> QED
  BY <1>1 DEF TypeOK, SourceMoves, target, report, workdir, control

LEMMA StutterTypes == TypeOK /\ UNCHANGED vars => TypeOK'
BY DEF TypeOK, vars, source, target, report, workdir, control

\* Every variable keeps its type, for any uploads and any number of commands
\* (cmd_transfer, worktree_seed).
THEOREM TypeCorrect == Spec => []TypeOK
<1>1. TypeOK /\ [Next]_vars => TypeOK'
  BY StepTypes, SourceTypes, StutterTypes DEF Next
<1> QED
  BY InitTypes, <1>1, PTL DEF Spec

-----------------------------------------------------------------------------
(* The writers: once the command has passed StopWriters, they are stopped  *)
(* or a note says why they may not be, until RestartWriters.               *)

Stopped == {"dump", "drop", "media"} \cup Rebuilding \cup Copying

\* Which command has which phases.
PhaseInv ==
  /\ pc \in {"confirm", "ensure"} => args.kind = "seed"
  /\ pc \in Sides \cup {"decide", "stop", "restart"} => args.kind = "transfer"

LEMMA PhaseStep == TypeOK /\ PhaseInv /\ [Next]_vars => PhaseInv'
<1> SUFFICES ASSUME TypeOK, PhaseInv, [Next]_vars PROVE PhaseInv'
  OBVIOUS
<1> USE KindOfArgs DEF PhaseInv, Sides
<1>1. CASE \E s \in Sides : CheckSide(s)
  BY <1>1 DEF CheckSide, target, workdir, control
<1>2. CASE Decide
  BY <1>2 DEF Decide, target, report, control, Goto, End
<1>3. CASE StopWriters
  BY <1>3 DEF StopWriters, workdir, control
<1>4. CASE RestartWriters
  BY <1>4 DEF RestartWriters, control
<1>5. CASE Confirm
  BY <1>5 DEF Confirm, target, report, control, Goto, End
<1>6. CASE EnsureDatabases
  BY <1>6 DEF EnsureDatabases, target, report, workdir, control, Goto, Fail, OnFailure
<1>7. CASE Dump
  BY <1>7 DEF Dump, target, report, control, Goto, Fail, OnFailure
<1>8. CASE DropCreate
  BY <1>8 DEF DropCreate, report, workdir, control, Goto, Fail, OnFailure
<1>9. CASE Restore
  BY <1>9 DEF Restore, report, workdir, control, Goto, Fail, OnFailure
<1>10. CASE RestoreEnds
  BY <1>10 DEF RestoreEnds, report, workdir, control, Goto, Fail, OnFailure, AfterDb
<1>11. CASE ChooseMedia
  BY <1>11 DEF ChooseMedia, target, report, workdir, control, StartCopy, Goto, AfterMedia
<1>12. CASE DirectRsync
  BY <1>12 DEF DirectRsync, report, workdir, control, Goto, StartCopy, AfterMedia
<1>13. CASE StageRsync
  BY <1>13 DEF StageRsync, target, report, control, Goto, StartCopy
<1>14. CASE PullTar
  BY <1>14 DEF PullTar, target, report, control, Goto, Fail, OnFailure
<1>15. CASE PushRsync
  BY <1>15 DEF PushRsync, report, control, Goto, End, AfterMedia
<1>16. CASE PushTar
  BY <1>16 DEF PushTar, report, workdir, control, Goto, Fail, OnFailure
<1>17. CASE Extract
  BY <1>17 DEF Extract, report, workdir, control, Goto, Fail, OnFailure, AfterMedia
<1>18. CASE Hooks
  BY <1>18 DEF Hooks, workdir, control
<1>19. CASE Cleanup
  BY <1>19 DEF Cleanup, target, control, End
<1>20. CASE Begin
  BY <1>20 DEF Begin, target, Args
<1>21. CASE Killed
  BY <1>21 DEF Killed, workdir, control, End
<1>22. CASE DbStops
  BY <1>22 DEF DbStops, report, workdir, control, Fail, OnFailure
<1>23. CASE \E i \in Items : SourceMoves(i)
  BY <1>23 DEF SourceMoves, target, report, workdir, control
<1>24. CASE UNCHANGED vars
  BY <1>24 DEF vars, target, report, workdir, control
<1> QED
  BY <1>1, <1>2, <1>3, <1>4, <1>5, <1>6, <1>7, <1>8, <1>9, <1>10, <1>11, <1>12, <1>13, <1>14,
    <1>15, <1>16, <1>17, <1>18, <1>19, <1>20, <1>21, <1>22, <1>23, <1>24 DEF Next, Step

QuietInv ==
  args.kind = "transfer" /\ pc \in Stopped /\ writers
    => notes \cap {"stopFailed", "unlisted"} # {}

LEMMA QuietStep == TypeOK /\ PhaseInv /\ QuietInv /\ [Next]_vars => QuietInv'
<1> SUFFICES ASSUME TypeOK, PhaseInv, QuietInv, [Next]_vars PROVE QuietInv'
  OBVIOUS
<1> USE KindOfArgs DEF PhaseInv, QuietInv, Stopped, Rebuilding, Copying
<1>1. CASE \E s \in Sides : CheckSide(s)
  BY <1>1 DEF CheckSide, target, workdir, control
<1>2. CASE Decide
  BY <1>2 DEF Decide, target, report, control, Goto, End
<1>3. CASE StopWriters
  BY <1>3 DEF StopWriters, workdir, control
<1>4. CASE RestartWriters
  BY <1>4 DEF RestartWriters, control
<1>5. CASE Confirm
  BY <1>5 DEF Confirm, target, report, control, Goto, End
<1>6. CASE EnsureDatabases
  BY <1>6 DEF EnsureDatabases, target, report, workdir, control, Goto, Fail, OnFailure
<1>7. CASE Dump
  BY <1>7 DEF Dump, target, report, control, Goto, Fail, OnFailure
<1>8. CASE DropCreate
  BY <1>8 DEF DropCreate, report, workdir, control, Goto, Fail, OnFailure
<1>9. CASE Restore
  BY <1>9 DEF Restore, report, workdir, control, Goto, Fail, OnFailure
<1>10. CASE RestoreEnds
  BY <1>10 DEF RestoreEnds, report, workdir, control, Goto, Fail, OnFailure, AfterDb
<1>11. CASE ChooseMedia
  BY <1>11 DEF ChooseMedia, target, report, workdir, control, StartCopy, Goto, AfterMedia
<1>12. CASE DirectRsync
  BY <1>12 DEF DirectRsync, report, workdir, control, Goto, StartCopy, AfterMedia
<1>13. CASE StageRsync
  BY <1>13 DEF StageRsync, target, report, control, Goto, StartCopy
<1>14. CASE PullTar
  BY <1>14 DEF PullTar, target, report, control, Goto, Fail, OnFailure
<1>15. CASE PushRsync
  BY <1>15 DEF PushRsync, report, control, Goto, End, AfterMedia
<1>16. CASE PushTar
  BY <1>16 DEF PushTar, report, workdir, control, Goto, Fail, OnFailure
<1>17. CASE Extract
  BY <1>17 DEF Extract, report, workdir, control, Goto, Fail, OnFailure, AfterMedia
<1>18. CASE Hooks
  BY <1>18 DEF Hooks, workdir, control
<1>19. CASE Cleanup
  BY <1>19 DEF Cleanup, target, control, End
<1>20. CASE Begin
  BY <1>20 DEF Begin, target, Args
<1>21. CASE Killed
  BY <1>21 DEF Killed, workdir, control, End
<1>22. CASE DbStops
  BY <1>22 DEF DbStops, report, workdir, control, Fail, OnFailure
<1>23. CASE \E i \in Items : SourceMoves(i)
  BY <1>23 DEF SourceMoves, target, report, workdir, control
<1>24. CASE UNCHANGED vars
  BY <1>24 DEF vars, target, report, workdir, control
<1> QED
  BY <1>1, <1>2, <1>3, <1>4, <1>5, <1>6, <1>7, <1>8, <1>9, <1>10, <1>11, <1>12, <1>13, <1>14,
    <1>15, <1>16, <1>17, <1>18, <1>19, <1>20, <1>21, <1>22, <1>23, <1>24 DEF Next, Step

\* From the drop of the destination's database to the end of its media copy
\* the writers are stopped unless a note excuses it, for any interleaving with
\* the source, any failure and any kill (_stop_dest_writers).
THEOREM Quiet == Spec => []QuietRestore
<1>1. Init => PhaseInv /\ QuietInv
  BY DEF Init, PhaseInv, QuietInv, Stopped, Sides, Rebuilding, Copying
<1>2. QuietInv => QuietRestore
  BY DEF QuietInv, QuietRestore, Writing, Stopped
<1> QED
  BY TypeCorrect, PhaseStep, QuietStep, <1>1, <1>2, PTL DEF Spec

-----------------------------------------------------------------------------
(* What a command leaves behind *)

\* Past RestartWriters the writers run or the failure is noted.
WritersInv ==
  /\ args.kind = "seed" => "stopped" \notin notes
  /\ pc \in Sides \cup {"decide", "confirm"} => "stopped" \notin notes
  /\ pc \in {"hooks", "cleanup"} \/ Ended
       => ("stopped" \in notes /\ ~writers => "startFailed" \in notes)

LEMMA WritersStep == TypeOK /\ PhaseInv /\ WritersInv /\ [Next]_vars => WritersInv'
<1> SUFFICES ASSUME TypeOK, PhaseInv, WritersInv, [Next]_vars PROVE WritersInv'
  OBVIOUS
<1> USE KindOfArgs DEF PhaseInv, WritersInv, Ended, Sides
<1>1. CASE \E s \in Sides : CheckSide(s)
  BY <1>1 DEF CheckSide, target, workdir, control
<1>2. CASE Decide
  BY <1>2 DEF Decide, target, report, control, Goto, End
<1>3. CASE StopWriters
  BY <1>3 DEF StopWriters, workdir, control
<1>4. CASE RestartWriters
  BY <1>4 DEF RestartWriters, control
<1>5. CASE Confirm
  BY <1>5 DEF Confirm, target, report, control, Goto, End
<1>6. CASE EnsureDatabases
  BY <1>6 DEF EnsureDatabases, target, report, workdir, control, Goto, Fail, OnFailure
<1>7. CASE Dump
  BY <1>7 DEF Dump, target, report, control, Goto, Fail, OnFailure
<1>8. CASE DropCreate
  BY <1>8 DEF DropCreate, report, workdir, control, Goto, Fail, OnFailure
<1>9. CASE Restore
  BY <1>9 DEF Restore, report, workdir, control, Goto, Fail, OnFailure
<1>10. CASE RestoreEnds
  BY <1>10 DEF RestoreEnds, report, workdir, control, Goto, Fail, OnFailure, AfterDb
<1>11. CASE ChooseMedia
  BY <1>11 DEF ChooseMedia, target, report, workdir, control, StartCopy, Goto, AfterMedia
<1>12. CASE DirectRsync
  BY <1>12 DEF DirectRsync, report, workdir, control, Goto, StartCopy, AfterMedia
<1>13. CASE StageRsync
  BY <1>13 DEF StageRsync, target, report, control, Goto, StartCopy
<1>14. CASE PullTar
  BY <1>14 DEF PullTar, target, report, control, Goto, Fail, OnFailure
<1>15. CASE PushRsync
  BY <1>15 DEF PushRsync, report, control, Goto, End, AfterMedia
<1>16. CASE PushTar
  BY <1>16 DEF PushTar, report, workdir, control, Goto, Fail, OnFailure
<1>17. CASE Extract
  BY <1>17 DEF Extract, report, workdir, control, Goto, Fail, OnFailure, AfterMedia
<1>18. CASE Hooks
  <2>1. notes' = notes /\ args' = args /\ pc = "hooks" /\ pc' = "cleanup"
    BY <1>18 DEF Hooks, control
  <2>2. CASE writers' = writers
    BY <2>1, <2>2
  <2>3. CASE writers' = TRUE
    BY <2>1, <2>3
  <2> QED
    BY <1>18, <2>2, <2>3 DEF Hooks
<1>19. CASE Cleanup
  BY <1>19 DEF Cleanup, target, control, End
<1>20. CASE Begin
  BY <1>20 DEF Begin, target, Args
<1>21. CASE Killed
  BY <1>21 DEF Killed, workdir, control, End
<1>22. CASE DbStops
  BY <1>22 DEF DbStops, report, workdir, control, Fail, OnFailure
<1>23. CASE \E i \in Items : SourceMoves(i)
  BY <1>23 DEF SourceMoves, target, report, workdir, control
<1>24. CASE UNCHANGED vars
  BY <1>24 DEF vars, target, report, workdir, control
<1> QED
  BY <1>1, <1>2, <1>3, <1>4, <1>5, <1>6, <1>7, <1>8, <1>9, <1>10, <1>11, <1>12, <1>13, <1>14,
    <1>15, <1>16, <1>17, <1>18, <1>19, <1>20, <1>21, <1>22, <1>23, <1>24 DEF Next, Step

\* Only --keep-workdir keeps the session of a command that ended.
SessionInv ==
  /\ pc \in Sides \cup {"decide", "confirm"} => ~session
  /\ Ended => (session => args.keep)

LEMMA SessionStep == TypeOK /\ SessionInv /\ [Next]_vars => SessionInv'
<1> SUFFICES ASSUME TypeOK, SessionInv, [Next]_vars PROVE SessionInv'
  OBVIOUS
<1> USE DEF SessionInv, Ended, Sides
<1>1. CASE \E s \in Sides : CheckSide(s)
  BY <1>1 DEF CheckSide, target, workdir, control
<1>2. CASE Decide
  BY <1>2 DEF Decide, target, report, control, Goto, End
<1>3. CASE StopWriters
  BY <1>3 DEF StopWriters, workdir, control
<1>4. CASE RestartWriters
  BY <1>4 DEF RestartWriters, control
<1>5. CASE Confirm
  BY <1>5 DEF Confirm, target, report, control, Goto, End
<1>6. CASE EnsureDatabases
  BY <1>6 DEF EnsureDatabases, target, report, workdir, control, Goto, Fail, OnFailure
<1>7. CASE Dump
  BY <1>7 DEF Dump, target, report, control, Goto, Fail, OnFailure
<1>8. CASE DropCreate
  BY <1>8 DEF DropCreate, report, workdir, control, Goto, Fail, OnFailure
<1>9. CASE Restore
  BY <1>9 DEF Restore, report, workdir, control, Goto, Fail, OnFailure
<1>10. CASE RestoreEnds
  BY <1>10 DEF RestoreEnds, report, workdir, control, Goto, Fail, OnFailure, AfterDb
<1>11. CASE ChooseMedia
  BY <1>11 DEF ChooseMedia, target, report, workdir, control, StartCopy, Goto, AfterMedia
<1>12. CASE DirectRsync
  BY <1>12 DEF DirectRsync, report, workdir, control, Goto, StartCopy, AfterMedia
<1>13. CASE StageRsync
  BY <1>13 DEF StageRsync, target, report, control, Goto, StartCopy
<1>14. CASE PullTar
  BY <1>14 DEF PullTar, target, report, control, Goto, Fail, OnFailure
<1>15. CASE PushRsync
  BY <1>15 DEF PushRsync, report, control, Goto, End, AfterMedia
<1>16. CASE PushTar
  BY <1>16 DEF PushTar, report, workdir, control, Goto, Fail, OnFailure
<1>17. CASE Extract
  BY <1>17 DEF Extract, report, workdir, control, Goto, Fail, OnFailure, AfterMedia
<1>18. CASE Hooks
  BY <1>18 DEF Hooks, workdir, control
<1>19. CASE Cleanup
  BY <1>19 DEF Cleanup, target, control, End
<1>20. CASE Begin
  BY <1>20 DEF Begin, target, Args
<1>21. CASE Killed
  BY <1>21 DEF Killed, workdir, control, End
<1>22. CASE DbStops
  BY <1>22 DEF DbStops, report, workdir, control, Fail, OnFailure
<1>23. CASE \E i \in Items : SourceMoves(i)
  BY <1>23 DEF SourceMoves, target, report, workdir, control
<1>24. CASE UNCHANGED vars
  BY <1>24 DEF vars, target, report, workdir, control
<1> QED
  BY <1>1, <1>2, <1>3, <1>4, <1>5, <1>6, <1>7, <1>8, <1>9, <1>10, <1>11, <1>12, <1>13, <1>14,
    <1>15, <1>16, <1>17, <1>18, <1>19, <1>20, <1>21, <1>22, <1>23, <1>24 DEF Next, Step

\* A command that ends by itself has restarted the writers it stopped or said
\* that it could not, and removed its session unless asked to keep it
\* (cmd_transfer's failure paths, worktree_seed's finally).
THEOREM Leaves == Spec => []LeavesNothingBehind
<1>1. Init => PhaseInv /\ WritersInv /\ SessionInv
  BY DEF Init, PhaseInv, WritersInv, SessionInv, Ended, Sides
<1>2. WritersInv /\ SessionInv => LeavesNothingBehind
  BY DEF WritersInv, SessionInv, LeavesNothingBehind, Ended
<1> QED
  BY TypeCorrect, PhaseStep, WritersStep, SessionStep, <1>1, <1>2, PTL DEF Spec

-----------------------------------------------------------------------------
(* What a command that succeeds leaves is the source's: stages pass in one *)
(* order, so a file that is there at the end and was at the beginning was  *)
(* there all along the copy, and a row that was dumped had its file.       *)

Since(before, after) ==
  \A i \in Items :
    /\ after[i] = "new" => before[i] = "new"
    /\ before[i] = "gone" => after[i] = "gone"
Advance == Since(item, item')

Met == {i \in Items : first[i] # "gone" /\ item[i] # "new"}
Whole(copy) ==
  /\ FilesOf(first) \cap Files \subseteq copy /\ copy \subseteq Met
  /\ args.kind = "transfer" => dump \cap Files \subseteq copy
MediaWhole == Whole(media)
StageWhole == Whole(stage)

DbPhases ==
  IF args.kind = "transfer" THEN {"media", "restart", "hooks", "cleanup"} \cup Copying
  ELSE {"hooks", "cleanup"}
MediaPhases ==
  IF args.kind = "transfer" THEN {"restart", "hooks", "cleanup"}
  ELSE {"ensure", "dump", "drop", "hooks", "cleanup"} \cup Rebuilding
DbDone == (outcome = "none" /\ pc \in DbPhases) \/ Succeeded
MediaDone == (outcome = "none" /\ pc \in MediaPhases) \/ Succeeded

CourseInv ==
  /\ pc # "idle" => outcome \in {"none", "failed"}
  /\ pc \notin {"idle", "restart", "cleanup"} => outcome = "none"
  /\ args.kind = "transfer" => "skipped" \notin notes
UploadInv ==
  /\ Since(first, item)
  /\ stage \subseteq Met
  /\ dump \subseteq {i \in Items : item[i] # "new"}
  /\ pc \in Copying =>
       Since(first, began) /\ Since(began, item) /\ \A i \in dump : began[i] # "new"
StageInv ==
  /\ pc \in {"pushRsync", "pushTar", "extract"} => StageWhole
  /\ pc = "extract" => media = {}
DbInv == DbDone /\ args.db => database = [state |-> "whole", rows |-> dump]
MediaInv == MediaDone /\ args.media /\ "skipped" \notin notes => MediaWhole

LEMMA CourseStep == TypeOK /\ CourseInv /\ [Next]_vars => CourseInv'
<1> SUFFICES ASSUME TypeOK, CourseInv, [Next]_vars PROVE CourseInv'
  OBVIOUS
<1> USE KindOfArgs DEF CourseInv, Sides, Copying, Rebuilding
<1>1. CASE \E s \in Sides : CheckSide(s)
  BY <1>1 DEF CheckSide, target, workdir, control
<1>2. CASE Decide
  BY <1>2 DEF Decide, source, target, report, control, Goto, End
<1>3. CASE StopWriters
  BY <1>3 DEF StopWriters, source, workdir, control
<1>4. CASE RestartWriters
  BY <1>4 DEF RestartWriters, control
<1>5. CASE Confirm
  BY <1>5 DEF Confirm, source, target, report, control, Goto, End
<1>6. CASE EnsureDatabases
  BY <1>6 DEF EnsureDatabases, target, report, workdir, control, Goto, Fail, OnFailure
<1>7. CASE Dump
  BY <1>7 DEF Dump, source, target, report, control, Goto, Fail, OnFailure
<1>8. CASE DropCreate
  BY <1>8 DEF DropCreate, source, report, workdir, control, Goto, Fail, OnFailure
<1>9. CASE Restore
  BY <1>9 DEF Restore, source, report, workdir, control, Goto, Fail, OnFailure
<1>10. CASE RestoreEnds
  BY <1>10 DEF RestoreEnds, source, report, workdir, control, Goto, Fail, OnFailure, AfterDb
<1>11. CASE ChooseMedia
  BY <1>11 DEF ChooseMedia, target, report, workdir, control, StartCopy, Goto, AfterMedia
<1>12. CASE DirectRsync
  BY <1>12 DEF DirectRsync, source, report, workdir, control, Goto, StartCopy, AfterMedia
<1>13. CASE StageRsync
  BY <1>13 DEF StageRsync, source, target, report, control, Goto, StartCopy
<1>14. CASE PullTar
  BY <1>14 DEF PullTar, source, target, report, control, Goto, Fail, OnFailure
<1>15. CASE PushRsync
  BY <1>15 DEF PushRsync, source, report, control, Goto, End, AfterMedia
<1>16. CASE PushTar
  BY <1>16 DEF PushTar, source, report, workdir, control, Goto, Fail, OnFailure
<1>17. CASE Extract
  BY <1>17 DEF Extract, source, report, workdir, control, Goto, Fail, OnFailure, AfterMedia
<1>18. CASE Hooks
  BY <1>18 DEF Hooks, source, workdir, control
<1>19. CASE Cleanup
  BY <1>19 DEF Cleanup, source, target, control, End
<1>20. CASE Begin
  BY <1>20 DEF Begin, source, target, Args
<1>21. CASE Killed
  BY <1>21 DEF Killed, source, workdir, control, End
<1>22. CASE DbStops
  BY <1>22 DEF DbStops, report, workdir, control, Fail, OnFailure
<1>23. CASE \E i \in Items : SourceMoves(i)
  BY <1>23 DEF SourceMoves, target, report, workdir, control
<1>24. CASE UNCHANGED vars
  BY <1>24 DEF vars, source, target, report, workdir, control
<1> QED
  BY <1>1, <1>2, <1>3, <1>4, <1>5, <1>6, <1>7, <1>8, <1>9, <1>10, <1>11, <1>12, <1>13, <1>14, <1>15,
    <1>16, <1>17, <1>18, <1>19, <1>20, <1>21, <1>22, <1>23, <1>24 DEF Next, Step

LEMMA SinceMoves ==
  ASSUME TypeOK, NEW i \in Items, SourceMoves(i)
  PROVE  Since(item, item')
BY DEF Since, SourceMoves, Moves, TypeOK

\* What is read while a file is copied has been met since the beginning.
LEMMA SeenIsMet ==
  ASSUME UploadInv, pc \in Copying
  PROVE  /\ Seen \subseteq Met
         /\ \A copy \in Copies : copy \subseteq Met
BY DEF UploadInv, Since, Seen, Met, Copies

LEMMA UploadStep == TypeOK /\ UploadInv /\ [Next]_vars => UploadInv'
<1> SUFFICES ASSUME TypeOK, UploadInv, [Next]_vars PROVE UploadInv'
  OBVIOUS
<1> USE DEF UploadInv, Met, Since, Copying
<1>1. CASE \E s \in Sides : CheckSide(s)
  BY <1>1 DEF CheckSide, target, workdir, control
<1>2. CASE Decide
  BY <1>2 DEF Decide, source, target, report, control, Goto, End
<1>3. CASE StopWriters
  BY <1>3 DEF StopWriters, source, workdir, control
<1>4. CASE RestartWriters
  BY <1>4 DEF RestartWriters, control
<1>5. CASE Confirm
  BY <1>5 DEF Confirm, source, target, report, control, Goto, End
<1>6. CASE EnsureDatabases
  BY <1>6 DEF EnsureDatabases, target, report, workdir, control, Goto, Fail, OnFailure
<1>7. CASE Dump
  BY <1>7 DEF Dump, Rows, source, target, report, control, Goto, Fail, OnFailure
<1>8. CASE DropCreate
  BY <1>8 DEF DropCreate, source, report, workdir, control, Goto, Fail, OnFailure
<1>9. CASE Restore
  BY <1>9 DEF Restore, source, report, workdir, control, Goto, Fail, OnFailure
<1>10. CASE RestoreEnds
  BY <1>10 DEF RestoreEnds, source, report, workdir, control, Goto, Fail, OnFailure, AfterDb
<1>11. CASE ChooseMedia
  BY <1>11 DEF ChooseMedia, target, report, workdir, control, StartCopy, Goto, AfterMedia
<1>12. CASE DirectRsync
  BY <1>12 DEF DirectRsync, source, report, workdir, control, Goto, StartCopy, AfterMedia
<1>13. CASE StageRsync
  <2>1. stage' \subseteq Met
    BY <1>13, SeenIsMet DEF StageRsync
  <2> QED
    BY <1>13, <2>1 DEF StageRsync, source, target, report, control, Goto, StartCopy
<1>14. CASE PullTar
  <2>1. stage' \subseteq Met
    BY <1>14, SeenIsMet DEF PullTar
  <2> QED
    BY <1>14, <2>1 DEF PullTar, source, target, report, control, Goto, Fail, OnFailure
<1>15. CASE PushRsync
  BY <1>15 DEF PushRsync, source, report, control, Goto, End, AfterMedia
<1>16. CASE PushTar
  BY <1>16 DEF PushTar, source, report, workdir, control, Goto, Fail, OnFailure
<1>17. CASE Extract
  BY <1>17 DEF Extract, source, report, workdir, control, Goto, Fail, OnFailure, AfterMedia
<1>18. CASE Hooks
  BY <1>18 DEF Hooks, source, workdir, control
<1>19. CASE Cleanup
  BY <1>19 DEF Cleanup, source, target, control, End
<1>20. CASE Begin
  BY <1>20 DEF Begin, source, target, Args
<1>21. CASE Killed
  BY <1>21 DEF Killed, source, workdir, control, End
<1>22. CASE DbStops
  BY <1>22 DEF DbStops, report, workdir, control, Fail, OnFailure
<1>23. CASE \E i \in Items : SourceMoves(i)
  <2>1. PICK i \in Items : SourceMoves(i)
    BY <1>23
  <2>2. \A k \in Items : (item'[k] = "new" => item[k] = "new") /\ (item[k] = "gone" => item'[k] = "gone")
    BY <2>1, SinceMoves
  <2>3. pc' = pc /\ first' = first /\ began' = began /\ stage' = stage /\ dump' = dump
    BY <2>1 DEF SourceMoves, workdir, control
  <2>4. Since(first, item)'
    <3> SUFFICES ASSUME NEW k \in Items
                 PROVE  /\ item'[k] = "new" => first[k] = "new"
                        /\ first[k] = "gone" => item'[k] = "gone"
      BY <2>3
    <3> QED
      BY <2>2
  <2>5. ASSUME pc \in {"direct", "stageRsync", "stageTar", "pull", "pushRsync", "pushTar", "extract"}
        PROVE  Since(began, item)'
    <3> SUFFICES ASSUME NEW k \in Items
                 PROVE  /\ item'[k] = "new" => began[k] = "new"
                        /\ began[k] = "gone" => item'[k] = "gone"
      BY <2>3
    <3> QED
      BY <2>2, <2>5
  <2>6. stage' \subseteq Met'
    <3> SUFFICES ASSUME NEW k \in stage PROVE k \in Items /\ first[k] # "gone" /\ item'[k] # "new"
      BY <2>3
    <3> QED
      BY <2>2
  <2>7. (dump \subseteq {k \in Items : item[k] # "new"})'
    <3> SUFFICES ASSUME NEW k \in dump PROVE k \in Items /\ item'[k] # "new"
      BY <2>3
    <3> QED
      BY <2>2
  <2> QED
    BY <2>3, <2>4, <2>5, <2>6, <2>7
<1>24. CASE UNCHANGED vars
  BY <1>24 DEF vars, source, target, report, workdir, control
<1> QED
  BY <1>1, <1>2, <1>3, <1>4, <1>5, <1>6, <1>7, <1>8, <1>9, <1>10, <1>11, <1>12, <1>13, <1>14, <1>15,
    <1>16, <1>17, <1>18, <1>19, <1>20, <1>21, <1>22, <1>23, <1>24 DEF Next, Step

\* Every step but the beginning of a command keeps what the command began with.
LEMMA Course ==
  TypeOK /\ [Next]_vars =>
    Begin \/ (/\ Advance /\ first' = first /\ args' = args
              /\ pc # "dump" => dump' = dump)
<1> SUFFICES ASSUME TypeOK, [Next]_vars, ~Begin
             PROVE  /\ Advance /\ first' = first /\ args' = args
                    /\ pc # "dump" => dump' = dump
  OBVIOUS
<1> USE DEF Advance, Since
<1>1. CASE \E s \in Sides : CheckSide(s)
  BY <1>1 DEF CheckSide, target, workdir, control
<1>2. CASE Decide
  BY <1>2 DEF Decide, source, target, report, control, Goto, End
<1>3. CASE StopWriters
  BY <1>3 DEF StopWriters, source, workdir, control
<1>4. CASE RestartWriters
  BY <1>4 DEF RestartWriters, control
<1>5. CASE Confirm
  BY <1>5 DEF Confirm, source, target, report, control, Goto, End
<1>6. CASE EnsureDatabases
  BY <1>6 DEF EnsureDatabases, target, report, workdir, control, Goto, Fail, OnFailure
<1>7. CASE Dump
  BY <1>7 DEF Dump, source, target, report, control, Goto, Fail, OnFailure
<1>8. CASE DropCreate
  BY <1>8 DEF DropCreate, source, report, workdir, control, Goto, Fail, OnFailure
<1>9. CASE Restore
  BY <1>9 DEF Restore, source, report, workdir, control, Goto, Fail, OnFailure
<1>10. CASE RestoreEnds
  BY <1>10 DEF RestoreEnds, source, report, workdir, control, Goto, Fail, OnFailure, AfterDb
<1>11. CASE ChooseMedia
  BY <1>11 DEF ChooseMedia, target, report, workdir, control, StartCopy, Goto, AfterMedia
<1>12. CASE DirectRsync
  BY <1>12 DEF DirectRsync, source, report, workdir, control, Goto, StartCopy, AfterMedia
<1>13. CASE StageRsync
  BY <1>13 DEF StageRsync, source, target, report, control, Goto, StartCopy
<1>14. CASE PullTar
  BY <1>14 DEF PullTar, source, target, report, control, Goto, Fail, OnFailure
<1>15. CASE PushRsync
  BY <1>15 DEF PushRsync, source, report, control, Goto, End, AfterMedia
<1>16. CASE PushTar
  BY <1>16 DEF PushTar, source, report, workdir, control, Goto, Fail, OnFailure
<1>17. CASE Extract
  BY <1>17 DEF Extract, source, report, workdir, control, Goto, Fail, OnFailure, AfterMedia
<1>18. CASE Hooks
  BY <1>18 DEF Hooks, source, workdir, control
<1>19. CASE Cleanup
  BY <1>19 DEF Cleanup, source, target, control, End
<1>20. CASE Begin
  BY <1>20
<1>21. CASE Killed
  BY <1>21 DEF Killed, source, workdir, control, End
<1>22. CASE DbStops
  BY <1>22 DEF DbStops, report, workdir, control, Fail, OnFailure
<1>23. CASE \E i \in Items : SourceMoves(i)
  BY <1>23, SinceMoves DEF SourceMoves, workdir, control
<1>24. CASE UNCHANGED vars
  BY <1>24 DEF vars, source, target, report, workdir, control
<1> QED
  BY <1>1, <1>2, <1>3, <1>4, <1>5, <1>6, <1>7, <1>8, <1>9, <1>10, <1>11, <1>12, <1>13, <1>14, <1>15,
    <1>16, <1>17, <1>18, <1>19, <1>20, <1>21, <1>22, <1>23, <1>24 DEF Next, Step

LEMMA WholePasses ==
  ASSUME TypeOK, UploadInv, Advance, first' = first, args' = args,
         dump' = dump \/ args.kind # "transfer"
  PROVE  /\ MediaWhole /\ media' = media => MediaWhole'
         /\ StageWhole /\ stage' = stage => StageWhole'
<1>1. (FilesOf(first) \cap Files)' \subseteq FilesOf(first) \cap Files
  <2> SUFFICES ASSUME NEW k \in Items, first[k] \in {"saved", "live", "orphan"},
                      item'[k] \in {"saved", "live", "orphan"}
               PROVE  item[k] \in {"saved", "live", "orphan"}
    BY DEF FilesOf, Files
  <2> QED
    BY DEF UploadInv, Since, Advance, TypeOK, Stages
<1>2. Met \subseteq Met'
  BY DEF Met, Since, Advance
<1>3. dump' = dump => (dump \cap Files)' \subseteq dump \cap Files
  <2> SUFFICES ASSUME dump' = dump, NEW k \in Items, k \in dump,
                      item'[k] \in {"saved", "live", "orphan"}
               PROVE  item[k] \in {"saved", "live", "orphan"}
    BY DEF FilesOf, Files
  <2> QED
    BY DEF UploadInv, Since, Advance, TypeOK, Stages
<1>4. MediaWhole /\ media' = media => MediaWhole'
  BY <1>1, <1>2, <1>3 DEF MediaWhole, Whole
<1>5. StageWhole /\ stage' = stage => StageWhole'
  BY <1>1, <1>2, <1>3 DEF StageWhole, Whole
<1> QED
  BY <1>4, <1>5

\* A complete copy, alone or added to what the session held, is whole.
LEMMA CopyIsWhole ==
  ASSUME TypeOK, UploadInv, pc \in Copying, NEW copy \in Copies
  PROVE  Whole(copy) /\ Whole(stage \cup copy)
<1>1. Steady \subseteq copy /\ copy \subseteq Met /\ stage \subseteq Met
  BY SeenIsMet DEF Copies, UploadInv
<1>2. FilesOf(first) \cap Files \subseteq Steady
  <2> SUFFICES ASSUME NEW k \in Items, first[k] \in {"saved", "live", "orphan"},
                      item[k] \in {"saved", "live", "orphan"}
               PROVE  began[k] \in {"saved", "live", "orphan"}
    BY DEF FilesOf, Files, Steady
  <2> QED
    BY DEF UploadInv, Since, TypeOK, Stages
<1>3. dump \cap Files \subseteq Steady
  <2> SUFFICES ASSUME NEW k \in Items, k \in dump,
                      item[k] \in {"saved", "live", "orphan"}
               PROVE  began[k] \in {"saved", "live", "orphan"}
    BY DEF FilesOf, Files, Steady
  <2> QED
    BY DEF UploadInv, Since, TypeOK, Stages
<1> QED
  BY <1>1, <1>2, <1>3 DEF Whole

\* A step that leaves the uploads, the dump and the command alone.
LEMMA SameUploads ==
  ASSUME item' = item, first' = first, args' = args, dump' = dump
  PROVE  /\ Whole(media') => MediaWhole'
         /\ Whole(stage') => StageWhole'
BY DEF MediaWhole, StageWhole, Whole, Met, Files, FilesOf

LEMMA StageStep ==
  TypeOK /\ UploadInv /\ StageInv /\ [Next]_vars => StageInv'
<1> SUFFICES ASSUME TypeOK, UploadInv, StageInv, [Next]_vars PROVE StageInv'
  OBVIOUS
<1>a. CASE Begin
  BY <1>a DEF Begin, StageInv, MediaInv, MediaDone, MediaPhases, Succeeded, Rebuilding, Args
<1>b. SUFFICES ASSUME ~Begin PROVE StageInv'
  BY <1>a
<1>c. first' = first /\ args' = args /\ (pc # "dump" => dump' = dump)
  BY <1>b, Course
<1>d. pc # "dump" \/ args.kind # "transfer" =>
        /\ MediaWhole /\ media' = media => MediaWhole'
        /\ StageWhole /\ stage' = stage => StageWhole'
  BY <1>b, Course, WholePasses
<1> USE KindOfArgs DEF StageInv, Sides, Rebuilding
<1>1. CASE \E s \in Sides : CheckSide(s)
  BY <1>1, <1>d DEF CheckSide, target, workdir, control
<1>2. CASE Decide
  BY <1>2, <1>d DEF Decide, source, target, report, control, Goto, End
<1>3. CASE StopWriters
  BY <1>3, <1>d DEF StopWriters, source, workdir, control
<1>4. CASE RestartWriters
  BY <1>4, <1>d DEF RestartWriters, control
<1>5. CASE Confirm
  BY <1>5, <1>d DEF Confirm, source, target, report, control, Goto, End
<1>6. CASE EnsureDatabases
  BY <1>6, <1>d DEF EnsureDatabases, target, report, workdir, control, Goto, Fail, OnFailure
<1>7. CASE Dump
  BY <1>7, <1>d DEF Dump, source, target, report, control, Goto, Fail, OnFailure
<1>8. CASE DropCreate
  BY <1>8, <1>d DEF DropCreate, source, report, workdir, control, Goto, Fail, OnFailure
<1>9. CASE Restore
  BY <1>9, <1>d DEF Restore, source, report, workdir, control, Goto, Fail, OnFailure
<1>10. CASE RestoreEnds
  BY <1>10, <1>d DEF RestoreEnds, source, report, workdir, control, Goto, Fail, OnFailure, AfterDb
<1>11. CASE ChooseMedia
  BY <1>11, <1>d DEF ChooseMedia, target, report, workdir, control, StartCopy, Goto, AfterMedia
<1>12. CASE DirectRsync
  BY <1>12, <1>d DEF DirectRsync, source, report, workdir, control, Goto, StartCopy, AfterMedia
<1>13. CASE StageRsync
  <2>1. CASE stage' \in Copies /\ pc' = "pushRsync"
    <3>1. item' = item /\ first' = first /\ args' = args /\ dump' = dump
      BY <1>13, <1>c DEF StageRsync, source
    <3>2. Whole(stage')
      BY <1>13, <2>1, CopyIsWhole DEF StageRsync, Copying
    <3> QED
      BY <2>1, <3>1, <3>2, SameUploads
  <2> QED
    BY <1>13, <2>1 DEF StageRsync, StartCopy, Goto
<1>14. CASE PullTar
  <2>1. CASE stage' \in {stage \cup copy : copy \in Copies} /\ pc' \in {"pushRsync", "pushTar"}
    <3>1. item' = item /\ first' = first /\ args' = args /\ dump' = dump
      BY <1>14, <1>c DEF PullTar, source
    <3>2. Whole(stage')
      BY <1>14, <2>1, CopyIsWhole DEF PullTar, Copying
    <3> QED
      BY <2>1, <3>1, <3>2, SameUploads
  <2> QED
    BY <1>14, <2>1 DEF PullTar, Goto, Fail, OnFailure
<1>15. CASE PushRsync
  BY <1>15, <1>d DEF PushRsync, source, report, control, Goto, End, AfterMedia
<1>16. CASE PushTar
  BY <1>16, <1>d DEF PushTar, source, report, workdir, control, Goto, Fail, OnFailure
<1>17. CASE Extract
  BY <1>17, <1>d DEF Extract, source, report, workdir, control, Goto, Fail, OnFailure, AfterMedia
<1>18. CASE Hooks
  BY <1>18, <1>d DEF Hooks, source, workdir, control
<1>19. CASE Cleanup
  BY <1>19, <1>d DEF Cleanup, source, target, control, End
<1>20. CASE Begin
  BY <1>20, <1>b
<1>21. CASE Killed
  BY <1>21, <1>d DEF Killed, source, workdir, control, End
<1>22. CASE DbStops
  BY <1>22, <1>d DEF DbStops, report, workdir, control, Fail, OnFailure
<1>23. CASE \E i \in Items : SourceMoves(i)
  BY <1>23, <1>d DEF SourceMoves, target, report, workdir, control
<1>24. CASE UNCHANGED vars
  BY <1>24, <1>d DEF vars, source, target, report, workdir, control
<1> QED
  BY <1>1, <1>2, <1>3, <1>4, <1>5, <1>6, <1>7, <1>8, <1>9, <1>10, <1>11, <1>12, <1>13, <1>14, <1>15,
    <1>16, <1>17, <1>18, <1>19, <1>20, <1>21, <1>22, <1>23, <1>24 DEF Next, Step

LEMMA DbStep ==
  TypeOK /\ CourseInv /\ PhaseInv /\ DbInv /\ [Next]_vars => DbInv'
<1> SUFFICES ASSUME TypeOK, CourseInv, PhaseInv, DbInv, [Next]_vars PROVE DbInv'
  OBVIOUS
<1> USE KindOfArgs DEF CourseInv, PhaseInv, DbInv, DbDone, DbPhases, Succeeded, Sides, Copying, Rebuilding
<1>1. CASE \E s \in Sides : CheckSide(s)
  BY <1>1 DEF CheckSide, target, workdir, control
<1>2. CASE Decide
  BY <1>2 DEF Decide, source, target, report, control, Goto, End
<1>3. CASE StopWriters
  BY <1>3 DEF StopWriters, source, workdir, control
<1>4. CASE RestartWriters
  BY <1>4 DEF RestartWriters, control
<1>5. CASE Confirm
  BY <1>5 DEF Confirm, source, target, report, control, Goto, End
<1>6. CASE EnsureDatabases
  BY <1>6 DEF EnsureDatabases, target, report, workdir, control, Goto, Fail, OnFailure
<1>7. CASE Dump
  BY <1>7 DEF Dump, source, target, report, control, Goto, Fail, OnFailure
<1>8. CASE DropCreate
  BY <1>8 DEF DropCreate, source, report, workdir, control, Goto, Fail, OnFailure
<1>9. CASE Restore
  BY <1>9 DEF Restore, source, report, workdir, control, Goto, Fail, OnFailure
<1>10. CASE RestoreEnds
  BY <1>10 DEF RestoreEnds, source, report, workdir, control, Goto, Fail, OnFailure, AfterDb
<1>11. CASE ChooseMedia
  BY <1>11 DEF ChooseMedia, target, report, workdir, control, StartCopy, Goto, AfterMedia
<1>12. CASE DirectRsync
  BY <1>12 DEF DirectRsync, source, report, workdir, control, Goto, StartCopy, AfterMedia
<1>13. CASE StageRsync
  BY <1>13 DEF StageRsync, source, target, report, control, Goto, StartCopy
<1>14. CASE PullTar
  BY <1>14 DEF PullTar, source, target, report, control, Goto, Fail, OnFailure
<1>15. CASE PushRsync
  BY <1>15 DEF PushRsync, source, report, control, Goto, End, AfterMedia
<1>16. CASE PushTar
  BY <1>16 DEF PushTar, source, report, workdir, control, Goto, Fail, OnFailure
<1>17. CASE Extract
  BY <1>17 DEF Extract, source, report, workdir, control, Goto, Fail, OnFailure, AfterMedia
<1>18. CASE Hooks
  BY <1>18 DEF Hooks, source, workdir, control
<1>19. CASE Cleanup
  BY <1>19 DEF Cleanup, source, target, control, End
<1>20. CASE Begin
  BY <1>20 DEF Begin, source, target, Args
<1>21. CASE Killed
  BY <1>21 DEF Killed, source, workdir, control, End
<1>22. CASE DbStops
  BY <1>22 DEF DbStops, report, workdir, control, Fail, OnFailure
<1>23. CASE \E i \in Items : SourceMoves(i)
  BY <1>23 DEF SourceMoves, target, report, workdir, control
<1>24. CASE UNCHANGED vars
  BY <1>24 DEF vars, source, target, report, workdir, control
<1> QED
  BY <1>1, <1>2, <1>3, <1>4, <1>5, <1>6, <1>7, <1>8, <1>9, <1>10, <1>11, <1>12, <1>13, <1>14, <1>15,
    <1>16, <1>17, <1>18, <1>19, <1>20, <1>21, <1>22, <1>23, <1>24 DEF Next, Step

LEMMA MediaStep ==
  TypeOK /\ UploadInv /\ CourseInv /\ PhaseInv /\ StageInv /\ MediaInv /\ [Next]_vars => MediaInv'
<1> SUFFICES ASSUME TypeOK, UploadInv, CourseInv, PhaseInv, StageInv, MediaInv, [Next]_vars
             PROVE  MediaInv'
  OBVIOUS
<1>a. CASE Begin
  BY <1>a DEF Begin, StageInv, MediaInv, MediaDone, MediaPhases, Succeeded, Rebuilding, Args
<1>b. SUFFICES ASSUME ~Begin PROVE MediaInv'
  BY <1>a
<1>c. first' = first /\ args' = args /\ (pc # "dump" => dump' = dump)
  BY <1>b, Course
<1>d. pc # "dump" \/ args.kind # "transfer" =>
        /\ MediaWhole /\ media' = media => MediaWhole'
        /\ StageWhole /\ stage' = stage => StageWhole'
  BY <1>b, Course, WholePasses
<1> USE KindOfArgs
<1> USE DEF CourseInv, PhaseInv, StageInv, MediaInv, MediaDone, MediaPhases, Succeeded, Sides, Rebuilding
<1>1. CASE \E s \in Sides : CheckSide(s)
  BY <1>1, <1>d DEF CheckSide, target, workdir, control
<1>2. CASE Decide
  BY <1>2, <1>d DEF Decide, source, target, report, control, Goto, End
<1>3. CASE StopWriters
  BY <1>3, <1>d DEF StopWriters, source, workdir, control
<1>4. CASE RestartWriters
  BY <1>4, <1>d DEF RestartWriters, control
<1>5. CASE Confirm
  BY <1>5, <1>d DEF Confirm, source, target, report, control, Goto, End
<1>6. CASE EnsureDatabases
  BY <1>6, <1>d DEF EnsureDatabases, target, report, workdir, control, Goto, Fail, OnFailure
<1>7. CASE Dump
  BY <1>7, <1>d DEF Dump, source, target, report, control, Goto, Fail, OnFailure
<1>8. CASE DropCreate
  BY <1>8, <1>d DEF DropCreate, source, report, workdir, control, Goto, Fail, OnFailure
<1>9. CASE Restore
  BY <1>9, <1>d DEF Restore, source, report, workdir, control, Goto, Fail, OnFailure
<1>10. CASE RestoreEnds
  BY <1>10, <1>d DEF RestoreEnds, source, report, workdir, control, Goto, Fail, OnFailure, AfterDb
<1>11. CASE ChooseMedia
  BY <1>11, <1>d DEF ChooseMedia, target, report, workdir, control, StartCopy, Goto, AfterMedia
<1>12. CASE DirectRsync
  <2>1. CASE media' \in Copies
    <3>1. item' = item /\ first' = first /\ args' = args /\ dump' = dump
      BY <1>12, <1>c DEF DirectRsync, source
    <3>2. Whole(media')
      BY <1>12, <2>1, CopyIsWhole DEF DirectRsync, Copying
    <3> QED
      BY <3>1, <3>2, SameUploads
  <2>2. CASE pc' = "pull"
    BY <2>2
  <2> QED
    BY <1>12, <2>1, <2>2 DEF DirectRsync, StartCopy, Goto
<1>13. CASE StageRsync
  BY <1>13, <1>d DEF StageRsync, source, target, report, control, Goto, StartCopy
<1>14. CASE PullTar
  BY <1>14, <1>d DEF PullTar, source, target, report, control, Goto, Fail, OnFailure
<1>15. CASE PushRsync
  <2>1. CASE media' = stage
    <3>1. item' = item /\ first' = first /\ args' = args /\ dump' = dump
      BY <1>15, <1>c DEF PushRsync, source
    <3>2. Whole(media')
      BY <1>15, <2>1 DEF PushRsync, StageWhole
    <3> QED
      BY <3>1, <3>2, SameUploads
  <2>2. CASE pc' = "pushTar" \/ (pc' = "idle" /\ outcome' = "aborted")
    BY <2>2
  <2> QED
    BY <1>15, <2>1, <2>2 DEF PushRsync, Goto, End
<1>16. CASE PushTar
  BY <1>16, <1>d DEF PushTar, source, report, workdir, control, Goto, Fail, OnFailure
<1>17. CASE Extract
  <2>1. CASE media' = media \cup stage
    <3>1. item' = item /\ first' = first /\ args' = args /\ dump' = dump
      BY <1>17, <1>c DEF Extract, source
    <3>2. Whole(media')
      BY <1>17, <2>1 DEF Extract, StageWhole
    <3> QED
      BY <3>1, <3>2, SameUploads
  <2>2. CASE outcome' = "failed"
    BY <2>2
  <2> QED
    BY <1>17, <2>1, <2>2 DEF Extract, Fail
<1>18. CASE Hooks
  BY <1>18, <1>d DEF Hooks, source, workdir, control
<1>19. CASE Cleanup
  BY <1>19, <1>d DEF Cleanup, source, target, control, End
<1>20. CASE Begin
  BY <1>20, <1>b
<1>21. CASE Killed
  BY <1>21, <1>d DEF Killed, source, workdir, control, End
<1>22. CASE DbStops
  BY <1>22, <1>d DEF DbStops, report, workdir, control, Fail, OnFailure
<1>23. CASE \E i \in Items : SourceMoves(i)
  BY <1>23, <1>d DEF SourceMoves, target, report, workdir, control
<1>24. CASE UNCHANGED vars
  BY <1>24, <1>d DEF vars, source, target, report, workdir, control
<1> QED
  BY <1>1, <1>2, <1>3, <1>4, <1>5, <1>6, <1>7, <1>8, <1>9, <1>10, <1>11, <1>12, <1>13, <1>14, <1>15,
    <1>16, <1>17, <1>18, <1>19, <1>20, <1>21, <1>22, <1>23, <1>24 DEF Next, Step

\* What holds together of a command on its way to success.
SuccessInv == CourseInv /\ UploadInv /\ StageInv /\ DbInv /\ MediaInv

LEMMA SuccessAlways == Spec => []SuccessInv
<1>1. Init => PhaseInv /\ SuccessInv
  BY DEF Init, PhaseInv, SuccessInv, CourseInv, UploadInv, StageInv, DbInv, MediaInv, DbDone,
    DbPhases, MediaDone, MediaPhases, Succeeded, Since, Fresh, Sides, Rebuilding, Copying
<1>2. TypeOK /\ PhaseInv /\ SuccessInv /\ [Next]_vars => SuccessInv'
  BY CourseStep, UploadStep, StageStep, DbStep, MediaStep DEF SuccessInv
<1> QED
  BY TypeCorrect, PhaseStep, <1>1, <1>2, PTL DEF Spec

\* A command that reports success has made the destination's database the dump,
\* whole, and its media the source's, whichever copy methods failed before and
\* whatever the source did meanwhile (cmd_transfer, worktree_seed,
\* run_transfer_media).
THEOREM SourceIsCopied == Spec => []SuccessIsTheSource
<1>1. SuccessInv => SuccessIsTheSource
  BY DEF SuccessInv, SuccessIsTheSource, DbInv, DbDone, MediaInv, MediaDone, MediaWhole,
    Whole, Met
<1> QED
  BY SuccessAlways, <1>1, PTL

\* After a transfer every row of the destination's database that the source
\* still shows has its file: the dump is taken before the copy starts
\* (cmd_transfer's order of legs).
THEOREM FilesFollowRows == Spec => []RowsHaveFiles
<1>1. SuccessInv => RowsHaveFiles
  <2> SUFFICES ASSUME SuccessInv, Succeeded, args.db, args.media, args.kind = "transfer"
               PROVE  Rows \cap database.rows \subseteq media
    BY DEF RowsHaveFiles
  <2>1. database.rows = dump
    BY DEF SuccessInv, DbInv, DbDone
  <2>2. "skipped" \notin notes
    BY DEF SuccessInv, CourseInv
  <2>3. MediaWhole
    BY <2>2 DEF SuccessInv, MediaInv, MediaDone
  <2>4. dump \cap Files \subseteq media
    BY <2>3 DEF MediaWhole, Whole
  <2>5. Rows \subseteq Files
    BY DEF Rows, Files, FilesOf
  <2> QED
    BY <2>1, <2>4, <2>5
<1> QED
  BY SuccessAlways, <1>1, PTL

=============================================================================
