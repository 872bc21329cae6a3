---------------------------- MODULE MCDataCopy ----------------------------
(* Instances of DataCopy for TLC: the settings are cfg constants. *)
EXTENDS DataCopy

\* What is left of the last command is forgotten when no property reads it.
StateView ==
  <<item, volumes, dbUp, target, pc, args, outcome, faults, notes, promoted,
    workdir, IF pc \in Copying THEN began ELSE Fresh,
    IF pc = "idle" /\ outcome # "ok" THEN Fresh ELSE first, commands>>
=============================================================================
