----------------------------- MODULE JobLifecycle -----------------------------
(***************************************************************************)
(* What MigrationJob promises to everyone who only looks at its status:    *)
(* the state machine drawn in the header of                                *)
(* src/domain/entities/migration_job.py.                                   *)
(*                                                                         *)
(*     PENDING -> RUNNING -> PAUSED -> RUNNING                             *)
(*     RUNNING, PAUSED -> FAILED -> ROLLED_BACK                            *)
(*     RUNNING -> COMPLETED                                                *)
(*                                                                         *)
(* MigrationJob (one job, every command) and JobStore (the stored job,     *)
(* written by concurrent handlers) are each shown to implement it.         *)
(***************************************************************************)

VARIABLE status

Status == {"PENDING", "RUNNING", "PAUSED", "FAILED", "COMPLETED", "ROLLED_BACK"}

Init == status = "PENDING"

Begin    == status = "PENDING" /\ status' = "RUNNING"
Pause    == status = "RUNNING" /\ status' = "PAUSED"
Continue == status = "PAUSED" /\ status' = "RUNNING"
Abort    == status \in {"RUNNING", "PAUSED"} /\ status' = "FAILED"
Finish   == status = "RUNNING" /\ status' = "COMPLETED"
Undo     == status = "FAILED" /\ status' = "ROLLED_BACK"

Next == Begin \/ Pause \/ Continue \/ Abort \/ Finish \/ Undo

Spec == Init /\ [][Next]_status

===============================================================================
