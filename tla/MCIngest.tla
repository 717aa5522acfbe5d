------------------------------ MODULE MCIngest ------------------------------
(***************************************************************************)
(* Small instances of the ingestor for TLC.  In MCIngestStream and         *)
(* MCIngestSlowDial the unit is the rewind, 5 s by default: a dial takes   *)
(* up to 20 s, lag fails readiness after a unit, and window and retention  *)
(* agree, as the comment of ReplayWindow has it.  In MCIngestColdStart     *)
(* dials are prompt and the window is long, so that no gap has another     *)
(* cause than the restart.                                                 *)
(***************************************************************************)
EXTENDS Ingest
=============================================================================
