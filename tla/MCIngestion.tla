---------------------------- MODULE MCIngestion ----------------------------
(* A log of three lines whose events are not in the order of their times.  *)
EXTENDS Ingestion, TLC

MCTimes == <<1, 3, 2>>
=============================================================================
