--------------------------- MODULE MCImdbDataset ---------------------------
(***************************************************************************)
(* ImdbDataset for TLC.  The instance has Interval = 2 with ingests that   *)
(* take as long, so that the timer also fires while an ingest still runs;  *)
(* in the code a week is far longer than an ingest.                        *)
(***************************************************************************)
EXTENDS ImdbDataset

=============================================================================
