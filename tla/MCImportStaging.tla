-------------------------- MODULE MCImportStaging --------------------------
(* Instance of ImportStaging for TLC. *)
EXTENDS ImportStaging

\* A sheet that needs two batches, an empty sheet, a sheet of one batch.
RowsThreeSheets == <<3, 0, 1>>

============================================================================
