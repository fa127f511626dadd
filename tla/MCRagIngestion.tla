--------------------------- MODULE MCRagIngestion ---------------------------
(***************************************************************************)
(* Instances of RagIngestion for TLC: report and update are uploaded under *)
(* one filename, copy has the content of report under another filename.    *)
(***************************************************************************)
EXTENDS RagIngestion, TLC

CONSTANTS report, update, copy, handbook, annex, facts, opinions

MCNameOf == [d \in Doc |-> IF d = copy THEN annex ELSE handbook]

MCContentOf == [d \in Doc |-> IF d = update THEN opinions ELSE facts]
=============================================================================
