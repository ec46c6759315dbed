---------------------- MODULE MC_BlockProcessorUpgrade ----------------------
(* Instantiates BlockProcessorUpgrade for TLC.                             *)
EXTENDS BlockProcessorUpgrade, MC_BlockProcessor

=============================================================================
