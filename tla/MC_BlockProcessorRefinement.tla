-------------------- MODULE MC_BlockProcessorRefinement --------------------
(* Instantiates BlockProcessorRefinement for TLC.                          *)
EXTENDS BlockProcessorRefinement, MC_BlockProcessor
=============================================================================
