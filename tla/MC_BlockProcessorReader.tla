---------------------- MODULE MC_BlockProcessorReader ----------------------
(* Instantiates BlockProcessorReader for TLC.                              *)
EXTENDS BlockProcessorReader

MC_Variants == {0, 1}
=============================================================================
