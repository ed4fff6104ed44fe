------------------------------ MODULE MCLlmBatch ------------------------------
(* More batches than workers, the last of them short, and batches that can be *)
(* halved unevenly.                                                          *)
EXTENDS LlmBatch
CONSTANTS w1, w2
=============================================================================
