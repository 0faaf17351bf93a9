------------------------------- MODULE MCStrand -------------------------------
(* The strand on a few threads, which are model values of the cfg.           *)
EXTENDS Strand
=============================================================================
