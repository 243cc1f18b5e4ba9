--------------------------- MODULE MCRunManager ---------------------------
(***************************************************************************)
(* RunManager on small instances; its sets are model values of the cfg.    *)
(***************************************************************************)
EXTENDS RunManager, TLC

===========================================================================
