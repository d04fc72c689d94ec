-------------------------------- MODULE Common --------------------------------
(***************************************************************************)
(* What the modules that are reasoned about together have in common.       *)
(***************************************************************************)
CONSTANT None  \* the absent value
===============================================================================
