------------------------------ MODULE MCFerry ------------------------------
(***************************************************************************)
(* Ferry for TLC.  The values of a row are interchangeable.                *)
(***************************************************************************)
EXTENDS Ferry, TLC

ValuesSymmetry == Permutations(Values)
=============================================================================
