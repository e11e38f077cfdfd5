---------------------------- MODULE MCDescription ----------------------------
(***************************************************************************)
(* Description for short names, and buffers from none at all to more than  *)
(* the longest description.                                                *)
(***************************************************************************)
EXTENDS Description

MCSizes == 0 .. 36
=============================================================================
