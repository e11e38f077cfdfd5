-------------------------- MODULE MCStackContext --------------------------
(***************************************************************************)
(* StackContext for buffers around the sizes where the answer of one or of *)
(* all the registers just fits.                                            *)
(***************************************************************************)
EXTENDS StackContext

MCSizes == 0 .. 18 \cup 130 .. 140
============================================================================
