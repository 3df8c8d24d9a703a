----------------------------- MODULE MCSealing -----------------------------
(* Small instances of Sealing for TLC.                                     *)
EXTENDS Sealing

CONSTANTS r1, r2, w1, h1, server
=============================================================================
