----------------------------- MODULE MCFraming -----------------------------
(* Two request ids, data of no or one byte, room for three packages.       *)
EXTENDS Framing
=============================================================================
