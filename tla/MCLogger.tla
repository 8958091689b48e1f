------------------------------ MODULE MCLogger ------------------------------
(* Two threads; lines of all levels, one of which is printed.              *)
EXTENDS Logger
=============================================================================
