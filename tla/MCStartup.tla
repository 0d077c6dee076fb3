------------------------------ MODULE MCStartup ------------------------------
(* Small instances of Startup. *)
EXTENDS Startup, TLC

CONSTANTS d1, d2, y0, y1, y2, h1, h2

=============================================================================
