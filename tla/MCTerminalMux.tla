--------------------------- MODULE MCTerminalMux ---------------------------
(* A small instance of TerminalMux for TLC.                                *)
EXTENDS TerminalMux
=============================================================================
