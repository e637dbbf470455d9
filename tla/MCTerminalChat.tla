--------------------------- MODULE MCTerminalChat ---------------------------
(* Finite instances of TerminalChat. *)
EXTENDS TerminalChat, TLC

=============================================================================
