------------------------------- MODULE MCServer -------------------------------
(***************************************************************************)
(* A finite instance of Server: one registration of an account and one     *)
(* comment, each sent again at most once, and faults at any point.         *)
(***************************************************************************)
EXTENDS Server, TLC

CONSTANTS register, comment
MCRequest == {register, comment}
=============================================================================
