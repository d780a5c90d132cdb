------------------------------ MODULE MCConsole ------------------------------
(***************************************************************************)
(* Model checking module of Console: lines of up to three characters, a    *)
(* command of two, and a shell buffer twice as long as MAXLEN, at the very *)
(* end of user memory or below it.                                         *)
(***************************************************************************)
EXTENDS Console

CONSTANTS y, z, dollar

MCPrompt == <<dollar>>
MCCmd == <<y, z>>
==============================================================================
