--------------------------- MODULE MCSynchConsole ---------------------------
(***************************************************************************)
(* Instances of SynchConsole for TLC.                                      *)
(***************************************************************************)
EXTENDS SynchConsole

CONSTANTS t1, t2, a, b

MCLine == {<<a, b>>}

\* Two short lines, the end of the stream, and characters that look like EOF.
MCKeyboard == {<<a, EOLN, b>>, <<EOF, a, CtrlA>>}

=============================================================================
