----------------------------- MODULE LineConsole -----------------------------
(***************************************************************************)
(* What SynchConsole promises (threads/synchcons.h): "Write a synchronous  *)
(* line" and "Read synch line.  Ends in EOLN or ^A".  A line is displayed  *)
(* in one piece, and a Read takes the next characters of the input, all of *)
(* one line, in one piece.                                                 *)
(***************************************************************************)
EXTENDS Integers, Sequences

CONSTANTS
    Thread,
    Line,       \* what programs write
    EOLN, CtrlA,
    InitialInput,
    MaxBytes    \* the largest numBytes of a Read

VARIABLES
    in,         \* the characters that no Read has taken
    out,        \* the characters displayed
    result      \* result[t]: what the last Read of t returned and stored

Init ==
    /\ in \in InitialInput
    /\ out = <<>>
    /\ result = [t \in Thread |-> <<0, <<>>>>]

Ends(c) == c \in {EOLN, CtrlA}

\* s is all that a Read of n characters takes.
Complete(s, n) ==
    /\ \A i \in 1 .. Len(s) - 1 : ~Ends(s[i])
    /\ Len(s) = n \/ (s # <<>> /\ Ends(s[Len(s)]))

\* What such a Read returns and stores.  A Read of no characters returns 0 or -1.
Results(s) ==
    IF s = <<>> THEN {<<0, <<>>>>, <<-1, <<>>>>}
    ELSE IF Ends(s[Len(s)])
         THEN LET line == SubSeq(s, 1, Len(s) - 1)
              IN  {<<IF s[Len(s)] = CtrlA THEN -1 ELSE Len(line), line>>}
         ELSE {<<Len(s), s>>}

Write ==
    /\ \E line \in Line : out' = out \o line
    /\ UNCHANGED <<in, result>>

Read(t) ==
    \E n \in 0 .. MaxBytes : \E j \in 0 .. n :
        /\ j <= Len(in)
        /\ LET s == SubSeq(in, 1, j)
           IN  /\ Complete(s, n)
               /\ \E r \in Results(s) : result' = [result EXCEPT ![t] = r]
        /\ in' = SubSeq(in, j + 1, Len(in))
        /\ UNCHANGED out

Next == Write \/ \E t \in Thread : Read(t)

Spec == Init /\ [][Next]_<<in, out, result>>

=============================================================================
