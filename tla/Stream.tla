------------------------------- MODULE Stream -------------------------------
(***************************************************************************)
(* What a session promises to whoever reads a file through it (Read of      *)
(* FileAccess): the bytes of the file opened last, from the offset it was   *)
(* opened at, in order and each once, and the end only behind the last.     *)
(* How often the session connects, asks again or fails meanwhile does not   *)
(* show.                                                                    *)
(***************************************************************************)
EXTENDS Integers, Sequences

CONSTANTS Readers, N        \* N: the length of every file

VARIABLES open,     \* reader -> what it has opened: [file, from], or Nothing
          got,      \* reader -> the bytes it has read: <<file, offset>>
          ended     \* reader -> whether it was told the end

vars == <<open, got, ended>>

Nothing == [file |-> <<>>, from |-> 0]

Init ==
    /\ open = [r \in Readers |-> Nothing]
    /\ got = [r \in Readers |-> <<>>]
    /\ ended = [r \in Readers |-> FALSE]

\* A file is opened, or closed at any time.
Reopen(r) ==
    /\ \E from \in 0..N : open'[r].from = from
    /\ open' = [open EXCEPT ![r] = open'[r]]
    /\ got' = [got EXCEPT ![r] = <<>>] /\ ended' = [ended EXCEPT ![r] = FALSE]

Deliver(r) ==
    /\ ~ended[r] /\ open[r].from + Len(got[r]) < N
    /\ got' = [got EXCEPT ![r] = Append(@, <<open[r].file, open[r].from + Len(@)>>)]
    /\ UNCHANGED <<open, ended>>

End(r) ==
    /\ open[r].from + Len(got[r]) = N
    /\ ended' = [ended EXCEPT ![r] = TRUE]
    /\ UNCHANGED <<open, got>>

Next == \E r \in Readers : Reopen(r) \/ Deliver(r) \/ End(r)
Spec == Init /\ [][Next]_vars

-----------------------------------------------------------------------------
\* The bytes of a file from an offset on, so many
Part(file, from, n) == [i \in 1..n |-> <<file, from + i - 1>>]

\* Whoever is told the end has read all of the file behind its offset, and nothing else.
Complete == \A r \in Readers : ended[r] => got[r] = Part(open[r].file, open[r].from, N - open[r].from)
=============================================================================
