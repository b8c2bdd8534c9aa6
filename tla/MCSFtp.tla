------------------------------- MODULE MCSFtp -------------------------------
(* Instances of SFtp for TLC. *)
EXTENDS SFtp, TLC

\* The second session is more important.
ByNumber == [s \in Sessions |-> s]
\* The first does everything, the second reads.
Various == [s \in Sessions |-> <<{"RETRIEVE", "STORE", "REMOVE", "ARRAY_INFO"}, {"RETRIEVE"}>>[s]]
=============================================================================
