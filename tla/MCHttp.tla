------------------------------- MODULE MCHttp -------------------------------
(* Instances of Http for TLC. *)
EXTENDS Http, TLC

\* The second session is more important.
ByNumber == [s \in Sessions |-> s]
\* The first does everything, the second reads.
Various == [s \in Sessions |-> <<{"RETRIEVE", "STORE", "CHANGE_DIR", "ARRAY_INFO", "MAKE_DIR", "REMOVE"}, {"RETRIEVE"}>>[s]]
=============================================================================
