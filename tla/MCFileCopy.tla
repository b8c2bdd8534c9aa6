----------------------------- MODULE MCFileCopy -----------------------------
(* Instances of FileCopy for TLC. *)
EXTENDS FileCopy

\* A faulty source with a local file and with a session that stores all it is sent;
\* a session that fails, all data going through the buffer.
Three ==
    {[to_file |-> TRUE, put_min |-> 2, src_faults |-> 2, dst_faults |-> 1],
     [to_file |-> FALSE, put_min |-> 2, src_faults |-> 2, dst_faults |-> 0],
     [to_file |-> FALSE, put_min |-> 9, src_faults |-> 1, dst_faults |-> 1]}

=============================================================================
