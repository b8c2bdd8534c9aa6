------------------------------- MODULE MCFtp -------------------------------
(* Instances of Ftp. *)
EXTENDS Ftp

One == {1}
Two == {1, 2}
AllModes == {"CHANGE_DIR", "REMOVE", "RETRIEVE", "STORE"}
OneModes == [s \in One |-> AllModes]
OnePriority == [s \in One |-> 1]
SharedModes == [s \in Two |-> IF s = 1 THEN {"CHANGE_DIR", "RETRIEVE"} ELSE {"RETRIEVE", "STORE"}]
SharedPriority == [s \in Two |-> s]
Flat == {<<>>, <<"a">>}
============================================================================
