------------------------------- MODULE MCJob --------------------------------
(* Instances of Job: what each kind of job may start, per run. *)
EXTENDS Job, TLC

ShellAndParts == [shell |-> {"shell", "plain", "copyenv", "proc"},
                  plain |-> {"copy", "shell"},
                  copyenv |-> {"copy", "proc"}]

Symmetry == Permutations(Id \ {Top})
=============================================================================
