------------------------------ MODULE MCMirror ------------------------------
(* Instances of Mirror for TLC: options and pairs of small trees. *)
EXTENDS Mirror, TLC

F(date, size) == [type |-> "file", date |-> date, size |-> size]

\* A file at the top, a directory with a file, and one below it with a file
Source == (<<>> :> Dir) @@ (<<"a">> :> F(2, 1)) @@ (<<"d">> :> Dir) @@ (<<"d", "x">> :> F(2, 1))
          @@ (<<"d", "e">> :> Dir) @@ (<<"d", "e", "y">> :> F(2, 2))
\* Nothing yet; an older copy with something that is gone; one with everything in the wrong place
Nothing == <<>> :> Dir
Older == Nothing @@ (<<"a">> :> F(1, 1)) @@ (<<"d">> :> Dir) @@ (<<"d", "x">> :> F(2, 1)) @@ (<<"d", "z">> :> Dir) @@ (<<"d", "z", "x">> :> F(1, 1))
Crossed == Nothing @@ (<<"a">> :> Dir) @@ (<<"a", "b">> :> F(1, 1)) @@ (<<"d">> :> F(1, 1))

Plain == [src |-> Source, tgt |-> Nothing, local |-> TRUE, delete |-> FALSE, depth |-> FALSE, scan |-> FALSE,
          remove_first |-> FALSE, no_empty |-> FALSE, only_existing |-> FALSE, transfer_all |-> FALSE,
          overwrite |-> FALSE, only_newer |-> FALSE, ignore_time |-> FALSE, perms |-> FALSE, loop |-> FALSE,
          remove_source |-> FALSE, remove_dirs |-> FALSE, parallel |-> 1, parallel_dirs |-> TRUE, max_errors |-> 0]

\* Repeated until nothing changes
Looping == {[Plain EXCEPT !.loop = TRUE]}
\* Every way to go through the directories, to remove, to any of the targets
Several ==
    {[Plain EXCEPT !.tgt = to, !.local = l, !.delete = del, !.remove_first = rf, !.depth = dep, !.parallel = n,
                   !.parallel_dirs = pd] :
       to \in {Nothing, Older, Crossed}, l, del, rf, dep, pd \in BOOLEAN, n \in 1..2}
    \cup {[Plain EXCEPT !.depth = TRUE, !.no_empty = TRUE, !.tgt = to, !.parallel = 2] : to \in {Nothing, Older}}
    \cup {[Plain EXCEPT !.depth = TRUE, !.scan = TRUE, !.tgt = to, !.perms = TRUE, !.delete = TRUE] : to \in {Nothing, Older}}
    \cup {[Plain EXCEPT !.remove_source = TRUE, !.remove_dirs = TRUE, !.tgt = to, !.parallel = 2, !.max_errors = m] :
             to \in {Nothing, Older}, m \in 0..1}
    \cup {[Plain EXCEPT !.only_existing = TRUE, !.tgt = Older, !.local = l, !.transfer_all = ta] : l, ta \in BOOLEAN}
=============================================================================
