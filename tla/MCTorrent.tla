----------------------------- MODULE MCTorrent -----------------------------
(* Instances of Torrent for TLC. *)
EXTENDS Torrent, TLC

CONSTANTS p1, p2

\* A piece of two blocks and one of one block
TwoAndOne == <<2, 1>>

\* One remote has all, the other gets the second piece later.
FirstHasAll == p1 :> {1, 2} @@ p2 :> {1}
Nothing == [p \in Peer |-> {}]
=============================================================================
