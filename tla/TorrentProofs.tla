---------------------------- MODULE TorrentProofs ----------------------------
(***************************************************************************)
(* For any number of peers, pieces, blocks and requests, the counters of a  *)
(* torrent are exact, blocks reserved for a peer that answers in order are  *)
(* in its queue, announced pieces are good on disk, and no bitfield or      *)
(* buffer is used that a disconnect has taken away.                         *)
(*                                                                         *)
(* Torrent.tla composes a step of operators on a state w, as the code       *)
(* composes it of calls.  The inductive invariant Good is likewise said of  *)
(* any such state, and there is one lemma per operator: what a call returns *)
(* of a good state is good.  Between two calls only Sound may hold, the part *)
(* that Disconnect needs: Startup has the metadata before the peers without *)
(* bitfields are dropped, and Ready is true again when they are.            *)
(*                                                                         *)
(* The properties are not inductive by themselves.  ReservedIsRequested and *)
(* HaveIsGood need that a block is in a queue once (Once) and that a block   *)
(* which has come is in no queue whose remote may still answer it (Settled),  *)
(* unless its piece was requested twice of one peer; the counters need that  *)
(* peers which are not connected are neither interesting nor unchoked        *)
(* (Alive); NoNullUse needs that a connected peer has a bitfield when there  *)
(* is metadata (Ready).                                                     *)
(***************************************************************************)
EXTENDS Torrent, SequenceTheorems, NaturalsInduction, FiniteSetTheorems, TLAPS

-----------------------------------------------------------------------------
(* Types.                                                                  *)

Tor == [md : {"have", "download"}, md_got : Seq({"good", "bad"}), state : {"active", "validating", "shut"}, index : Nat,
        have : SUBSET Piece, complete : BOOLEAN, complete_pieces : Int, left : Int, end_game : BOOLEAN,
        present : [Piece -> SUBSET Block], disk : [Block -> {"good", "bad", "none"}],
        downloader : [Block -> Peer \cup {NoPeer}], downloader_count : [Piece -> Int],
        sources : [Piece -> Int], interested : Int, not_choking : Int, twice : SUBSET Piece, crash : BOOLEAN]
PeerT == [st : {"out", "black", "idle", "conn", "up"}, passive : BOOLEAN, error : BOOLEAN, bits : BOOLEAN, has : SUBSET Piece,
          interested : BOOLEAN, choking : BOOLEAN, peer_interested : BOOLEAN, peer_choking : BOOLEAN,
          sent : Seq(Block), recv : Nat, fast : SUBSET Piece, invalid : Nat, md : BOOLEAN]
Asked == Block \cup ({0} \X Nat)
World == [tor : Tor, peer : [Peer -> PeerT], asked : [Peer -> Seq(Asked)]]

-----------------------------------------------------------------------------
(* The inductive invariant, of a state w.                                  *)

\* b is among the requests q.
In(q, b) == \E k \in 1..Len(q) : q[k] = b

\* The counts of blocks and pieces
Reserved(t, i) == {b \in BlocksOf(i) : t.downloader[b] # NoPeer}
Missing(t) == UNION {BlocksOf(i) : i \in Piece \ t.have}
Pieces(t) == /\ t.complete_pieces = Cardinality(t.have) /\ t.left = Cardinality(Missing(t))
             /\ \A i \in Piece : t.present[i] \subseteq BlocksOf(i)
Downloaders(t) == \A i \in Piece : t.downloader_count[i] = Cardinality(Reserved(t, i))
\* and of peers
Having(r, i) == {p \in Peer : i \in r[p].has}
Liked(r) == {p \in Peer : r[p].interested}
Unchoked(r) == {p \in Peer : ~r[p].choking}
Sources(t, r) == \A i \in Piece : t.sources[i] = Cardinality(Having(r, i))
Numbers(t, r) == /\ t.interested = Cardinality(Liked(r)) /\ t.interested <= MaxUploaders
                 /\ t.not_choking = Cardinality(Unchoked(r))

\* A peer that is wanted, served or asked is connected, and has a bitfield only when there is metadata.
Alive(t, r, q) ==
    /\ r.st # "up" => ~r.interested /\ r.choking /\ ~r.bits /\ q = <<>>
    /\ ~r.bits => r.has = {}
    /\ r.bits => t.md = "have"
    /\ Len(r.sent) <= MaxQueueLen /\ r.recv <= MaxRecv

\* A block that is reserved for a peer waits in its queue.
Waiting(t, r) ==
    \A b \in Block : t.downloader[b] \in Peer \ Fast =>
      r[t.downloader[b]].st = "up" /\ In(r[t.downloader[b]].sent, b)

\* A block whose piece has not been requested twice of a peer is requested of it once, and one that has come
\* is not waited for any more.
Once(q, T) == \A j, k \in 1..Len(q) : q[j] = q[k] /\ q[j][1] \notin T => j = k
Settled(t, r, q) ==
    \A b \in Block : b[1] \notin t.twice /\ In(r.sent, b) /\ In(q, b) => b[1] \notin t.have /\ b \notin t.present[b[1]]
Verified(t) == \A i \in t.have \ t.twice : \A b \in BlocksOf(i) : t.disk[b] = "good"

Each(t, r, q) == Alive(t, r, q) /\ Once(r.sent, t.twice) /\ Settled(t, r, q)
Sound(w) ==
    /\ w \in World /\ ~w.tor.crash
    /\ Pieces(w.tor) /\ Downloaders(w.tor) /\ Sources(w.tor, w.peer) /\ Numbers(w.tor, w.peer)
    /\ \A p \in Peer : Each(w.tor, w.peer[p], w.asked[p])
    /\ Waiting(w.tor, w.peer) /\ Verified(w.tor)

\* With metadata each connected peer has a bitfield; while pieces are validated no peer is asked for anything.
Ready(w) ==
    /\ \A p \in Peer : w.peer[p].st = "up" /\ w.tor.md = "have" => w.peer[p].bits
    /\ w.tor.state = "validating" =>
         w.tor.md = "have" /\ w.tor.index \in Piece /\ \A p \in Peer : ~w.peer[p].interested /\ w.asked[p] = <<>>
Good(w) == Sound(w) /\ Ready(w)

IInv == Good(W) /\ faults \in Nat

-----------------------------------------------------------------------------
(* Numbers, sets and sequences.                                            *)

\* The parameters.
LEMMA Parameters ==
    /\ IsFiniteSet(Peer) /\ NoPeer \notin Peer
    /\ Fast \subseteq Peer /\ Downloader \subseteq Peer /\ Incoming \subseteq Peer
    /\ BlocksInPiece \in Seq(Nat \ {0}) /\ BlocksInPiece # <<>>
    /\ \A p \in Peer : Bitfield[p] \subseteq Piece /\ Later[p] \subseteq Piece
    /\ AllowedFast \subseteq Piece /\ \A there \in OnDisk : there \subseteq Piece
    /\ MaxUploaders \in Nat /\ MaxDownloaders \in Nat /\ MaxQueueLen \in Nat /\ MaxRecv \in Nat
    /\ MaxInvalid \in Nat /\ MetadataLen \in Nat /\ Faults \in Nat
BY TorrentAssumption DEF TorrentAssumption, Piece

\* Pieces are numbered from one and have blocks, each block is one of one piece.
LEMMA PiecesAre ==
    /\ Piece = 1..Len(BlocksInPiece) /\ Len(BlocksInPiece) \in Nat /\ 1 \in Piece /\ IsFiniteSet(Piece)
    /\ \A i \in Piece : i \in Nat /\ i > 0 /\ BlocksInPiece[i] \in Nat /\ BlocksInPiece[i] > 0
<1>1. Len(BlocksInPiece) \in Nat \ {0} /\ DOMAIN BlocksInPiece = 1..Len(BlocksInPiece)
  BY Parameters, LenProperties, EmptySeq
<1>2. \A i \in 1..Len(BlocksInPiece) : BlocksInPiece[i] \in Nat \ {0}
  BY Parameters, ElementOfSeq
<1>3. IsFiniteSet(1..Len(BlocksInPiece))
  BY <1>1, FS_Interval
<1> QED
  BY <1>1, <1>2, <1>3 DEF Piece

\* Each block belongs to one piece, which its first component names.
LEMMA BlocksAre ==
    /\ \A i \in Piece : BlocksOf(i) \subseteq Block /\ BlocksOf(i) # {}
    /\ \A i \in Piece : \A b \in BlocksOf(i) : b[1] = i /\ b = <<i, b[2]>> /\ b[2] \in Nat
    /\ \A b \in Block : b[1] \in Piece /\ b \in BlocksOf(b[1])
    /\ \A i, j \in Piece : i # j => BlocksOf(i) \cap BlocksOf(j) = {}
<1>1. \A i \in Piece : <<i, 1>> \in BlocksOf(i)
  BY PiecesAre DEF BlocksOf
<1>2. \A i \in Piece : \A b \in BlocksOf(i) : b[1] = i /\ b = <<i, b[2]>> /\ b[2] \in Nat
  BY PiecesAre DEF BlocksOf
<1> QED
  BY <1>1, <1>2 DEF Block

\* The number of blocks of a piece
LEMMA BlocksCount ==
    /\ \A i \in Piece : IsFiniteSet(BlocksOf(i)) /\ Cardinality(BlocksOf(i)) = BlocksInPiece[i]
    /\ IsFiniteSet(Block)
<1>1. ASSUME NEW i \in Piece PROVE IsFiniteSet(BlocksOf(i)) /\ Cardinality(BlocksOf(i)) = BlocksInPiece[i]
  <2> DEFINE n == BlocksInPiece[i]  f == [b \in 1..n |-> <<i, b>>]
  <2>1. n \in Nat /\ 1 \in Int /\ n \in Int /\ n > 0
    BY PiecesAre
  <2>2. IsFiniteSet(1..n) /\ Cardinality(1..n) = n
    <3> HIDE DEF n
    <3>1. IsFiniteSet(1..n) /\ Cardinality(1..n) = IF 1 > n THEN 0 ELSE n - 1 + 1
      BY <2>1, FS_Interval
    <3> QED
      BY <3>1, <2>1
  <2>3. f \in Bijection(1..n, BlocksOf(i))
    BY DEF Bijection, Injection, Surjection, BlocksOf, IsInjective
  <2>4. ExistsBijection(1..n, BlocksOf(i))
    BY <2>3 DEF ExistsBijection
  <2> HIDE DEF n
  <2> QED
    BY <2>2, <2>4, FS_Bijection DEF n
<1>2. IsFiniteSet(Block)
  <2> DEFINE F == {BlocksOf(i) : i \in Piece}
  <2>1. IsFiniteSet(F)
    <3> DEFINE g == [i \in Piece |-> BlocksOf(i)]
    <3>1. g \in Surjection(Piece, F)
      BY DEF Surjection
    <3> HIDE DEF g, F
    <3> QED
      BY <3>1, PiecesAre, FS_Surjection
  <2>2. \A T \in F : IsFiniteSet(T)
    BY <1>1
  <2> HIDE DEF F
  <2>3. IsFiniteSet(UNION F)
    BY <2>1, <2>2, FS_UNION
  <2> QED
    BY <2>3 DEF F, Block
<1> QED
  BY <1>1, <1>2

\* What is taken out of a finite set is not counted any more,
LEMMA Fewer ==
    ASSUME NEW S, IsFiniteSet(S), NEW T, T \subseteq S
    PROVE  /\ IsFiniteSet(T) /\ IsFiniteSet(S \ T) /\ Cardinality(S \ T) = Cardinality(S) - Cardinality(T)
           /\ Cardinality(S) \in Nat /\ Cardinality(T) \in Nat /\ Cardinality(S \ T) \in Nat
<1>1. IsFiniteSet(T)
  BY FS_Subset
<1>2. IsFiniteSet(S \ T) /\ Cardinality(S \ T) = Cardinality(S) - Cardinality(S \cap T)
  BY FS_Difference
<1>3. S \cap T = T
  OBVIOUS
<1> QED
  BY <1>1, <1>2, <1>3, FS_CardinalityType

\* and what is added to one is.
LEMMA FurtherOn ==
    ASSUME NEW S, IsFiniteSet(S), NEW T, IsFiniteSet(T), S \cap T = {}
    PROVE  /\ IsFiniteSet(S \cup T) /\ Cardinality(S \cup T) = Cardinality(S) + Cardinality(T)
           /\ Cardinality(S) \in Nat /\ Cardinality(T) \in Nat
<1>1. IsFiniteSet(S \cup T) /\ Cardinality(S \cup T) = Cardinality(S) + Cardinality(T) - Cardinality(S \cap T)
  BY FS_Union
<1>2. Cardinality(S \cap T) = 0
  BY FS_EmptySet
<1>3. Cardinality(S) \in Nat /\ Cardinality(T) \in Nat
  BY FS_CardinalityType
<1> QED
  BY <1>1, <1>2, <1>3

\* The order of numbers as a relation
Below == {p \in Nat \X Nat : p[1] < p[2]}
\* Of numbers there is a least.
LEMMA Least ==
    ASSUME NEW S \in SUBSET Nat, S # {}
    PROVE  \E m \in S : \A x \in S : m <= x
<1>1. IsWellFoundedOn(Below, Nat)
  BY NatLessThanWellFounded DEF OpToRel, Below
<1>2. \E m \in S : \A y \in S : ~ (<<y, m>> \in Below)
  BY <1>1, WFMin
<1>3. \A x, y \in S : ~ (<<y, x>> \in Below) => x <= y
  BY DEF Below
<1> QED
  BY <1>2, <1>3

\* FindRequest finds what is there.
LEMMA Found ==
    ASSUME NEW w, NEW p, NEW b, w.peer[p].sent \in Seq(Block)
    PROVE  LET q == w.peer[p].sent  i == FindRequest(w, p, b) IN
           /\ i # 0 <=> In(q, b)
           /\ i # 0 => i \in 1..Len(q) /\ q[i] = b
           /\ i \in 0..Len(q)
<1> DEFINE q == w.peer[p].sent  i == FindRequest(w, p, b)  I == {k \in 1..Len(q) : q[k] = b}
<1>1. q \in Seq(Block) /\ Len(q) \in Nat /\ DOMAIN q = 1..Len(q)
  BY LenProperties
<1>2. b \in ToSet(q) <=> I # {}
  BY <1>1 DEF ToSet
<1>3. i = IF I # {} THEN Min(I) ELSE 0
  BY <1>2 DEF FindRequest, SelectInSeq
<1> HIDE DEF i
<1>4. I # {} => Min(I) \in I
  <2> SUFFICES ASSUME I # {} PROVE Min(I) \in I
    OBVIOUS
  <2>1. I \in SUBSET Nat
    BY <1>1
  <2> HIDE DEF I
  <2>2. \E m \in I : \A x \in I : m <= x
    BY <2>1, Least
  <2> QED
    BY <2>2 DEF Min
<1>5. In(q, b) <=> I # {}
  BY DEF In
<1>6. CASE I # {}
  <2>1. i \in I
    BY <1>6, <1>3, <1>4
  <2> QED
    BY <2>1, <1>5, <1>6, <1>1 DEF i
<1>7. CASE I = {}
  BY <1>7, <1>5, <1>3, <1>1 DEF i
<1> QED
  BY <1>6, <1>7

\* A request is taken out of a queue.
LEMMA TakenOut ==
    ASSUME NEW S, NEW s \in Seq(S), NEW i \in 1..Len(s)
    PROVE  /\ RemoveAt(s, i) \in Seq(S) /\ Len(RemoveAt(s, i)) = Len(s) - 1 /\ Len(s) \in Nat
           /\ \A j \in 1..(Len(s) - 1) : RemoveAt(s, i)[j] = IF j < i THEN s[j] ELSE s[j + 1]
<1> DEFINE n == Len(s)  a == SubSeq(s, 1, i - 1)  b == SubSeq(s, i + 1, n)  t == RemoveAt(s, i)
<1>n. n \in Nat /\ i \in 1..n /\ \A j \in 1..n : s[j] \in S
  BY LenProperties, ElementOfSeq
<1>t. t = a \o b
  BY DEF RemoveAt
<1>1. a \in Seq(S) /\ Len(a) = i - 1 /\ \A j \in 1..(i - 1) : a[j] = s[j]
  <2>1. \A j \in 1..(i - 1) : s[j] \in S
    BY <1>n
  <2> QED
    BY <1>n, <2>1, SubSeqProperties
<1>2. b \in Seq(S) /\ Len(b) = n - i /\ \A j \in 1..(n - i) : b[j] = s[i + j]
  <2>1. \A j \in (i + 1)..n : s[j] \in S
    BY <1>n
  <2> QED
    BY <1>n, <2>1, SubSeqProperties
<1> SUFFICES t \in Seq(S) /\ Len(t) = n - 1 /\ n \in Nat /\ \A j \in 1..(n - 1) : t[j] = IF j < i THEN s[j] ELSE s[j + 1]
  OBVIOUS
<1> HIDE DEF n, a, b, t
<1>4. /\ t \in Seq(S) /\ Len(t) = Len(a) + Len(b)
      /\ \A j \in 1..(Len(a) + Len(b)) : t[j] = IF j <= Len(a) THEN a[j] ELSE b[j - Len(a)]
  <2>1. /\ a \o b \in Seq(S) /\ Len(a \o b) = Len(a) + Len(b)
        /\ \A j \in 1..(Len(a) + Len(b)) : (a \o b)[j] = IF j <= Len(a) THEN a[j] ELSE b[j - Len(a)]
    BY <1>1, <1>2, ConcatProperties
  <2> QED
    BY <2>1, <1>t
<1>5. Len(a) + Len(b) = n - 1
  BY <1>1, <1>2, <1>n
<1>6. \A j \in 1..(n - 1) : t[j] = IF j < i THEN s[j] ELSE s[j + 1]
  <2> TAKE j \in 1..(n - 1)
  <2>1. CASE j < i
    <3>1. j <= Len(a) /\ j \in 1..(i - 1)
      BY <2>1, <1>1, <1>n
    <3> QED
      BY <3>1, <1>4, <1>5, <1>1, <2>1
  <2>2. CASE ~(j < i)
    <3>1. ~(j <= Len(a)) /\ j - Len(a) \in 1..(n - i) /\ i + (j - Len(a)) = j + 1
      BY <2>2, <1>1, <1>n
    <3> QED
      BY <3>1, <1>4, <1>5, <1>2, <2>2
  <2> QED
    BY <2>1, <2>2
<1> QED
  BY <1>4, <1>5, <1>6, <1>n

\* The others stay in it, and what was in it once is not in it any more.
LEMMA LeftBehind ==
    ASSUME NEW S, NEW s \in Seq(S), NEW i \in 1..Len(s), NEW T
    PROVE  /\ \A b : In(RemoveAt(s, i), b) => In(s, b)
           /\ \A b : In(s, b) /\ b # s[i] => In(RemoveAt(s, i), b)
           /\ Once(s, T) => Once(RemoveAt(s, i), T)
           /\ Once(s, T) /\ s[i][1] \notin T => ~In(RemoveAt(s, i), s[i])
<1> DEFINE n == Len(s)  t == RemoveAt(s, i)
<1>1. /\ n \in Nat /\ i \in 1..n /\ Len(t) = n - 1
      /\ \A j \in 1..(n - 1) : t[j] = IF j < i THEN s[j] ELSE s[j + 1]
  BY TakenOut
<1> HIDE DEF n, t
<1>2. ASSUME NEW j \in 1..Len(t)
      PROVE  LET m == IF j < i THEN j ELSE j + 1 IN m \in 1..n /\ m # i /\ t[j] = s[m]
  <2>1. j \in 1..(n - 1)
    BY <1>1
  <2>2. CASE j < i
    BY <2>1, <2>2, <1>1
  <2>3. CASE ~(j < i)
    BY <2>1, <2>3, <1>1
  <2> QED
    BY <2>2, <2>3
<1>3. ASSUME NEW b, In(t, b) PROVE In(s, b)
  BY <1>2, <1>3 DEF In, n
<1>4. ASSUME NEW b, In(s, b), b # s[i] PROVE In(t, b)
  <2>1. PICK k \in 1..n : s[k] = b
    BY <1>4 DEF In, n
  <2>2. CASE k < i
    <3>1. k \in 1..(n - 1) /\ t[k] = s[k]
      BY <2>2, <1>1
    <3> QED
      BY <3>1, <2>1, <1>1 DEF In
  <2>3. CASE k > i
    <3>1. k - 1 \in 1..(n - 1) /\ ~(k - 1 < i) /\ (k - 1) + 1 = k
      BY <2>3, <1>1
    <3>2. t[k - 1] = s[k]
      BY <3>1, <1>1
    <3> QED
      BY <3>1, <3>2, <2>1, <1>1 DEF In
  <2> QED
    BY <2>2, <2>3, <2>1, <1>4, <1>1
<1>5. ASSUME Once(s, T) PROVE Once(t, T)
  <2> SUFFICES ASSUME NEW j \in 1..Len(t), NEW k \in 1..Len(t), t[j] = t[k], t[j][1] \notin T PROVE j = k
    BY DEF Once
  <2> DEFINE a == IF j < i THEN j ELSE j + 1  b == IF k < i THEN k ELSE k + 1
  <2>1. a \in 1..n /\ t[j] = s[a]
    BY <1>2
  <2>2. b \in 1..n /\ t[k] = s[b]
    BY <1>2
  <2> HIDE DEF a, b
  <2>3. a = b
    BY <2>1, <2>2, <1>5 DEF Once, n
  <2>4. j \in Int /\ k \in Int /\ i \in Int
    BY <1>1
  <2> QED
    BY <2>3, <2>4 DEF a, b
<1>6. ASSUME Once(s, T), s[i][1] \notin T, In(t, s[i]) PROVE FALSE
  <2>1. PICK j \in 1..Len(t) : t[j] = s[i]
    BY <1>6 DEF In
  <2> DEFINE m == IF j < i THEN j ELSE j + 1
  <2>2. m \in 1..n /\ m # i /\ t[j] = s[m]
    BY <1>2
  <2> HIDE DEF m
  <2>3. m = i
    BY <2>1, <2>2, <1>1, <1>6 DEF Once, n
  <2> QED
    BY <2>2, <2>3
<1> QED
  BY <1>3, <1>4, <1>5, <1>6 DEF t

\* The first requests of a queue are taken out of it.
LEMMA CutOff ==
    ASSUME NEW S, NEW s \in Seq(S), NEW i \in 0..Len(s), NEW T
    PROVE  LET t == SubSeq(s, i + 1, Len(s)) IN
           /\ t \in Seq(S) /\ Len(t) = Len(s) - i /\ Len(s) \in Nat
           /\ \A b : In(t, b) => In(s, b)
           /\ \A b : In(s, b) => In(t, b) \/ b \in ToSet(SubSeq(s, 1, i))
           /\ ToSet(SubSeq(s, 1, i)) \subseteq S
           /\ Once(s, T) => Once(t, T)
<1> DEFINE n == Len(s)  a == SubSeq(s, 1, i)  t == SubSeq(s, i + 1, Len(s))
<1>1. n \in Nat /\ i \in 0..n /\ \A j \in 1..n : s[j] \in S
  BY LenProperties, ElementOfSeq
<1>2. t \in Seq(S) /\ Len(t) = n - i /\ \A j \in 1..(n - i) : t[j] = s[i + j]
  <2>1. \A j \in (i + 1)..n : s[j] \in S
    BY <1>1
  <2> QED
    BY <2>1, <1>1, SubSeqProperties
<1>3. a \in Seq(S) /\ Len(a) = i /\ \A j \in 1..i : a[j] = s[j]
  <2>1. \A j \in 1..i : s[j] \in S
    BY <1>1
  <2> QED
    BY <2>1, <1>1, SubSeqProperties
<1>4. DOMAIN a = 1..i
  BY <1>3, LenProperties
<1> HIDE DEF n, a, t
<1>5. ASSUME NEW b, In(t, b) PROVE In(s, b)
  <2>1. PICK j \in 1..(n - i) : t[j] = b
    BY <1>2, <1>5 DEF In
  <2>2. i + j \in 1..n /\ s[i + j] = b
    BY <2>1, <1>1, <1>2
  <2> QED
    BY <2>2 DEF In, n
<1>6. ASSUME NEW b, In(s, b) PROVE In(t, b) \/ b \in ToSet(a)
  <2>1. PICK k \in 1..n : s[k] = b
    BY <1>6 DEF In, n
  <2>2. CASE k <= i
    <3>1. k \in 1..i /\ a[k] = b
      BY <2>2, <2>1, <1>1, <1>3
    <3> QED
      BY <3>1, <1>4 DEF ToSet
  <2>3. CASE ~(k <= i)
    <3>1. k - i \in 1..(n - i) /\ i + (k - i) = k
      BY <2>3, <1>1
    <3>2. t[k - i] = b
      BY <3>1, <1>2, <2>1
    <3> QED
      BY <3>1, <3>2, <1>2 DEF In
  <2> QED
    BY <2>2, <2>3
<1>7. ToSet(a) \subseteq S
  BY <1>1, <1>3, <1>4 DEF ToSet
<1>8. ASSUME Once(s, T) PROVE Once(t, T)
  <2> SUFFICES ASSUME NEW j \in 1..(n - i), NEW k \in 1..(n - i), t[j] = t[k], t[j][1] \notin T PROVE j = k
    BY <1>2 DEF Once
  <2>1. i + j \in 1..n /\ i + k \in 1..n /\ t[j] = s[i + j] /\ t[k] = s[i + k]
    BY <1>1, <1>2
  <2>2. i + j = i + k
    BY <2>1, <1>8 DEF Once, n
  <2>3. i \in Int /\ j \in Int /\ k \in Int
    BY <1>1
  <2> QED
    BY <2>2, <2>3
<1> QED
  BY <1>1, <1>2, <1>5, <1>6, <1>7, <1>8 DEF a, n, t

\* Requests are put behind others.
LEMMA PutBehind ==
    ASSUME NEW S, NEW s \in Seq(S), NEW q \in Seq(S), NEW T, NEW U,
           \A j, k \in 1..Len(q) : q[j] = q[k] => j = k,
           \A b : In(s, b) /\ In(q, b) => b[1] \in U, T \subseteq U
    PROVE  /\ s \o q \in Seq(S) /\ Len(s \o q) = Len(s) + Len(q)
           /\ \A b : In(s \o q, b) <=> In(s, b) \/ In(q, b)
           /\ Once(s, T) => Once(s \o q, U)
<1> DEFINE t == s \o q  m == Len(s)  n == Len(q)
<1>1. m \in Nat /\ n \in Nat
  BY LenProperties
<1>2. t \in Seq(S) /\ Len(t) = m + n /\ \A j \in 1..(m + n) : t[j] = IF j <= m THEN s[j] ELSE q[j - m]
  BY ConcatProperties
<1> HIDE DEF t, m, n
<1>3. ASSUME NEW j \in 1..(m + n)
      PROVE  \/ j <= m /\ j \in 1..m /\ t[j] = s[j]
             \/ ~(j <= m) /\ j - m \in 1..n /\ t[j] = q[j - m]
  <2>1. CASE j <= m
    BY <2>1, <1>1, <1>2
  <2>2. CASE ~(j <= m)
    BY <2>2, <1>1, <1>2
  <2> QED
    BY <2>1, <2>2
<1>4. ASSUME NEW b, In(t, b) PROVE In(s, b) \/ In(q, b)
  BY <1>2, <1>3, <1>4 DEF In, m, n
<1>5. ASSUME NEW b, In(s, b) PROVE In(t, b)
  <2>1. PICK k \in 1..m : s[k] = b
    BY <1>5 DEF In, m
  <2>2. k \in 1..(m + n) /\ k <= m
    BY <1>1
  <2> QED
    BY <2>1, <2>2, <1>2 DEF In
<1>6. ASSUME NEW b, In(q, b) PROVE In(t, b)
  <2>1. PICK k \in 1..n : q[k] = b
    BY <1>6 DEF In, n
  <2>2. m + k \in 1..(m + n) /\ ~(m + k <= m) /\ (m + k) - m = k
    BY <1>1
  <2>3. t[m + k] = q[(m + k) - m]
    BY <2>2, <1>2
  <2>4. t[m + k] = b
    BY <2>1, <2>2, <2>3
  <2> QED
    BY <2>2, <2>4, <1>2 DEF In
<1>7. ASSUME Once(s, T) PROVE Once(t, U)
  <2> SUFFICES ASSUME NEW j \in 1..(m + n), NEW k \in 1..(m + n), t[j] = t[k], t[j][1] \notin U PROVE j = k
    BY <1>2 DEF Once
  <2>1. CASE j <= m /\ k <= m
    <3>1. j \in 1..m /\ k \in 1..m /\ s[j] = s[k] /\ s[j][1] \notin T
      BY <2>1, <1>3
    <3> QED
      BY <3>1, <1>7 DEF Once, m
  <2>2. CASE ~(j <= m) /\ ~(k <= m)
    <3>1. j - m \in 1..n /\ k - m \in 1..n /\ q[j - m] = q[k - m]
      BY <2>2, <1>3
    <3>2. j - m = k - m
      BY <3>1 DEF n
    <3> QED
      BY <3>2, <1>1
  <2>3. CASE j <= m /\ ~(k <= m)
    <3>1. In(s, t[j]) /\ In(q, t[k])
      BY <2>3, <1>3 DEF In, m, n
    <3> QED
      BY <3>1
  <2>4. CASE ~(j <= m) /\ k <= m
    <3>1. In(q, t[j]) /\ In(s, t[k])
      BY <2>4, <1>3 DEF In, m, n
    <3> QED
      BY <3>1
  <2> QED
    BY <2>1, <2>2, <2>3, <2>4
<1> QED
  BY <1>2, <1>4, <1>5, <1>6, <1>7 DEF t, m, n

\* The empty queue
LEMMA Empty == \A T, b : ~In(<<>>, b) /\ Once(<<>>, T)
BY DEF In, Once

\* ToSet of a queue
LEMMA InSet ==
    ASSUME NEW S, NEW s \in Seq(S)
    PROVE  /\ \A b : b \in ToSet(s) <=> In(s, b)
           /\ ToSet(s) \subseteq S
<1>1. DOMAIN s = 1..Len(s) /\ \A j \in 1..Len(s) : s[j] \in S
  BY LenProperties, ElementOfSeq
<1> QED
  BY <1>1 DEF ToSet, In

-----------------------------------------------------------------------------
(* What the parts of the invariant depend on.                              *)

HoldsAs(t, u) == /\ u.have = t.have /\ u.complete_pieces = t.complete_pieces /\ u.left = t.left
                 /\ u.present = t.present /\ u.disk = t.disk /\ u.twice = t.twice
ReservesAs(t, u) == u.downloader = t.downloader /\ u.downloader_count = t.downloader_count
IsAs(t, u) == u.md = t.md /\ u.state = t.state /\ u.index = t.index

\* What is counted of pieces and what is verified depend on what the torrent holds.
LEMMA HoldsSame ==
    ASSUME NEW t, NEW u, HoldsAs(t, u), Pieces(t), Verified(t)
    PROVE  Pieces(u) /\ Verified(u)
BY DEF HoldsAs, Pieces, Verified, Missing

\* The numbers of downloaders depend on what is reserved.
LEMMA ReservesSame ==
    ASSUME NEW t, NEW u, ReservesAs(t, u), Downloaders(t)
    PROVE  Downloaders(u)
BY DEF ReservesAs, Downloaders, Reserved

\* The numbers of sources depend on what the peers have.
LEMMA SourcesSame ==
    ASSUME NEW t, NEW u, NEW r, NEW s, u.sources = t.sources, \A x \in Peer : s[x].has = r[x].has, Sources(t, r)
    PROVE  Sources(u, s)
<1>1. \A i \in Piece : Having(s, i) = Having(r, i)
  BY DEF Having
<1> QED
  BY <1>1 DEF Sources

\* The numbers of peers depend on who is interesting and who is choked.
LEMMA NumbersSame ==
    ASSUME NEW t, NEW u, NEW r, NEW s, u.interested = t.interested, u.not_choking = t.not_choking,
           \A x \in Peer : s[x].interested = r[x].interested /\ s[x].choking = r[x].choking, Numbers(t, r)
    PROVE  Numbers(u, s)
<1>1. Liked(s) = Liked(r) /\ Unchoked(s) = Unchoked(r)
  BY DEF Liked, Unchoked
<1> QED
  BY <1>1 DEF Numbers

\* A queue that gets shorter keeps what is said of one peer.
LEMMA EachLess ==
    ASSUME NEW t, NEW u, NEW r, NEW s, NEW q, NEW a, Each(t, r, q),
           u.have = t.have, u.present = t.present, u.twice = t.twice, u.md = t.md,
           s.st = r.st, s.interested = r.interested, s.choking = r.choking, s.bits = r.bits, s.has = r.has,
           s.recv <= MaxRecv, Len(s.sent) <= MaxQueueLen,
           Once(s.sent, t.twice), \A b \in Block : In(s.sent, b) => In(r.sent, b),
           \A b \in Block : In(a, b) => In(q, b), s.st # "up" => a = <<>>
    PROVE  Each(u, s, a)
<1>1. Alive(u, s, a)
  BY DEF Each, Alive
<1>2. Once(s.sent, u.twice)
  OBVIOUS
<1>3. Settled(u, s, a)
  BY DEF Each, Settled
<1> QED
  BY <1>1, <1>2, <1>3 DEF Each

\* What is said of one peer depends on this of the torrent.
LEMMA EachSame ==
    ASSUME NEW t, NEW u, NEW r, NEW q, Each(t, r, q),
           u.have = t.have, u.present = t.present, u.twice = t.twice, u.md = t.md
    PROVE  Each(u, r, q)
BY DEF Each, Alive, Settled

\* Whether reserved blocks wait in queues depends on the queues.
LEMMA WaitingSame ==
    ASSUME NEW t, NEW u, NEW r, NEW s, Waiting(t, r), u.downloader = t.downloader,
           \A x \in Peer : s[x].st = r[x].st /\ s[x].sent = r[x].sent
    PROVE  Waiting(u, s)
BY DEF Waiting

\* What is ready stays it when this does not change.
LEMMA ReadySame ==
    ASSUME NEW w, NEW u, Ready(w), IsAs(w.tor, u.tor),
           \A x \in Peer : /\ u.peer[x].st = "up" => w.peer[x].st = "up"
                           /\ u.peer[x].st = "up" /\ w.peer[x].bits => u.peer[x].bits
                           /\ w.tor.state = "validating" =>
                                (u.peer[x].interested => w.peer[x].interested) /\ (w.asked[x] = <<>> => u.asked[x] = <<>>)
    PROVE  Ready(u)
BY DEF Ready, IsAs

\* The parts of a state
LEMMA Parts ==
    ASSUME NEW w \in World
    PROVE  /\ w.tor \in Tor /\ w.peer \in [Peer -> PeerT] /\ w.asked \in [Peer -> Seq(Asked)]
           /\ w = [tor |-> w.tor, peer |-> w.peer, asked |-> w.asked]
BY DEF World
\* The fields of the torrent
LEMMA TorParts ==
    ASSUME NEW t \in Tor
    PROVE  /\ t.md \in {"have", "download"} /\ t.md_got \in Seq({"good", "bad"}) /\ t.state \in {"active", "validating", "shut"}
           /\ t.index \in Nat /\ t.have \in SUBSET Piece /\ t.complete \in BOOLEAN /\ t.complete_pieces \in Int /\ t.left \in Int
           /\ t.end_game \in BOOLEAN /\ t.present \in [Piece -> SUBSET Block] /\ t.disk \in [Block -> {"good", "bad", "none"}]
           /\ t.downloader \in [Block -> Peer \cup {NoPeer}] /\ t.downloader_count \in [Piece -> Int]
           /\ t.sources \in [Piece -> Int] /\ t.interested \in Int /\ t.not_choking \in Int /\ t.twice \in SUBSET Piece
           /\ t.crash \in BOOLEAN
BY DEF Tor
\* The fields of a peer
LEMMA PeerParts ==
    ASSUME NEW r \in PeerT
    PROVE  /\ r.st \in {"out", "black", "idle", "conn", "up"} /\ r.passive \in BOOLEAN /\ r.error \in BOOLEAN
           /\ r.bits \in BOOLEAN /\ r.has \in SUBSET Piece /\ r.interested \in BOOLEAN /\ r.choking \in BOOLEAN
           /\ r.peer_interested \in BOOLEAN /\ r.peer_choking \in BOOLEAN /\ r.sent \in Seq(Block) /\ r.recv \in Nat
           /\ r.fast \in SUBSET Piece /\ r.invalid \in Nat /\ r.md \in BOOLEAN
BY DEF PeerT
\* The parts of a sound state
LEMMA SoundParts ==
    ASSUME NEW w, Sound(w)
    PROVE  /\ w \in World /\ w.tor.crash = FALSE
           /\ Pieces(w.tor) /\ Downloaders(w.tor) /\ Sources(w.tor, w.peer) /\ Numbers(w.tor, w.peer)
           /\ \A p \in Peer : Each(w.tor, w.peer[p], w.asked[p])
           /\ Waiting(w.tor, w.peer) /\ Verified(w.tor)
           /\ w.tor \in Tor /\ w.peer \in [Peer -> PeerT] /\ w.asked \in [Peer -> Seq(Asked)]
BY TorParts, Parts DEF Sound

-----------------------------------------------------------------------------
(* What the operators change.                                              *)

\* SetPeer replaces one peer.
LEMMA SetPeerDoes ==
    ASSUME NEW w \in World, NEW p \in Peer, NEW r \in PeerT, NEW u, u = SetPeer(w, p, r)
    PROVE  /\ u \in World /\ u.tor = w.tor /\ u.asked = w.asked
           /\ u.peer[p] = r /\ \A x \in Peer : x # p => u.peer[x] = w.peer[x]
<1> DEFINE f == [x \in Peer |-> IF x = p THEN r ELSE w.peer[x]]
<1>1. f \in [Peer -> PeerT]
  BY Parts
<1>2. u = [w EXCEPT !.peer = f]
  BY DEF SetPeer
<1>3. f[p] = r /\ \A x \in Peer : x # p => f[x] = w.peer[x]
  OBVIOUS
<1> HIDE DEF f
<1>4. u \in World /\ u.tor = w.tor /\ u.asked = w.asked /\ u.peer = f
  BY <1>1, <1>2, Zenon DEF World
<1> QED
  BY <1>3, <1>4

\* SetAsked replaces the requests that one remote may answer.
LEMMA SetAskedDoes ==
    ASSUME NEW w \in World, NEW p \in Peer, NEW q \in Seq(Asked), NEW u, u = SetAsked(w, p, q)
    PROVE  /\ u \in World /\ u.tor = w.tor /\ u.peer = w.peer
           /\ u.asked[p] = q /\ \A x \in Peer : x # p => u.asked[x] = w.asked[x]
<1> DEFINE f == [x \in Peer |-> IF x = p THEN q ELSE w.asked[x]]
<1>1. f \in [Peer -> Seq(Asked)]
  BY Parts
<1>2. u = [w EXCEPT !.asked = f]
  BY DEF SetAsked
<1>3. f[p] = q /\ \A x \in Peer : x # p => f[x] = w.asked[x]
  OBVIOUS
<1> HIDE DEF f
<1>4. u \in World /\ u.tor = w.tor /\ u.peer = w.peer /\ u.asked = f
  BY <1>1, <1>2, Zenon DEF World
<1> QED
  BY <1>3, <1>4

\* The blocks that pass to n are all reserved (n is nobody) or all free (n is a peer).
LEMMA SetDownloaderDoes ==
    ASSUME NEW w \in World, NEW bs \in SUBSET Block, NEW n \in Peer \cup {NoPeer}, NEW u, u = SetDownloader(w, bs, n)
    PROVE  /\ u \in World /\ u.peer = w.peer /\ u.asked = w.asked
           /\ HoldsAs(w.tor, u.tor) /\ IsAs(w.tor, u.tor) /\ u.tor.crash = w.tor.crash
           /\ u.tor.sources = w.tor.sources /\ u.tor.interested = w.tor.interested /\ u.tor.not_choking = w.tor.not_choking
           /\ u.tor.complete = w.tor.complete /\ u.tor.end_game = w.tor.end_game /\ u.tor.md_got = w.tor.md_got
           /\ \A b \in Block : u.tor.downloader[b] = IF b \in bs THEN n ELSE w.tor.downloader[b]
           /\ Downloaders(w.tor) /\ (\A b \in bs : (w.tor.downloader[b] = NoPeer) # (n = NoPeer)) => Downloaders(u.tor)
<1> DEFINE d == IF n = NoPeer THEN -1 ELSE 1
           f == [b \in Block |-> IF b \in bs THEN n ELSE w.tor.downloader[b]]
           c == [i \in Piece |-> w.tor.downloader_count[i] + d * Cardinality(BlocksOf(i) \cap bs)]
           t == w.tor
           v == [t EXCEPT !.downloader = f, !.downloader_count = c]
<1>1. t \in Tor
  BY Parts
<1>2. \A i \in Piece : BlocksOf(i) \cap bs \subseteq BlocksOf(i) /\ IsFiniteSet(BlocksOf(i))
  BY BlocksCount
<1>3. \A i \in Piece : Cardinality(BlocksOf(i) \cap bs) \in Nat
  BY <1>2, Fewer
<1>4. t.downloader \in [Block -> Peer \cup {NoPeer}] /\ t.downloader_count \in [Piece -> Int]
  BY <1>1, TorParts
<1>5. f \in [Block -> Peer \cup {NoPeer}]
  BY <1>4
<1>6. c \in [Piece -> Int]
  BY <1>4, <1>3
<1>7. u = [w EXCEPT !.tor = v]
  <2> HIDE DEF f, c
  <2>1. u = [w EXCEPT !.tor.downloader = f, !.tor.downloader_count = c]
    BY Zenon DEF SetDownloader, f, c, d
  <2> QED
    BY <2>1, Zenon DEF World
<1>8. \A b \in Block : f[b] = IF b \in bs THEN n ELSE w.tor.downloader[b]
  OBVIOUS
<1>9. \A i \in Piece : c[i] = t.downloader_count[i] + d * Cardinality(BlocksOf(i) \cap bs)
  OBVIOUS
<1> HIDE DEF f, c
<1>10. /\ v \in Tor /\ v.downloader = f /\ v.downloader_count = c
       /\ HoldsAs(t, v) /\ IsAs(t, v) /\ v.crash = t.crash
       /\ v.sources = t.sources /\ v.interested = t.interested /\ v.not_choking = t.not_choking
       /\ v.complete = t.complete /\ v.end_game = t.end_game /\ v.md_got = t.md_got
  <2> HIDE DEF t
  <2> QED
    BY <1>1, <1>5, <1>6, Zenon DEF Tor, HoldsAs, IsAs
<1>11. ASSUME Downloaders(t), \A b \in bs : (t.downloader[b] = NoPeer) # (n = NoPeer)
       PROVE  Downloaders(v)
  <2> SUFFICES ASSUME NEW i \in Piece PROVE c[i] = Cardinality(Reserved(v, i))
    BY <1>10 DEF Downloaders
  <2> DEFINE A == Reserved(t, i)  B == BlocksOf(i) \cap bs
  <2> HIDE DEF v, t, d
  <2>1. t.downloader_count[i] = Cardinality(A)
    BY <1>11 DEF Downloaders
  <2>2. A \subseteq BlocksOf(i) /\ IsFiniteSet(BlocksOf(i)) /\ BlocksOf(i) \subseteq Block
    BY BlocksCount, BlocksAre DEF Reserved
  <2>3. IsFiniteSet(A) /\ Cardinality(A) \in Nat /\ IsFiniteSet(B) /\ Cardinality(B) \in Nat
    <3> HIDE DEF A
    <3> QED
      BY <2>2, Fewer
  <2>4. CASE n = NoPeer
    <3>1. B \subseteq A
      BY <2>4, <1>11 DEF Reserved
    <3>2. Reserved(v, i) = A \ B
      BY <2>4, <1>8, <1>10, <2>2 DEF Reserved, t
    <3> HIDE DEF A, B
    <3>3. Cardinality(A \ B) = Cardinality(A) - Cardinality(B)
      BY <3>1, <2>3, Fewer
    <3>4. c[i] = Cardinality(A) + (-1) * Cardinality(B)
      BY <2>1, <2>4, <1>9 DEF B, d
    <3> QED
      BY <3>2, <3>3, <3>4, <2>3
  <2>5. CASE n # NoPeer
    <3>1. A \cap B = {}
      BY <2>5, <1>11 DEF Reserved
    <3>2. Reserved(v, i) = A \cup B
      BY <2>5, <1>8, <1>10, <2>2 DEF Reserved, t
    <3> HIDE DEF A, B
    <3>3. Cardinality(A \cup B) = Cardinality(A) + Cardinality(B)
      BY <3>1, <2>3, FurtherOn
    <3>4. c[i] = Cardinality(A) + 1 * Cardinality(B)
      BY <2>1, <2>5, <1>9 DEF B, d
    <3> QED
      BY <3>2, <3>3, <3>4, <2>3
  <2> QED
    BY <2>4, <2>5
<1> HIDE DEF v
<1>12. u \in World /\ u.tor = v /\ u.peer = w.peer /\ u.asked = w.asked
  BY <1>7, <1>10, Zenon DEF World
<1> QED
  BY <1>12, <1>10, <1>11, <1>8

\* What is reserved is released.
LEMMA Released ==
    ASSUME NEW w \in World, NEW bs \in SUBSET Block, \A b \in bs : w.tor.downloader[b] # NoPeer
    PROVE  LET u == SetDownloader(w, bs, NoPeer) IN
           /\ u \in World /\ u.peer = w.peer /\ u.asked = w.asked
           /\ HoldsAs(w.tor, u.tor) /\ IsAs(w.tor, u.tor) /\ u.tor.crash = w.tor.crash
           /\ u.tor.sources = w.tor.sources /\ u.tor.interested = w.tor.interested /\ u.tor.not_choking = w.tor.not_choking
           /\ u.tor.complete = w.tor.complete /\ u.tor.end_game = w.tor.end_game
           /\ \A b \in Block : u.tor.downloader[b] = IF b \in bs THEN NoPeer ELSE w.tor.downloader[b]
           /\ Downloaders(w.tor) => Downloaders(u.tor)
<1> DEFINE u == SetDownloader(w, bs, NoPeer)
<1>1. u = SetDownloader(w, bs, NoPeer) /\ NoPeer \in Peer \cup {NoPeer}
  OBVIOUS
<1> HIDE DEF u
<1>2. /\ u \in World /\ u.peer = w.peer /\ u.asked = w.asked
      /\ HoldsAs(w.tor, u.tor) /\ IsAs(w.tor, u.tor) /\ u.tor.crash = w.tor.crash
      /\ u.tor.sources = w.tor.sources /\ u.tor.interested = w.tor.interested /\ u.tor.not_choking = w.tor.not_choking
      /\ u.tor.complete = w.tor.complete /\ u.tor.end_game = w.tor.end_game
      /\ \A b \in Block : u.tor.downloader[b] = IF b \in bs THEN NoPeer ELSE w.tor.downloader[b]
  BY <1>1, SetDownloaderDoes
<1>3. Downloaders(w.tor) => Downloaders(u.tor)
  BY <1>1, SetDownloaderDoes
<1> QED
  BY <1>2, <1>3 DEF u

-----------------------------------------------------------------------------
(* A peer changes, but not in what is counted or requested.                *)

PlainPeer(r, s) ==
    /\ s \in PeerT /\ s.st = r.st /\ s.interested = r.interested /\ s.choking = r.choking
    /\ s.bits = r.bits /\ s.has = r.has /\ s.sent = r.sent

\* An assignment to members of a peer that nothing depends on keeps the invariant.
LEMMA SetPeerKeeps ==
    ASSUME NEW w, Good(w), NEW p \in Peer, NEW r, PlainPeer(w.peer[p], r), r.recv <= MaxRecv,
           NEW u, u = SetPeer(w, p, r)
    PROVE  /\ Good(u) /\ u.tor = w.tor /\ u.asked = w.asked
           /\ u.peer[p] = r /\ \A x \in Peer : x # p => u.peer[x] = w.peer[x]
<1>s. Sound(w) /\ Ready(w)
  BY DEF Good
<1>w. /\ w \in World /\ w.tor.crash = FALSE
      /\ Pieces(w.tor) /\ Downloaders(w.tor) /\ Sources(w.tor, w.peer) /\ Numbers(w.tor, w.peer)
      /\ \A x \in Peer : Each(w.tor, w.peer[x], w.asked[x])
      /\ Waiting(w.tor, w.peer) /\ Verified(w.tor)
  BY <1>s, SoundParts
<1>r. /\ r \in PeerT /\ r.st = w.peer[p].st /\ r.interested = w.peer[p].interested /\ r.choking = w.peer[p].choking
      /\ r.bits = w.peer[p].bits /\ r.has = w.peer[p].has /\ r.sent = w.peer[p].sent
  BY DEF PlainPeer
<1>1. /\ u \in World /\ u.tor = w.tor /\ u.asked = w.asked
      /\ u.peer[p] = r /\ \A x \in Peer : x # p => u.peer[x] = w.peer[x]
  BY <1>w, <1>r, SetPeerDoes
<1>2. \A x \in Peer : /\ u.peer[x].st = w.peer[x].st /\ u.peer[x].interested = w.peer[x].interested
                      /\ u.peer[x].choking = w.peer[x].choking /\ u.peer[x].bits = w.peer[x].bits
                      /\ u.peer[x].has = w.peer[x].has /\ u.peer[x].sent = w.peer[x].sent
  BY <1>1, <1>r
<1>3. Sources(u.tor, u.peer)
  BY <1>1, <1>2, <1>w, SourcesSame
<1>4. Numbers(u.tor, u.peer)
  BY <1>1, <1>2, <1>w, NumbersSame
<1>5. Waiting(u.tor, u.peer)
  BY <1>1, <1>2, <1>w, WaitingSame
<1>6. Each(u.tor, u.peer[p], u.asked[p])
  <2>1. Each(w.tor, w.peer[p], w.asked[p])
    BY <1>w
  <2>2. Len(r.sent) <= MaxQueueLen /\ Once(r.sent, w.tor.twice) /\ (r.st # "up" => w.asked[p] = <<>>)
    BY <2>1, <1>r DEF Each, Alive
  <2>3. Each(w.tor, r, w.asked[p])
    BY <2>1, <2>2, <1>r, EachLess
  <2> QED
    BY <2>3, <1>1
<1>7. \A x \in Peer : Each(u.tor, u.peer[x], u.asked[x])
  BY <1>6, <1>1, <1>w
<1>8. Ready(u)
  <2>1. IsAs(w.tor, u.tor)
    BY <1>1 DEF IsAs
  <2> QED
    BY <1>1, <1>2, <1>s, <2>1, ReadySame
<1> QED
  BY <1>1, <1>3, <1>4, <1>5, <1>7, <1>8, <1>w DEF Good, Sound

\* The requests of a peer that may still be answered change.
LEMMA SetAskedKeeps ==
    ASSUME NEW w, Good(w), NEW p \in Peer, NEW q \in Seq(Asked),
           \A b \in Block : In(q, b) => In(w.asked[p], b),
           q # <<>> => w.peer[p].st = "up" /\ w.tor.state # "validating",
           NEW u, u = SetAsked(w, p, q)
    PROVE  /\ Good(u) /\ u.tor = w.tor /\ u.peer = w.peer
           /\ u.asked[p] = q /\ \A x \in Peer : x # p => u.asked[x] = w.asked[x]
<1>s. Sound(w) /\ Ready(w)
  BY DEF Good
<1>w. /\ w \in World /\ w.tor.crash = FALSE
      /\ Pieces(w.tor) /\ Downloaders(w.tor) /\ Sources(w.tor, w.peer) /\ Numbers(w.tor, w.peer)
      /\ \A x \in Peer : Each(w.tor, w.peer[x], w.asked[x])
      /\ Waiting(w.tor, w.peer) /\ Verified(w.tor)
  BY <1>s, SoundParts
<1>1. /\ u \in World /\ u.tor = w.tor /\ u.peer = w.peer
      /\ u.asked[p] = q /\ \A x \in Peer : x # p => u.asked[x] = w.asked[x]
  BY <1>w, SetAskedDoes
<1>2. Each(u.tor, u.peer[p], u.asked[p])
  <2>1. Each(w.tor, w.peer[p], w.asked[p])
    BY <1>w
  <2>2. /\ Len(w.peer[p].sent) <= MaxQueueLen /\ Once(w.peer[p].sent, w.tor.twice) /\ w.peer[p].recv <= MaxRecv
        /\ w.peer[p].st # "up" => q = <<>>
    BY <2>1 DEF Each, Alive
  <2>3. Each(w.tor, w.peer[p], q)
    BY <2>1, <2>2, EachLess
  <2> QED
    BY <2>3, <1>1
<1>3. \A x \in Peer : Each(u.tor, u.peer[x], u.asked[x])
  BY <1>2, <1>1, <1>w
<1>4. Ready(u)
  <2>1. IsAs(w.tor, u.tor)
    BY <1>1 DEF IsAs
  <2> QED
    BY <1>1, <1>s, <2>1, ReadySame
<1> QED
  BY <1>1, <1>3, <1>4, <1>w DEF Good, Sound

\* A part of the torrent changes of which the invariant says nothing.
PlainTor(t, u) == /\ u \in Tor /\ HoldsAs(t, u) /\ ReservesAs(t, u) /\ u.md = t.md /\ u.crash = t.crash
                  /\ u.sources = t.sources /\ u.interested = t.interested /\ u.not_choking = t.not_choking
\* Such an assignment to members of the torrent, too; it is the state that decides what is ready.
LEMMA PlainKeeps ==
    ASSUME NEW w, Sound(w), NEW u \in World, PlainTor(w.tor, u.tor), u.peer = w.peer, u.asked = w.asked
    PROVE  /\ Sound(u)
           /\ Ready(w) /\ (u.tor.state = "validating" => w.tor.state = "validating" /\ u.tor.index \in Piece) => Ready(u)
<1>w. /\ w \in World /\ w.tor.crash = FALSE
      /\ Pieces(w.tor) /\ Downloaders(w.tor) /\ Sources(w.tor, w.peer) /\ Numbers(w.tor, w.peer)
      /\ \A x \in Peer : Each(w.tor, w.peer[x], w.asked[x])
      /\ Waiting(w.tor, w.peer) /\ Verified(w.tor)
  BY SoundParts
<1>1. Pieces(u.tor) /\ Verified(u.tor)
  BY <1>w, HoldsSame DEF PlainTor
<1>2. Downloaders(u.tor)
  BY <1>w, ReservesSame DEF PlainTor
<1>3. Sources(u.tor, u.peer) /\ Numbers(u.tor, u.peer) /\ u.tor.crash = FALSE
  BY <1>w, SourcesSame, NumbersSame DEF PlainTor
<1>4. Waiting(u.tor, u.peer)
  BY <1>w, WaitingSame DEF PlainTor, ReservesAs
<1>5. \A x \in Peer : Each(u.tor, u.peer[x], u.asked[x])
  BY <1>w, EachSame DEF PlainTor, HoldsAs
<1>6. Ready(w) /\ (u.tor.state = "validating" => w.tor.state = "validating" /\ u.tor.index \in Piece) => Ready(u)
  BY DEF Ready, PlainTor
<1> QED
  BY <1>1, <1>2, <1>3, <1>4, <1>5, <1>6 DEF Sound

-----------------------------------------------------------------------------
(* Requests are given up.                                                  *)

\* What ClearSentQueue gives up and what it leaves
LEMMA GivenUpIs ==
    ASSUME NEW w \in World, NEW p \in Peer, NEW i \in 0..Len(w.peer[p].sent), NEW T
    PROVE  LET q == w.peer[p].sent  k == KeptSent(w, p, i)  g == GivenUp(w, p, i) IN
           /\ g \subseteq Block /\ \A b \in g : w.tor.downloader[b] = p
           /\ k \in Seq(Block) /\ Len(k) <= Len(q) /\ (Once(q, T) => Once(k, T))
           /\ \A b : In(k, b) => In(q, b)
           /\ p \notin Fast => \A b : In(q, b) /\ w.tor.downloader[b] = p => In(k, b) \/ b \in g
           /\ p \notin Fast /\ i = Len(q) => \A b : ~In(k, b)
<1> DEFINE q == w.peer[p].sent  k == KeptSent(w, p, i)  g == GivenUp(w, p, i)
<1>1. q \in Seq(Block)
  BY Parts, PeerParts
<1>2. Len(q) \in Nat /\ i \in 0..Len(q)
  BY <1>1, LenProperties
<1> SUFFICES /\ g \subseteq Block /\ \A b \in g : w.tor.downloader[b] = p
             /\ k \in Seq(Block) /\ Len(k) <= Len(q) /\ (Once(q, T) => Once(k, T))
             /\ \A b : In(k, b) => In(q, b)
             /\ p \notin Fast => \A b : In(q, b) /\ w.tor.downloader[b] = p => In(k, b) \/ b \in g
             /\ p \notin Fast /\ i = Len(q) => \A b : ~In(k, b)
  OBVIOUS
<1>3. g = OfDownloader(w, IF i = 0 THEN {} ELSE IF p \in Fast THEN {q[i]} ELSE ToSet(SubSeq(q, 1, i)), p)
  BY DEF GivenUp
<1>4. k = IF i = 0 THEN q ELSE IF p \in Fast THEN RemoveAt(q, i) ELSE SubSeq(q, i + 1, Len(q))
  BY DEF KeptSent
<1>5. \A bs : OfDownloader(w, bs, p) = {b \in bs : w.tor.downloader[b] = p}
  BY DEF OfDownloader
<1> HIDE DEF q, k, g
<1>6. CASE i = 0
  <2>1. k = q /\ g = {}
    BY <1>6, <1>3, <1>4, <1>5
  <2>2. i = Len(q) => q = <<>>
    BY <1>6, <1>1, EmptySeq
  <2> QED
    BY <2>1, <2>2, <1>1, <1>2, Empty
<1>7. CASE i # 0 /\ p \in Fast
  <2>1. i \in 1..Len(q)
    BY <1>7, <1>2
  <2>2. q[i] \in Block
    BY <2>1, <1>1, ElementOfSeq
  <2>3. k = RemoveAt(q, i) /\ g = {b \in {q[i]} : w.tor.downloader[b] = p}
    BY <1>7, <1>3, <1>4, <1>5
  <2>4. RemoveAt(q, i) \in Seq(Block) /\ Len(RemoveAt(q, i)) = Len(q) - 1
    BY <2>1, <1>1, TakenOut
  <2>5. (\A b : In(RemoveAt(q, i), b) => In(q, b)) /\ (Once(q, T) => Once(RemoveAt(q, i), T))
    BY <2>1, <1>1, LeftBehind
  <2> QED
    BY <2>2, <2>3, <2>4, <2>5, <1>7, <1>2
<1>8. CASE i # 0 /\ p \notin Fast
  <2>0. k = SubSeq(q, i + 1, Len(q))
    BY <1>8, <1>4
  <2>1. g = {b \in ToSet(SubSeq(q, 1, i)) : w.tor.downloader[b] = p}
    BY <1>8, <1>3, <1>5
  <2>2. /\ k \in Seq(Block) /\ Len(k) = Len(q) - i
        /\ \A b : In(k, b) => In(q, b)
        /\ \A b : In(q, b) => In(k, b) \/ b \in ToSet(SubSeq(q, 1, i))
        /\ ToSet(SubSeq(q, 1, i)) \subseteq Block
        /\ Once(q, T) => Once(k, T)
    BY <2>0, <1>1, <1>2, CutOff
  <2>3. i = Len(q) => \A b : ~In(k, b)
    BY <2>2, <1>2 DEF In
  <2>4. Len(k) <= Len(q)
    BY <2>2, <1>2
  <2> QED
    BY <2>1, <2>2, <2>3, <2>4
<1> QED
  BY <1>6, <1>7, <1>8

\* Two states that differ in what is reserved and in the queues of the peers
SameButSent(w, u) ==
    /\ HoldsAs(w.tor, u.tor) /\ IsAs(w.tor, u.tor) /\ u.asked = w.asked
    /\ u.tor.complete = w.tor.complete /\ u.tor.end_game = w.tor.end_game
    /\ u.tor.interested = w.tor.interested
    /\ \A x \in Peer : /\ u.peer[x].st = w.peer[x].st /\ u.peer[x].interested = w.peer[x].interested
                       /\ u.peer[x].choking = w.peer[x].choking /\ u.peer[x].bits = w.peer[x].bits
                       /\ u.peer[x].has = w.peer[x].has /\ u.peer[x].recv = w.peer[x].recv

\* Requests are taken out of queues, and the blocks among them that were reserved are released.
LEMMA QueuesKeep ==
    ASSUME NEW w, Good(w), NEW bs \in SUBSET Block, \A b \in bs : w.tor.downloader[b] # NoPeer,
           NEW u \in World, u.tor = SetDownloader(w, bs, NoPeer).tor, u.asked = w.asked,
           \A x \in Peer : /\ u.peer[x].st = w.peer[x].st /\ u.peer[x].interested = w.peer[x].interested
                           /\ u.peer[x].choking = w.peer[x].choking /\ u.peer[x].bits = w.peer[x].bits
                           /\ u.peer[x].has = w.peer[x].has /\ u.peer[x].recv = w.peer[x].recv
                           /\ Len(u.peer[x].sent) <= MaxQueueLen /\ Once(u.peer[x].sent, w.tor.twice)
                           /\ \A b \in Block : In(u.peer[x].sent, b) => In(w.peer[x].sent, b)
                           /\ x \notin Fast => \A b \in Block :
                                In(w.peer[x].sent, b) /\ w.tor.downloader[b] = x => In(u.peer[x].sent, b) \/ b \in bs
    PROVE  Good(u) /\ SameButSent(w, u)
<1>s. Sound(w) /\ Ready(w)
  BY DEF Good
<1>w. /\ w \in World /\ w.tor.crash = FALSE
      /\ Pieces(w.tor) /\ Downloaders(w.tor) /\ Sources(w.tor, w.peer) /\ Numbers(w.tor, w.peer)
      /\ \A x \in Peer : Each(w.tor, w.peer[x], w.asked[x])
      /\ Waiting(w.tor, w.peer) /\ Verified(w.tor)
  BY <1>s, SoundParts
<1>1. /\ HoldsAs(w.tor, u.tor) /\ IsAs(w.tor, u.tor) /\ u.tor.crash = w.tor.crash
      /\ u.tor.sources = w.tor.sources /\ u.tor.interested = w.tor.interested /\ u.tor.not_choking = w.tor.not_choking
      /\ u.tor.complete = w.tor.complete /\ u.tor.end_game = w.tor.end_game
      /\ \A b \in Block : u.tor.downloader[b] = IF b \in bs THEN NoPeer ELSE w.tor.downloader[b]
      /\ Downloaders(u.tor)
  BY <1>w, Released
<1>2. Pieces(u.tor) /\ Verified(u.tor)
  BY <1>1, <1>w, HoldsSame
<1>3. Sources(u.tor, u.peer) /\ Numbers(u.tor, u.peer)
  BY <1>1, <1>w, SourcesSame, NumbersSame
<1>4. \A x \in Peer : Each(u.tor, u.peer[x], u.asked[x])
  <2> SUFFICES ASSUME NEW x \in Peer PROVE Each(u.tor, u.peer[x], u.asked[x])
    OBVIOUS
  <2>1. Each(w.tor, w.peer[x], w.asked[x])
    BY <1>w
  <2>2. /\ u.tor.have = w.tor.have /\ u.tor.present = w.tor.present /\ u.tor.twice = w.tor.twice
        /\ u.tor.md = w.tor.md
    BY <1>1 DEF HoldsAs, IsAs
  <2>3. w.peer[x].recv <= MaxRecv /\ (u.peer[x].st # "up" => u.asked[x] = <<>>)
    BY <2>1 DEF Each, Alive
  <2> QED
    BY <2>1, <2>2, <2>3, EachLess
<1>5. Waiting(u.tor, u.peer)
  <2> SUFFICES ASSUME NEW b \in Block, u.tor.downloader[b] \in Peer \ Fast
               PROVE  u.peer[u.tor.downloader[b]].st = "up" /\ In(u.peer[u.tor.downloader[b]].sent, b)
    BY DEF Waiting
  <2>1. b \notin bs /\ u.tor.downloader[b] = w.tor.downloader[b]
    BY <1>1, Parameters
  <2>2. w.peer[w.tor.downloader[b]].st = "up" /\ In(w.peer[w.tor.downloader[b]].sent, b)
    BY <2>1, <1>w DEF Waiting
  <2> QED
    BY <2>1, <2>2
<1>6. Ready(u)
  BY <1>1, <1>s, ReadySame
<1>7. SameButSent(w, u)
  BY <1>1 DEF SameButSent
<1> QED
  BY <1>1, <1>2, <1>3, <1>4, <1>5, <1>6, <1>7, <1>w DEF Good, Sound

\* ClearSentQueue keeps a state good, whether it gives up one request or all up to it.
LEMMA ClearSentQueueKeeps ==
    ASSUME NEW w, Good(w), NEW p \in Peer, NEW i \in 0..Len(w.peer[p].sent), NEW u, u = ClearSentQueue(w, p, i)
    PROVE  Good(u) /\ SameButSent(w, u)
<1>w. w \in World /\ Each(w.tor, w.peer[p], w.asked[p]) /\ \A x \in Peer : Each(w.tor, w.peer[x], w.asked[x])
  BY SoundParts DEF Good
<1> DEFINE q == w.peer[p].sent  k == KeptSent(w, p, i)  g == GivenUp(w, p, i)  r == [w.peer[p] EXCEPT !.sent = k]
           v == SetDownloader(w, g, NoPeer)
<1>1. /\ g \subseteq Block /\ \A b \in g : w.tor.downloader[b] = p
      /\ k \in Seq(Block) /\ Len(k) <= Len(q) /\ (Once(q, w.tor.twice) => Once(k, w.tor.twice))
      /\ \A b : In(k, b) => In(q, b)
      /\ p \notin Fast => \A b : In(q, b) /\ w.tor.downloader[b] = p => In(k, b) \/ b \in g
  BY <1>w, GivenUpIs
<1>2. q \in Seq(Block) /\ Len(q) \in Nat /\ Len(q) <= MaxQueueLen /\ Once(q, w.tor.twice)
  <2>1. q \in Seq(Block)
    BY <1>w, Parts, PeerParts
  <2> QED
    BY <2>1, <1>w, LenProperties DEF Each, Alive
<1>3. Len(k) \in Nat /\ MaxQueueLen \in Nat
  BY <1>1, LenProperties, Parameters
<1>4. u = SetPeer(v, p, r)
  BY DEF ClearSentQueue
<1> HIDE DEF k, g, r
<1>5. v \in World /\ v.peer = w.peer /\ v.asked = w.asked
  <2>1. g \in SUBSET Block /\ w \in World
    BY <1>w, <1>1
  <2>2. \A b \in g : w.tor.downloader[b] # NoPeer
    BY <1>1, Parameters
  <2> QED
    BY <2>1, <2>2, Released
<1>6. w.peer[p] \in PeerT
  BY <1>w, Parts
<1>7. /\ r \in PeerT /\ r.st = w.peer[p].st /\ r.interested = w.peer[p].interested
      /\ r.choking = w.peer[p].choking /\ r.bits = w.peer[p].bits /\ r.has = w.peer[p].has /\ r.recv = w.peer[p].recv
      /\ r.sent = k
  BY <1>6, <1>1, Zenon DEF PeerT, r
<1> HIDE DEF r, v
<1>8. u \in World /\ u.tor = v.tor /\ u.asked = w.asked /\ u.peer[p] = r /\ \A x \in Peer : x # p => u.peer[x] = w.peer[x]
  BY <1>4, <1>5, <1>7, SetPeerDoes
<1>9. \A b \in g : w.tor.downloader[b] # NoPeer
  BY <1>1, Parameters
<1>10. ASSUME NEW x \in Peer
       PROVE  /\ u.peer[x].st = w.peer[x].st /\ u.peer[x].interested = w.peer[x].interested
              /\ u.peer[x].choking = w.peer[x].choking /\ u.peer[x].bits = w.peer[x].bits
              /\ u.peer[x].has = w.peer[x].has /\ u.peer[x].recv = w.peer[x].recv
              /\ Len(u.peer[x].sent) <= MaxQueueLen /\ Once(u.peer[x].sent, w.tor.twice)
              /\ \A b \in Block : In(u.peer[x].sent, b) => In(w.peer[x].sent, b)
              /\ x \notin Fast => \A b \in Block :
                   In(w.peer[x].sent, b) /\ w.tor.downloader[b] = x => In(u.peer[x].sent, b) \/ b \in g
  <2>1. CASE x = p
    BY <2>1, <1>8, <1>7, <1>1, <1>2, <1>3
  <2>2. CASE x # p
    <3>1. Len(w.peer[x].sent) <= MaxQueueLen /\ Once(w.peer[x].sent, w.tor.twice)
      BY <1>w DEF Each, Alive
    <3> QED
      BY <2>2, <3>1, <1>8
  <2> QED
    BY <2>1, <2>2
<1> HIDE DEF q
<1> QED
  BY <1>1, <1>8, <1>9, <1>10, QueuesKeep DEF v

\* CancelBlock; of a block whose piece was not requested twice no request remains in the queues it reaches.
LEMMA CancelBlockKeeps ==
    ASSUME NEW w, Good(w), NEW ps \in SUBSET Peer, NEW b \in Block, NEW u, u = CancelBlock(w, ps, b)
    PROVE  /\ Good(u) /\ SameButSent(w, u)
           /\ b[1] \notin w.tor.twice => \A x \in ps : ~In(u.peer[x].sent, b)
<1>w. w \in World /\ \A x \in Peer : Each(w.tor, w.peer[x], w.asked[x]) /\ w.peer[x].sent \in Seq(Block) /\ w.peer[x] \in PeerT
  BY SoundParts, PeerParts DEF Good
<1> DEFINE asking == {p \in ps : FindRequest(w, p, b) # 0}
           g == IF w.tor.downloader[b] \in asking THEN {b} ELSE {}
           v == SetDownloader(w, g, NoPeer)
           n(p) == RemoveAt(w.peer[p].sent, FindRequest(w, p, b))
           f == [p \in Peer |-> IF p \in asking THEN [w.peer[p] EXCEPT !.sent = n(p)] ELSE w.peer[p]]
<1>1. u = [v EXCEPT !.peer = f]
  BY DEF CancelBlock
<1>2. g \in SUBSET Block /\ \A a \in g : a = b /\ w.tor.downloader[a] \in asking
  OBVIOUS
<1>3. v \in World /\ v.peer = w.peer /\ v.asked = w.asked
  <2> HIDE DEF g, f
  <2>1. g \in SUBSET Block /\ w \in World /\ \A a \in g : w.tor.downloader[a] # NoPeer
    BY <1>w, <1>2, Parameters
  <2> QED
    BY <2>1, Released
<1>4. ASSUME NEW x \in asking
      PROVE  /\ n(x) \in Seq(Block) /\ Len(n(x)) <= Len(w.peer[x].sent)
             /\ \A a : In(n(x), a) => In(w.peer[x].sent, a)
             /\ \A a : In(w.peer[x].sent, a) /\ a # b => In(n(x), a)
             /\ Once(w.peer[x].sent, w.tor.twice) => Once(n(x), w.tor.twice)
             /\ Once(w.peer[x].sent, w.tor.twice) /\ b[1] \notin w.tor.twice => ~In(n(x), b)
  <2> DEFINE i == FindRequest(w, x, b)  s == w.peer[x].sent  T == w.tor.twice
  <2>0. x \in Peer /\ i # 0
    OBVIOUS
  <2>1. s \in Seq(Block)
    BY <1>w
  <2>2. i \in 1..Len(s) /\ s[i] = b
    BY <2>0, <2>1, Found
  <2> SUFFICES /\ RemoveAt(s, i) \in Seq(Block) /\ Len(RemoveAt(s, i)) <= Len(s)
               /\ \A a : In(RemoveAt(s, i), a) => In(s, a)
               /\ \A a : In(s, a) /\ a # b => In(RemoveAt(s, i), a)
               /\ Once(s, T) => Once(RemoveAt(s, i), T)
               /\ Once(s, T) /\ b[1] \notin T => ~In(RemoveAt(s, i), b)
    OBVIOUS
  <2> HIDE DEF i, s, T
  <2>3. RemoveAt(s, i) \in Seq(Block) /\ Len(RemoveAt(s, i)) = Len(s) - 1 /\ Len(s) \in Nat
    BY <2>1, <2>2, TakenOut
  <2>4. /\ \A a : In(RemoveAt(s, i), a) => In(s, a)
        /\ \A a : In(s, a) /\ a # s[i] => In(RemoveAt(s, i), a)
        /\ Once(s, T) => Once(RemoveAt(s, i), T)
        /\ Once(s, T) /\ s[i][1] \notin T => ~In(RemoveAt(s, i), s[i])
    BY <2>1, <2>2, LeftBehind
  <2> QED
    BY <2>2, <2>3, <2>4
<1>5. \A x \in Peer \ asking : x \in ps => ~In(w.peer[x].sent, b)
  BY <1>w, Found
<1>6. ASSUME NEW x \in Peer
      PROVE  /\ f[x] \in PeerT /\ f[x].st = w.peer[x].st /\ f[x].interested = w.peer[x].interested
             /\ f[x].choking = w.peer[x].choking /\ f[x].bits = w.peer[x].bits /\ f[x].has = w.peer[x].has
             /\ f[x].recv = w.peer[x].recv /\ f[x].sent = IF x \in asking THEN n(x) ELSE w.peer[x].sent
  <2>1. CASE x \in asking
    <3> DEFINE d == n(x)  r == w.peer[x]
    <3>1. f[x] = [r EXCEPT !.sent = d]
      BY <2>1
    <3>2. d \in Seq(Block) /\ r \in PeerT
      BY <2>1, <1>4, <1>w
    <3> HIDE DEF d, r, f
    <3>3. /\ f[x] \in PeerT /\ f[x].st = r.st /\ f[x].interested = r.interested
          /\ f[x].choking = r.choking /\ f[x].bits = r.bits /\ f[x].has = r.has /\ f[x].recv = r.recv /\ f[x].sent = d
      BY <3>1, <3>2, Zenon DEF PeerT
    <3> HIDE DEF asking
    <3> QED
      BY <3>3, <2>1 DEF d, r
  <2>2. CASE x \notin asking
    <3>1. f[x] = w.peer[x]
      BY <2>2
    <3> HIDE DEF f, asking
    <3> QED
      BY <3>1, <2>2, <1>w
  <2> QED
    BY <2>1, <2>2
<1>7. f \in [Peer -> PeerT]
  BY <1>6
<1> HIDE DEF f
<1>8. u \in World /\ u.tor = v.tor /\ u.asked = w.asked /\ u.peer = f
  <2> HIDE DEF v
  <2> QED
    BY <1>1, <1>3, <1>7, Zenon DEF World
<1>9. \A a \in g : w.tor.downloader[a] # NoPeer
  BY <1>2, Parameters
<1> HIDE DEF v
<1>10. ASSUME NEW x \in Peer
       PROVE  /\ u.peer[x].st = w.peer[x].st /\ u.peer[x].interested = w.peer[x].interested
              /\ u.peer[x].choking = w.peer[x].choking /\ u.peer[x].bits = w.peer[x].bits
              /\ u.peer[x].has = w.peer[x].has /\ u.peer[x].recv = w.peer[x].recv
              /\ Len(u.peer[x].sent) <= MaxQueueLen /\ Once(u.peer[x].sent, w.tor.twice)
              /\ \A a \in Block : In(u.peer[x].sent, a) => In(w.peer[x].sent, a)
              /\ x \notin Fast => \A a \in Block :
                   In(w.peer[x].sent, a) /\ w.tor.downloader[a] = x => In(u.peer[x].sent, a) \/ a \in g
              /\ b[1] \notin w.tor.twice /\ x \in ps => ~In(u.peer[x].sent, b)
  <2>1. Len(w.peer[x].sent) <= MaxQueueLen /\ Once(w.peer[x].sent, w.tor.twice) /\ MaxQueueLen \in Nat /\ Len(w.peer[x].sent) \in Nat
    BY <1>w, Parameters, LenProperties DEF Each, Alive
  <2>2. CASE x \in asking
    <3> DEFINE d == n(x)
    <3>1. /\ d \in Seq(Block) /\ Len(d) <= Len(w.peer[x].sent)
          /\ \A a : In(d, a) => In(w.peer[x].sent, a)
          /\ \A a : In(w.peer[x].sent, a) /\ a # b => In(d, a)
          /\ Once(d, w.tor.twice) /\ (b[1] \notin w.tor.twice => ~In(d, b))
      BY <2>2, <2>1, <1>4
    <3>2. f[x].sent = d
      BY <2>2, <1>6
    <3>3. w.tor.downloader[b] = x => b \in g
      BY <2>2
    <3> HIDE DEF d, g, asking
    <3>4. Len(d) \in Nat
      BY <3>1, LenProperties
    <3> QED
      BY <3>1, <3>2, <3>3, <3>4, <2>1, <1>6, <1>8
  <2>3. CASE x \notin asking
    <3>1. f[x].sent = w.peer[x].sent /\ (x \in ps => ~In(w.peer[x].sent, b))
      BY <2>3, <1>6, <1>5
    <3> HIDE DEF g, asking
    <3> QED
      BY <3>1, <2>1, <1>6, <1>8
  <2> QED
    BY <2>2, <2>3
<1>11. b[1] \notin w.tor.twice => \A x \in ps : ~In(u.peer[x].sent, b)
  BY <1>10
<1>12. \A x \in Peer :
         /\ u.peer[x].st = w.peer[x].st /\ u.peer[x].interested = w.peer[x].interested
         /\ u.peer[x].choking = w.peer[x].choking /\ u.peer[x].bits = w.peer[x].bits
         /\ u.peer[x].has = w.peer[x].has /\ u.peer[x].recv = w.peer[x].recv
         /\ Len(u.peer[x].sent) <= MaxQueueLen /\ Once(u.peer[x].sent, w.tor.twice)
         /\ \A a \in Block : In(u.peer[x].sent, a) => In(w.peer[x].sent, a)
         /\ x \notin Fast => \A a \in Block :
              In(w.peer[x].sent, a) /\ w.tor.downloader[a] = x => In(u.peer[x].sent, a) \/ a \in g
  BY <1>10
<1>13. g \in SUBSET Block /\ u.tor = SetDownloader(w, g, NoPeer).tor
  BY <1>2, <1>8 DEF v
<1> HIDE DEF g, asking
<1>14. Good(u) /\ SameButSent(w, u)
  BY <1>8, <1>9, <1>12, <1>13, QueuesKeep
<1> QED
  BY <1>11, <1>14

-----------------------------------------------------------------------------
(* Interest, choking and what a peer has.                                  *)

\* SetAmInterested: to become interested in a peer it must be connected, and there must be room for it.
LEMMA SetAmInterestedKeeps ==
    ASSUME NEW w, Good(w), NEW p \in Peer, NEW interest \in BOOLEAN,
           interest => w.peer[p].interested \/ (Connected(w, p) /\ NeedMoreUploaders(w)),
           NEW u, u = SetAmInterested(w, p, interest)
    PROVE  Good(u)
<1>s. Sound(w) /\ Ready(w)
  BY DEF Good
<1>w. /\ w \in World /\ w.tor.crash = FALSE
      /\ Pieces(w.tor) /\ Downloaders(w.tor) /\ Sources(w.tor, w.peer) /\ Numbers(w.tor, w.peer)
      /\ \A x \in Peer : Each(w.tor, w.peer[x], w.asked[x])
      /\ Waiting(w.tor, w.peer) /\ Verified(w.tor)
      /\ w.tor \in Tor /\ w.peer[p] \in PeerT
  BY <1>s, SoundParts
<1>t. w.tor.interested \in Int /\ w.peer[p].interested \in BOOLEAN
  BY <1>w, TorParts, PeerParts
<1> DEFINE i == interest /\ w.peer[p].invalid <= MaxInvalid
<1>0. CASE w.peer[p].interested = i
  BY <1>0 DEF SetAmInterested
<1>1. CASE w.peer[p].interested # i
  <2> DEFINE r == [w.peer[p] EXCEPT !.interested = i]  v == SetPeer(w, p, r)  d == IF i THEN 1 ELSE -1
             n == w.tor.interested + d  c == w.tor.crash \/ ~Connected(w, p)
             t == [w.tor EXCEPT !.interested = n, !.crash = c]
  <2>i. i \in BOOLEAN /\ n \in Int
    BY <1>t
  <2>n. n = w.tor.interested + d
    OBVIOUS
  <2>c. c = FALSE /\ Connected(w, p)
    <3>1. Connected(w, p)
      <4>1. CASE i
        BY <4>1, <1>1
      <4>2. CASE ~i
        <5>1. w.peer[p].interested /\ Each(w.tor, w.peer[p], w.asked[p])
          BY <4>2, <1>1, <1>t, <1>w
        <5> QED
          BY <5>1 DEF Each, Alive, Connected
      <4> QED
        BY <4>1, <4>2
    <3> QED
      BY <3>1, <1>w
  <2>1. u = [v EXCEPT !.tor.interested = @ + d, !.tor.crash = @ \/ ~Connected(w, p)]
    BY <1>1, Zenon DEF SetAmInterested
  <2>e. i => interest
    OBVIOUS
  <2> HIDE DEF i, r
  <2>x. (i => ~w.peer[p].interested) /\ (~i => w.peer[p].interested)
    <3> DEFINE a == w.peer[p].interested
    <3>1. a \in BOOLEAN /\ a # i
      BY <1>t, <1>1
    <3> HIDE DEF a
    <3>2. (i => ~a) /\ (~i => a)
      BY <3>1, <2>i, Zenon
    <3> QED
      BY <3>2 DEF a
  <2>2. /\ r \in PeerT /\ r.st = w.peer[p].st /\ r.interested = i
        /\ r.choking = w.peer[p].choking /\ r.bits = w.peer[p].bits /\ r.has = w.peer[p].has /\ r.recv = w.peer[p].recv
        /\ r.sent = w.peer[p].sent
    BY <2>i, <1>w, Zenon DEF PeerT, r
  <2>3. /\ v \in World /\ v.tor = w.tor /\ v.asked = w.asked
        /\ v.peer[p] = r /\ \A x \in Peer : x # p => v.peer[x] = w.peer[x]
    <3> HIDE DEF v
    <3>1. v = SetPeer(w, p, r)
      BY DEF v
    <3> QED
      BY <3>1, <2>2, <1>w, SetPeerDoes
  <2> HIDE DEF v
  <2>4. u = [v EXCEPT !.tor = t]
    <3>1. v.tor.interested + d = n /\ (v.tor.crash \/ ~Connected(w, p)) = c
      BY <2>3
    <3> HIDE DEF n, c, d
    <3>2. u = [v EXCEPT !.tor.interested = n, !.tor.crash = c]
      BY <2>1, <3>1, Zenon
    <3> QED
      BY <3>2, <2>3, Zenon DEF World
  <2> HIDE DEF n, c, d
  <2>5. /\ t \in Tor /\ t.interested = n /\ t.crash = FALSE
        /\ HoldsAs(w.tor, t) /\ IsAs(w.tor, t) /\ ReservesAs(w.tor, t)
        /\ t.sources = w.tor.sources /\ t.not_choking = w.tor.not_choking
    BY <2>i, <2>c, <1>w, Zenon DEF Tor, HoldsAs, IsAs, ReservesAs
  <2> HIDE DEF t
  <2>6. u \in World /\ u.tor = t /\ u.peer = v.peer /\ u.asked = w.asked
    BY <2>3, <2>4, <2>5, Zenon DEF World
  <2>7. Pieces(u.tor) /\ Verified(u.tor) /\ Downloaders(u.tor)
    BY <2>5, <2>6, <1>w, HoldsSame, ReservesSame
  <2>8. /\ \A x \in Peer : u.peer[x].st = w.peer[x].st /\ u.peer[x].has = w.peer[x].has /\ u.peer[x].sent = w.peer[x].sent
        /\ \A x \in Peer : u.peer[x].choking = w.peer[x].choking /\ u.peer[x].bits = w.peer[x].bits
        /\ \A x \in Peer : u.peer[x].interested = IF x = p THEN i ELSE w.peer[x].interested
    BY <2>2, <2>3, <2>6
  <2>9. Sources(u.tor, u.peer) /\ Waiting(u.tor, u.peer)
    BY <2>8, <2>5, <2>6, <1>w, SourcesSame, WaitingSame DEF ReservesAs
  <2>10. Numbers(u.tor, u.peer)
    <3> DEFINE A == Liked(w.peer)
    <3>1. Unchoked(u.peer) = Unchoked(w.peer)
      BY <2>8 DEF Unchoked
    <3>2. IsFiniteSet(A)
      <4>1. A \subseteq Peer /\ IsFiniteSet(Peer)
        BY Parameters DEF Liked
      <4> HIDE DEF A
      <4> QED
        BY <4>1, Fewer
    <3>3. w.tor.interested = Cardinality(A) /\ w.tor.interested <= MaxUploaders /\ w.tor.not_choking = Cardinality(Unchoked(w.peer))
      BY <1>w DEF Numbers
    <3>4. Cardinality(Liked(u.peer)) = n /\ n <= MaxUploaders
      <4>1. CASE i
        <5>1. p \notin A /\ Liked(u.peer) = A \cup {p}
          BY <4>1, <2>8, <2>x DEF Liked
        <5>2. w.tor.interested < MaxUploaders
          <6>1. ~w.peer[p].interested
            BY <4>1, <2>x
          <6> QED
            BY <6>1, <2>e, <4>1 DEF NeedMoreUploaders
        <5> HIDE DEF A
        <5>3. Cardinality(A \cup {p}) = Cardinality(A) + 1
          BY <5>1, <3>2, FS_AddElement
        <5>4. n = w.tor.interested + 1
          BY <4>1, <2>n DEF d
        <5> QED
          BY <5>1, <5>2, <5>3, <5>4, <3>3, <1>t, Parameters
      <4>2. CASE ~i
        <5>1. p \in A /\ Liked(u.peer) = A \ {p}
          BY <4>2, <2>8, <2>x DEF Liked
        <5> HIDE DEF A
        <5>3. Cardinality(A \ {p}) = Cardinality(A) - 1
          BY <5>1, <3>2, FS_RemoveElement
        <5>4. n = w.tor.interested + (-1)
          BY <4>2, <2>n DEF d
        <5> QED
          BY <5>1, <5>3, <5>4, <3>3, <1>t, Parameters
      <4> QED
        BY <4>1, <4>2
    <3> QED
      BY <3>1, <3>3, <3>4, <2>5, <2>6 DEF Numbers
  <2>11. \A x \in Peer : Each(u.tor, u.peer[x], u.asked[x])
    <3>1. Each(w.tor, r, w.asked[p])
      <4>1. Each(w.tor, w.peer[p], w.asked[p]) /\ w.peer[p].st = "up"
        BY <1>w, <2>c DEF Connected
      <4>2. Alive(w.tor, r, w.asked[p])
        BY <4>1, <2>2 DEF Each, Alive
      <4> QED
        BY <4>1, <4>2, <2>2 DEF Each, Settled
    <3>2. \A x \in Peer : Each(w.tor, u.peer[x], u.asked[x])
      BY <3>1, <2>3, <2>6, <1>w
    <3> QED
      BY <3>2, <2>5, <2>6, EachSame DEF HoldsAs, IsAs
  <2>12. Ready(u)
    <3>1. w.tor.state = "validating" => ~i
      <4>1. CASE w.peer[p].interested
        BY <4>1, <2>x
      <4>2. CASE ~w.peer[p].interested
        BY <4>2, <2>e DEF NeedMoreUploaders
      <4> QED
        BY <4>1, <4>2
    <3>2. IsAs(w.tor, u.tor)
      BY <2>5, <2>6
    <3>3. \A x \in Peer : /\ u.peer[x].st = "up" => w.peer[x].st = "up"
                          /\ u.peer[x].st = "up" /\ w.peer[x].bits => u.peer[x].bits
                          /\ w.tor.state = "validating" =>
                               (u.peer[x].interested => w.peer[x].interested) /\ (w.asked[x] = <<>> => u.asked[x] = <<>>)
      BY <3>1, <2>8, <2>6
    <3> QED
      BY <3>2, <3>3, <1>s, ReadySame
  <2> QED
    BY <2>5, <2>6, <2>7, <2>9, <2>10, <2>11, <2>12 DEF Good, Sound
<1> QED
  BY <1>0, <1>1

\* SetHaving: the sources of pieces are counted again.
LEMMA SetHavingKeeps ==
    ASSUME NEW w, Good(w), NEW p \in Peer, NEW h \in SUBSET Piece, w.peer[p].bits, NEW u, u = SetHaving(w, p, h)
    PROVE  /\ Good(u) /\ HoldsAs(w.tor, u.tor) /\ IsAs(w.tor, u.tor) /\ u.tor.interested = w.tor.interested
           /\ \A x \in Peer : u.peer[x].st = w.peer[x].st /\ u.peer[x].interested = w.peer[x].interested
<1>s. Sound(w) /\ Ready(w)
  BY DEF Good
<1>w. /\ w \in World /\ w.tor.crash = FALSE
      /\ Pieces(w.tor) /\ Downloaders(w.tor) /\ Sources(w.tor, w.peer) /\ Numbers(w.tor, w.peer)
      /\ \A x \in Peer : Each(w.tor, w.peer[x], w.asked[x])
      /\ Waiting(w.tor, w.peer) /\ Verified(w.tor)
      /\ w.tor \in Tor /\ w.peer[p] \in PeerT
  BY <1>s, SoundParts
<1>t. w.tor.sources \in [Piece -> Int]
  BY <1>w, TorParts
<1> DEFINE old == w.peer[p].has
           src == [i \in Piece |-> w.tor.sources[i] + (IF i \in h \ old THEN 1 ELSE 0) - (IF i \in old \ h THEN 1 ELSE 0)]
           r == [w.peer[p] EXCEPT !.has = h]  v == SetPeer(w, p, r)  c == w.tor.crash \/ ~w.peer[p].bits
           t == [w.tor EXCEPT !.sources = src, !.crash = c]
<1>1. src \in [Piece -> Int]
  BY <1>t
<1>2. c = FALSE
  BY <1>w
<1>3. \A i \in Piece : src[i] = w.tor.sources[i] + (IF i \in h \ old THEN 1 ELSE 0) - (IF i \in old \ h THEN 1 ELSE 0)
  OBVIOUS
<1> HIDE DEF src
<1>4. u = [v EXCEPT !.tor.sources = src, !.tor.crash = @ \/ ~w.peer[p].bits]
  BY Zenon DEF SetHaving, src, old
<1> HIDE DEF r
<1>5. /\ r \in PeerT /\ r.st = w.peer[p].st /\ r.interested = w.peer[p].interested
      /\ r.choking = w.peer[p].choking /\ r.bits = w.peer[p].bits /\ r.has = h /\ r.recv = w.peer[p].recv
      /\ r.sent = w.peer[p].sent
  BY <1>w, Zenon DEF PeerT, r
<1>6. /\ v \in World /\ v.tor = w.tor /\ v.asked = w.asked
      /\ v.peer[p] = r /\ \A x \in Peer : x # p => v.peer[x] = w.peer[x]
  <2>1. v = SetPeer(w, p, r)
    OBVIOUS
  <2> HIDE DEF v
  <2> QED
    BY <2>1, <1>5, <1>w, SetPeerDoes
<1> HIDE DEF v
<1>7. u = [v EXCEPT !.tor = t]
  <2>1. (v.tor.crash \/ ~w.peer[p].bits) = c
    BY <1>6
  <2> HIDE DEF c
  <2>2. u = [v EXCEPT !.tor.sources = src, !.tor.crash = c]
    BY <1>4, <2>1, Zenon
  <2> QED
    BY <2>2, <1>6, Zenon DEF World
<1> HIDE DEF c
<1>8. /\ t \in Tor /\ t.sources = src /\ t.crash = FALSE
      /\ HoldsAs(w.tor, t) /\ IsAs(w.tor, t) /\ ReservesAs(w.tor, t)
      /\ t.interested = w.tor.interested /\ t.not_choking = w.tor.not_choking
  BY <1>1, <1>2, <1>w, Zenon DEF Tor, HoldsAs, IsAs, ReservesAs
<1> HIDE DEF t
<1>9. u \in World /\ u.tor = t /\ u.peer = v.peer /\ u.asked = w.asked
  BY <1>6, <1>7, <1>8, Zenon DEF World
<1>10. Pieces(u.tor) /\ Verified(u.tor) /\ Downloaders(u.tor)
  BY <1>8, <1>9, <1>w, HoldsSame, ReservesSame
<1>11. /\ \A x \in Peer : u.peer[x].st = w.peer[x].st /\ u.peer[x].interested = w.peer[x].interested /\ u.peer[x].sent = w.peer[x].sent
       /\ \A x \in Peer : u.peer[x].choking = w.peer[x].choking /\ u.peer[x].bits = w.peer[x].bits
       /\ \A x \in Peer : u.peer[x].has = IF x = p THEN h ELSE w.peer[x].has
  BY <1>5, <1>6, <1>9
<1>12. Numbers(u.tor, u.peer) /\ Waiting(u.tor, u.peer)
  BY <1>8, <1>9, <1>11, <1>w, NumbersSame, WaitingSame DEF ReservesAs
<1>13. Sources(u.tor, u.peer)
  <2> SUFFICES ASSUME NEW i \in Piece PROVE src[i] = Cardinality(Having(u.peer, i))
    BY <1>8, <1>9 DEF Sources
  <2> DEFINE A == Having(w.peer, i)  B == Having(u.peer, i)
  <2>1. w.tor.sources[i] = Cardinality(A) /\ w.tor.sources[i] \in Int
    BY <1>w, <1>t DEF Sources
  <2>2. IsFiniteSet(A)
    <3>1. A \subseteq Peer /\ IsFiniteSet(Peer)
      BY Parameters DEF Having
    <3> HIDE DEF A
    <3> QED
      BY <3>1, Fewer
  <2>a. p \in A <=> i \in old
    BY DEF Having
  <2>b. B = IF i \in h THEN A \cup {p} ELSE A \ {p}
    BY <1>11 DEF Having
  <2> HIDE DEF A, B, old
  <2>3. CASE i \in h
    <3>1. Cardinality(A \cup {p}) = IF p \in A THEN Cardinality(A) ELSE Cardinality(A) + 1
      BY <2>2, FS_AddElement
    <3> QED
      BY <3>1, <2>1, <2>3, <2>a, <2>b, <1>3 DEF B
  <2>4. CASE i \notin h
    <3>1. Cardinality(A \ {p}) = IF p \in A THEN Cardinality(A) - 1 ELSE Cardinality(A)
      BY <2>2, FS_RemoveElement
    <3> QED
      BY <3>1, <2>1, <2>4, <2>a, <2>b, <1>3 DEF B
  <2> QED
    BY <2>3, <2>4
<1>14. \A x \in Peer : Each(u.tor, u.peer[x], u.asked[x])
  <2>1. Each(w.tor, r, w.asked[p])
    <3>1. Each(w.tor, w.peer[p], w.asked[p])
      BY <1>w
    <3>2. Alive(w.tor, r, w.asked[p])
      BY <3>1, <1>5 DEF Each, Alive
    <3> QED
      BY <3>1, <3>2, <1>5 DEF Each, Settled
  <2>2. \A x \in Peer : Each(w.tor, u.peer[x], u.asked[x])
    BY <2>1, <1>6, <1>9, <1>w
  <2> QED
    BY <2>2, <1>8, <1>9, EachSame DEF HoldsAs, IsAs
<1>15. Ready(u)
  <2>1. IsAs(w.tor, u.tor)
    BY <1>8, <1>9
  <2> QED
    BY <2>1, <1>11, <1>9, <1>s, ReadySame
<1> QED
  BY <1>8, <1>9, <1>10, <1>11, <1>12, <1>13, <1>14, <1>15 DEF Good, Sound

\* SetAmChoking: only a connected peer is unchoked.
LEMMA SetAmChokingKeeps ==
    ASSUME NEW w, Good(w), NEW ps \in SUBSET Peer, NEW c \in BOOLEAN, ~c => \A x \in ps : Connected(w, x),
           NEW u, u = SetAmChoking(w, ps, c)
    PROVE  Good(u)
<1>s. Sound(w) /\ Ready(w)
  BY DEF Good
<1>w. /\ w \in World /\ w.tor.crash = FALSE
      /\ Pieces(w.tor) /\ Downloaders(w.tor) /\ Sources(w.tor, w.peer) /\ Numbers(w.tor, w.peer)
      /\ \A x \in Peer : Each(w.tor, w.peer[x], w.asked[x])
      /\ Waiting(w.tor, w.peer) /\ Verified(w.tor)
      /\ w.tor \in Tor /\ \A x \in Peer : w.peer[x] \in PeerT
  BY <1>s, SoundParts
<1>t. w.tor.not_choking \in Int /\ \A x \in Peer : w.peer[x].choking \in BOOLEAN /\ w.peer[x].recv \in Nat
  BY <1>w, TorParts, PeerParts
<1> DEFINE changed == {x \in ps : w.peer[x].choking # c}
           f == [x \in Peer |-> IF x \in changed THEN [w.peer[x] EXCEPT !.choking = c, !.recv = IF c THEN 0 ELSE @]
                                ELSE w.peer[x]]
           m == Cardinality(changed)
           n == IF c THEN w.tor.not_choking - m ELSE w.tor.not_choking + m
           k == w.tor.crash \/ \E x \in changed : ~Connected(w, x)
           t == [w.tor EXCEPT !.not_choking = n, !.crash = k]
<1>1. changed \subseteq Peer /\ \A x \in changed : (c => ~w.peer[x].choking) /\ (~c => w.peer[x].choking /\ Connected(w, x))
  <2> SUFFICES ASSUME NEW x \in changed PROVE (c => ~w.peer[x].choking) /\ (~c => w.peer[x].choking /\ Connected(w, x))
    OBVIOUS
  <2>1. x \in Peer /\ w.peer[x].choking \in BOOLEAN /\ w.peer[x].choking # c /\ (~c => Connected(w, x))
    BY <1>t
  <2> DEFINE a == w.peer[x].choking
  <2>2. a \in BOOLEAN /\ a # c /\ c \in BOOLEAN
    BY <2>1
  <2> HIDE DEF a, changed
  <2>3. (c => ~a) /\ (~c => a)
    <3>1. CASE c = TRUE
      BY <2>2, <3>1
    <3>2. CASE c = FALSE
      BY <2>2, <3>2
    <3> QED
      BY <2>2, <3>1, <3>2
  <2> QED
    BY <2>1, <2>3 DEF a
<1>2. \A x \in changed : w.peer[x].st = "up"
  BY <1>1, <1>w DEF Connected, Each, Alive
<1>3. m \in Nat /\ IsFiniteSet(changed)
  <2> HIDE DEF changed
  <2> QED
    BY <1>1, Fewer, Parameters
<1>4. n \in Int
  BY <1>3, <1>t
<1>5. k = FALSE
  BY <1>2, <1>w DEF Connected
<1>6. ASSUME NEW x \in Peer
      PROVE  /\ f[x] \in PeerT /\ f[x].st = w.peer[x].st /\ f[x].interested = w.peer[x].interested
             /\ f[x].bits = w.peer[x].bits /\ f[x].has = w.peer[x].has /\ f[x].sent = w.peer[x].sent
             /\ f[x].choking = (IF x \in changed THEN c ELSE w.peer[x].choking)
             /\ f[x].recv = (IF x \in changed /\ c THEN 0 ELSE w.peer[x].recv)
  <2>1. CASE x \in changed
    <3> DEFINE d == IF c THEN 0 ELSE w.peer[x].recv  r == w.peer[x]
    <3>1. f[x] = [r EXCEPT !.choking = c, !.recv = d]
      BY <2>1
    <3>2. d \in Nat /\ r \in PeerT /\ d = (IF x \in changed /\ c THEN 0 ELSE r.recv)
      BY <2>1, <1>t, <1>w
    <3> HIDE DEF d, r, f
    <3>3. /\ f[x] \in PeerT /\ f[x].st = r.st /\ f[x].interested = r.interested
          /\ f[x].choking = c /\ f[x].bits = r.bits /\ f[x].has = r.has /\ f[x].recv = d /\ f[x].sent = r.sent
      BY <3>1, <3>2, Zenon DEF PeerT
    <3> HIDE DEF changed
    <3> QED
      BY <3>3, <3>2, <2>1 DEF r
  <2>2. CASE x \notin changed
    <3>1. f[x] = w.peer[x]
      BY <2>2
    <3> HIDE DEF f, changed
    <3> QED
      BY <3>1, <2>2, <1>w
  <2> QED
    BY <2>1, <2>2
<1>7. f \in [Peer -> PeerT]
  BY <1>6
<1>8. u = [w EXCEPT !.peer = f, !.tor.not_choking = IF c THEN @ - m ELSE @ + m,
                    !.tor.crash = @ \/ \E x \in changed : ~Connected(w, x)]
  <2> HIDE DEF f, m
  <2> QED
    BY Zenon DEF SetAmChoking, f, m, changed
<1>n. n = IF c THEN w.tor.not_choking - m ELSE w.tor.not_choking + m
  OBVIOUS
<1> HIDE DEF f, changed, m
<1>9. u = [w EXCEPT !.peer = f, !.tor = t]
  <2> DEFINE v == [w EXCEPT !.peer = f]
  <2>1. v \in World /\ v.tor = w.tor
    BY <1>w, <1>7, Zenon DEF World
  <2>2. u = [v EXCEPT !.tor.not_choking = n, !.tor.crash = k]
    <3>1. (v.tor.crash \/ \E x \in changed : ~Connected(w, x)) = k /\ (IF c THEN v.tor.not_choking - m ELSE v.tor.not_choking + m) = n
      BY <2>1
    <3>2. u = [v EXCEPT !.tor.not_choking = IF c THEN @ - m ELSE @ + m, !.tor.crash = @ \/ \E x \in changed : ~Connected(w, x)]
      BY <1>8, Zenon
    <3> HIDE DEF n, k, v
    <3> QED
      BY <3>1, <3>2, Zenon
  <2> HIDE DEF n, k
  <2> QED
    BY <2>1, <2>2, <1>w, <1>7, Zenon DEF World
<1> HIDE DEF n, k
<1>10. /\ t \in Tor /\ t.not_choking = n /\ t.crash = FALSE
       /\ HoldsAs(w.tor, t) /\ IsAs(w.tor, t) /\ ReservesAs(w.tor, t)
       /\ t.sources = w.tor.sources /\ t.interested = w.tor.interested
  BY <1>4, <1>5, <1>w, Zenon DEF Tor, HoldsAs, IsAs, ReservesAs
<1> HIDE DEF t
<1>11. u \in World /\ u.tor = t /\ u.peer = f /\ u.asked = w.asked
  BY <1>w, <1>7, <1>9, <1>10, Zenon DEF World
<1>12. Pieces(u.tor) /\ Verified(u.tor) /\ Downloaders(u.tor)
  BY <1>10, <1>11, <1>w, HoldsSame, ReservesSame
<1>13. Sources(u.tor, u.peer) /\ Waiting(u.tor, u.peer)
  BY <1>10, <1>11, <1>6, <1>w, SourcesSame, WaitingSame DEF ReservesAs
<1>14. Numbers(u.tor, u.peer)
  <2> DEFINE A == Unchoked(w.peer)
  <2>1. Liked(u.peer) = Liked(w.peer)
    BY <1>6, <1>11 DEF Liked
  <2>2. IsFiniteSet(A)
    <3>1. A \subseteq Peer /\ IsFiniteSet(Peer)
      BY Parameters DEF Unchoked
    <3> HIDE DEF A
    <3> QED
      BY <3>1, Fewer
  <2>3. w.tor.interested = Cardinality(Liked(w.peer)) /\ w.tor.interested <= MaxUploaders /\ w.tor.not_choking = Cardinality(A)
    BY <1>w DEF Numbers
  <2>4. Cardinality(Unchoked(u.peer)) = n
    <3>1. CASE c
      <4>1. changed \subseteq A /\ Unchoked(u.peer) = A \ changed
        BY <3>1, <1>1, <1>6, <1>11 DEF Unchoked
      <4> HIDE DEF A
      <4>2. Cardinality(A \ changed) = Cardinality(A) - m
        BY <4>1, <2>2, Fewer DEF m
      <4> QED
        BY <4>1, <4>2, <2>3, <1>n, <3>1
    <3>2. CASE ~c
      <4>1. changed \cap A = {} /\ Unchoked(u.peer) = A \cup changed
        BY <3>2, <1>1, <1>6, <1>11 DEF Unchoked
      <4> HIDE DEF A
      <4>2. Cardinality(A \cup changed) = Cardinality(A) + m
        BY <4>1, <2>2, <1>3, FurtherOn DEF m
      <4> QED
        BY <4>1, <4>2, <2>3, <1>n, <3>2
    <3> QED
      BY <3>1, <3>2
  <2> QED
    BY <2>1, <2>3, <2>4, <1>10, <1>11 DEF Numbers
<1>15. \A x \in Peer : Each(u.tor, u.peer[x], u.asked[x])
  <2> SUFFICES ASSUME NEW x \in Peer PROVE Each(w.tor, f[x], w.asked[x])
    BY <1>10, <1>11, EachSame DEF HoldsAs, IsAs
  <2>1. Each(w.tor, w.peer[x], w.asked[x])
    BY <1>w
  <2>2. f[x].recv <= MaxRecv
    BY <2>1, <1>6, Parameters DEF Each, Alive
  <2>3. f[x].st # "up" => x \notin changed
    BY <1>2, <1>6
  <2>4. Alive(w.tor, f[x], w.asked[x])
    BY <2>1, <2>2, <2>3, <1>6 DEF Each, Alive
  <2> QED
    BY <2>1, <2>4, <1>6 DEF Each, Settled
<1>16. Ready(u)
  <2>1. IsAs(w.tor, u.tor)
    BY <1>10, <1>11
  <2> QED
    BY <2>1, <1>6, <1>11, <1>s, ReadySame
<1> QED
  BY <1>10, <1>11, <1>12, <1>13, <1>14, <1>15, <1>16 DEF Good, Sound

-----------------------------------------------------------------------------
(* Peers are disconnected.                                                 *)

\* What Disconnect leaves of a peer
LEMMA DisconnectedIs ==
    ASSUME NEW r \in PeerT, NEW k \in Seq(Block), ~r.bits => r.has = {}
    PROVE  LET d == Disconnected(r, k) IN
           /\ d \in PeerT /\ d.st = (IF r.st = "out" THEN "out" ELSE "idle") /\ d.bits = FALSE /\ d.has = {} /\ d.recv = 0
           /\ d.interested = FALSE /\ d.choking = TRUE /\ d.sent = k /\ d.error = r.error /\ d.passive = r.passive
<1> DEFINE st == IF r.st = "out" THEN r.st ELSE "idle"  h == IF r.bits THEN {} ELSE r.has  d == Disconnected(r, k)
<1>1. h = {} /\ h \in SUBSET Piece
  OBVIOUS
<1>2. st = (IF r.st = "out" THEN "out" ELSE "idle")
  OBVIOUS
<1>3. st \in {"out", "black", "idle", "conn", "up"}
  OBVIOUS
<1>4. d = [r EXCEPT !.st = st, !.bits = FALSE, !.has = h, !.recv = 0, !.fast = {}, !.interested = FALSE, !.choking = TRUE,
                    !.peer_interested = FALSE, !.peer_choking = TRUE, !.md = FALSE, !.sent = k]
  BY Zenon DEF Disconnected
<1> HIDE DEF h, st, d
<1>5. /\ d \in PeerT /\ d.st = st /\ d.bits = FALSE /\ d.has = h /\ d.recv = 0
      /\ d.interested = FALSE /\ d.choking = TRUE /\ d.sent = k /\ d.error = r.error /\ d.passive = r.passive
  <2>1. 0 \in Nat /\ {} \in SUBSET Piece /\ TRUE \in BOOLEAN /\ FALSE \in BOOLEAN
    OBVIOUS
  <2> QED
    BY <2>1, <1>1, <1>3, <1>4, Zenon DEF PeerT
<1> QED
  BY <1>1, <1>2, <1>5 DEF d

\* Disconnect of some peers keeps a state good, and leaves nothing of their connections behind.
LEMMA DisconnectKeeps ==
    ASSUME NEW w, Sound(w), NEW ps \in SUBSET Peer
    PROVE  LET u == Disconnect(w, ps) IN
           /\ Sound(u) /\ (Ready(w) => Ready(u))
           /\ HoldsAs(w.tor, u.tor) /\ IsAs(w.tor, u.tor) /\ u.tor.complete = w.tor.complete
           /\ \A x \in Peer \ ps : u.peer[x] = w.peer[x] /\ u.asked[x] = w.asked[x]
           /\ \A x \in ps : /\ u.peer[x].st = (IF w.peer[x].st = "out" THEN "out" ELSE "idle")
                            /\ ~u.peer[x].bits /\ u.peer[x].has = {} /\ u.peer[x].recv = 0
                            /\ ~u.peer[x].interested /\ u.peer[x].choking /\ u.asked[x] = <<>>
                            /\ u.peer[x].error = w.peer[x].error /\ u.peer[x].passive = w.peer[x].passive
           /\ \A b \in Block : u.tor.downloader[b] \notin ps \ Fast
<1>w. /\ w \in World /\ w.tor.crash = FALSE
      /\ Pieces(w.tor) /\ Downloaders(w.tor) /\ Sources(w.tor, w.peer) /\ Numbers(w.tor, w.peer)
      /\ \A x \in Peer : Each(w.tor, w.peer[x], w.asked[x])
      /\ Waiting(w.tor, w.peer) /\ Verified(w.tor)
      /\ w.tor \in Tor /\ \A x \in Peer : w.peer[x] \in PeerT
  BY SoundParts
<1>t. /\ w.tor.not_choking \in Int /\ w.tor.interested \in Int /\ w.tor.sources \in [Piece -> Int]
      /\ w.tor.downloader \in [Block -> Peer \cup {NoPeer}]
      /\ w.asked \in [Peer -> Seq(Asked)]
      /\ \A x \in Peer : w.peer[x].sent \in Seq(Block) /\ Len(w.peer[x].sent) \in Nat
  BY <1>w, TorParts, PeerParts, Parts, LenProperties
<1> DEFINE n(p) == Len(w.peer[p].sent)  g(p) == GivenUp(w, p, n(p))  k(p) == KeptSent(w, p, n(p))
           G == UNION {g(p) : p \in ps}  v == SetDownloader(w, G, NoPeer)
           f == [p \in Peer |-> IF p \in ps THEN Disconnected(w.peer[p], k(p)) ELSE w.peer[p]]
           a == [p \in Peer |-> IF p \in ps THEN <<>> ELSE w.asked[p]]
           lost(i) == {p \in ps : w.peer[p].bits /\ i \in w.peer[p].has}
           src == [i \in Piece |-> w.tor.sources[i] - Cardinality(lost(i))]
           liked == {p \in ps : w.peer[p].interested}  unchoked == {p \in ps : ~w.peer[p].choking}
           m == Cardinality(liked)  o == Cardinality(unchoked)
           u == Disconnect(w, ps)
<1>1. ASSUME NEW p \in Peer
      PROVE  /\ g(p) \subseteq Block /\ \A b \in g(p) : w.tor.downloader[b] = p
             /\ k(p) \in Seq(Block) /\ Len(k(p)) <= Len(w.peer[p].sent) /\ (Once(w.peer[p].sent, w.tor.twice) => Once(k(p), w.tor.twice))
             /\ \A b : In(k(p), b) => In(w.peer[p].sent, b)
             /\ p \notin Fast => \A b : In(w.peer[p].sent, b) /\ w.tor.downloader[b] = p => b \in g(p)
  <2> DEFINE q == w.peer[p].sent
  <2>1. w \in World /\ Len(q) \in 0..Len(q)
    BY <1>t, <1>w
  <2>2. ASSUME NEW i \in 0..Len(q)
        PROVE  /\ GivenUp(w, p, i) \subseteq Block /\ \A b \in GivenUp(w, p, i) : w.tor.downloader[b] = p
               /\ KeptSent(w, p, i) \in Seq(Block) /\ Len(KeptSent(w, p, i)) <= Len(q)
               /\ \A b : In(KeptSent(w, p, i), b) => In(q, b)
    BY <2>1, GivenUpIs
  <2>3. ASSUME NEW i \in 0..Len(q) PROVE Once(q, w.tor.twice) => Once(KeptSent(w, p, i), w.tor.twice)
    BY <2>1, GivenUpIs
  <2>4. ASSUME NEW i \in 0..Len(q), p \notin Fast
        PROVE  \A b : In(q, b) /\ w.tor.downloader[b] = p => In(KeptSent(w, p, i), b) \/ b \in GivenUp(w, p, i)
    BY <2>1, <2>4, GivenUpIs
  <2>5. ASSUME NEW i \in 0..Len(q), p \notin Fast, i = Len(q) PROVE \A b : ~In(KeptSent(w, p, i), b)
    BY <2>1, <2>5, GivenUpIs
  <2> HIDE DEF q
  <2> QED
    BY <2>1, <2>2, <2>3, <2>4, <2>5 DEF q
<1>2. G \in SUBSET Block /\ \A b \in G : w.tor.downloader[b] \in ps /\ w.tor.downloader[b] # NoPeer
  BY <1>1, Parameters
<1>3. \A b \in Block : w.tor.downloader[b] \in ps \ Fast => b \in G
  <2> SUFFICES ASSUME NEW b \in Block, w.tor.downloader[b] \in ps \ Fast PROVE b \in G
    OBVIOUS
  <2> DEFINE p == w.tor.downloader[b]
  <2>1. p \in Peer /\ In(w.peer[p].sent, b)
    BY <1>w DEF Waiting
  <2>2. b \in g(p)
    BY <2>1, <1>1
  <2> QED
    BY <2>2
<1> HIDE DEF G, g
<1>4. /\ v \in World /\ v.peer = w.peer /\ v.asked = w.asked
      /\ HoldsAs(w.tor, v.tor) /\ IsAs(w.tor, v.tor) /\ v.tor.crash = w.tor.crash
      /\ v.tor.sources = w.tor.sources /\ v.tor.interested = w.tor.interested /\ v.tor.not_choking = w.tor.not_choking
      /\ v.tor.complete = w.tor.complete
      /\ \A b \in Block : v.tor.downloader[b] = IF b \in G THEN NoPeer ELSE w.tor.downloader[b]
      /\ Downloaders(v.tor)
  <2>1. w \in World /\ G \in SUBSET Block /\ \A b \in G : w.tor.downloader[b] # NoPeer
    BY <1>w, <1>2
  <2>2. Downloaders(w.tor)
    BY <1>w
  <2> HIDE DEF f, a, src, lost, liked, unchoked, m, o, u
  <2> QED
    BY <2>1, <2>2, Released
<1>5. ASSUME NEW x \in Peer
      PROVE  /\ f[x] \in PeerT
             /\ x \notin ps => f[x] = w.peer[x]
             /\ x \in ps => /\ f[x].st = (IF w.peer[x].st = "out" THEN "out" ELSE "idle")
                            /\ f[x].bits = FALSE /\ f[x].has = {} /\ f[x].recv = 0
                            /\ f[x].interested = FALSE /\ f[x].choking = TRUE
                            /\ f[x].sent = k(x) /\ f[x].error = w.peer[x].error /\ f[x].passive = w.peer[x].passive
  <2>1. CASE x \in ps
    <3> DEFINE r == w.peer[x]  kk == k(x)  d == Disconnected(r, kk)
    <3>1. r \in PeerT /\ kk \in Seq(Block) /\ (~r.bits => r.has = {})
      BY <1>w, <1>1 DEF Each, Alive
    <3>2. f[x] = d
      BY <2>1
    <3> HIDE DEF r, kk, f
    <3>3. /\ d \in PeerT /\ d.st = (IF r.st = "out" THEN "out" ELSE "idle") /\ d.bits = FALSE /\ d.has = {} /\ d.recv = 0
          /\ d.interested = FALSE /\ d.choking = TRUE /\ d.sent = kk /\ d.error = r.error /\ d.passive = r.passive
      BY <3>1, DisconnectedIs
    <3> HIDE DEF d
    <3> QED
      BY <3>2, <3>3, <2>1 DEF r, kk
  <2>2. CASE x \notin ps
    BY <2>2, <1>w
  <2> QED
    BY <2>1, <2>2
<1>6. f \in [Peer -> PeerT]
  BY <1>5
<1>7. a \in [Peer -> Seq(Asked)] /\ \A x \in Peer : a[x] = IF x \in ps THEN <<>> ELSE w.asked[x]
  BY <1>t
<1>8. /\ \A i \in Piece : src[i] = w.tor.sources[i] - Cardinality(lost(i))
      /\ \A i \in Piece : lost(i) \subseteq Peer /\ IsFiniteSet(lost(i)) /\ Cardinality(lost(i)) \in Nat
      /\ liked \subseteq Peer /\ IsFiniteSet(liked) /\ m \in Nat
      /\ unchoked \subseteq Peer /\ IsFiniteSet(unchoked) /\ o \in Nat
  <2>1. \A S \in SUBSET Peer : IsFiniteSet(S) /\ Cardinality(S) \in Nat
    BY Parameters, Fewer
  <2>2. (\A i \in Piece : lost(i) \in SUBSET Peer) /\ liked \in SUBSET Peer /\ unchoked \in SUBSET Peer
    OBVIOUS
  <2>3. \A i \in Piece : src[i] = w.tor.sources[i] - Cardinality(lost(i))
    OBVIOUS
  <2> HIDE DEF lost, liked, unchoked
  <2> QED
    BY <2>1, <2>2, <2>3
<1>9. src \in [Piece -> Int]
  <2> HIDE DEF lost
  <2> QED
    BY <1>8, <1>t
<1>10. u = [v EXCEPT !.peer = f, !.asked = a, !.tor.sources = src, !.tor.interested = @ - m, !.tor.not_choking = @ - o]
  <2> HIDE DEF f, a, src, m, o, v
  <2> QED
    BY Zenon DEF Disconnect, f, a, src, m, o, v, lost, liked, unchoked, G, g, k, n
<1> DEFINE mm == w.tor.interested - m  oo == w.tor.not_choking - o
           t == [v.tor EXCEPT !.sources = src, !.interested = mm, !.not_choking = oo]
<1>11. mm \in Int /\ oo \in Int
  BY <1>8, <1>t
<1> HIDE DEF f, a, src, v, u, lost, liked, unchoked, m, o
<1>12. u = [v EXCEPT !.peer = f, !.asked = a, !.tor = t]
  <2> DEFINE v1 == [v EXCEPT !.peer = f, !.asked = a]
  <2>1. v1 \in World /\ v1.tor = v.tor
    BY <1>4, <1>6, <1>7, Zenon DEF World
  <2>2. u = [v1 EXCEPT !.tor.sources = src, !.tor.interested = @ - m, !.tor.not_choking = @ - o]
    BY <1>10, Zenon
  <2>3. v1.tor.interested - m = mm /\ v1.tor.not_choking - o = oo
    BY <2>1, <1>4
  <2> HIDE DEF v1, mm, oo
  <2>4. u = [v1 EXCEPT !.tor.sources = src, !.tor.interested = mm, !.tor.not_choking = oo]
    BY <2>2, <2>3, Zenon
  <2>5. u = [v1 EXCEPT !.tor = t]
    BY <2>1, <2>4, Zenon DEF World
  <2> QED
    BY <2>5, Zenon DEF v1
<1>m. mm = w.tor.interested - m /\ oo = w.tor.not_choking - o
  OBVIOUS
<1> HIDE DEF mm, oo
<1>13. /\ t \in Tor /\ t.sources = src /\ t.interested = mm /\ t.not_choking = oo
       /\ HoldsAs(v.tor, t) /\ IsAs(v.tor, t) /\ ReservesAs(v.tor, t) /\ t.crash = v.tor.crash /\ t.complete = v.tor.complete
  <2>1. v.tor \in Tor
    BY <1>4, Parts
  <2> QED
    BY <2>1, <1>9, <1>11, Zenon DEF Tor, HoldsAs, IsAs, ReservesAs
<1> HIDE DEF t
<1>14. u \in World /\ u.tor = t /\ u.peer = f /\ u.asked = a
  BY <1>4, <1>6, <1>7, <1>12, <1>13, Zenon DEF World
<1>15. HoldsAs(w.tor, t) /\ IsAs(w.tor, t) /\ t.crash = FALSE /\ t.complete = w.tor.complete
  BY <1>4, <1>13, <1>w DEF HoldsAs, IsAs
<1>16. Pieces(u.tor) /\ Verified(u.tor)
  BY <1>14, <1>15, <1>w, HoldsSame
<1>17. Downloaders(u.tor)
  BY <1>4, <1>13, <1>14, ReservesSame
<1>18. Sources(u.tor, u.peer)
  <2> SUFFICES ASSUME NEW i \in Piece PROVE src[i] = Cardinality(Having(f, i))
    BY <1>13, <1>14 DEF Sources
  <2> DEFINE A == Having(w.peer, i)  L == lost(i)
  <2>1. w.tor.sources[i] = Cardinality(A) /\ A \subseteq Peer
    BY <1>w DEF Sources, Having
  <2>2. L \subseteq A /\ Having(f, i) = A \ L
    <3>1. \A p \in Peer : ~w.peer[p].bits => w.peer[p].has = {}
      BY <1>w DEF Each, Alive
    <3> QED
      BY <3>1, <1>5 DEF Having, lost
  <2>3. src[i] = w.tor.sources[i] - Cardinality(L)
    BY <1>8
  <2> HIDE DEF A, L
  <2>4. IsFiniteSet(A)
    BY <2>1, Parameters, Fewer
  <2>5. Cardinality(A \ L) = Cardinality(A) - Cardinality(L)
    BY <2>2, <2>4, Fewer
  <2> QED
    BY <2>1, <2>2, <2>3, <2>5
<1>19. Numbers(u.tor, u.peer)
  <2> DEFINE A == Liked(w.peer)  B == Unchoked(w.peer)
  <2>1. A \subseteq Peer /\ B \subseteq Peer /\ liked \subseteq A /\ unchoked \subseteq B
    BY DEF Liked, Unchoked, liked, unchoked
  <2>2. Liked(f) = A \ liked /\ Unchoked(f) = B \ unchoked
    BY <1>5 DEF Liked, Unchoked, liked, unchoked
  <2>3. w.tor.interested = Cardinality(A) /\ w.tor.interested <= MaxUploaders /\ w.tor.not_choking = Cardinality(B)
    BY <1>w DEF Numbers
  <2> HIDE DEF A, B
  <2>4. IsFiniteSet(A) /\ IsFiniteSet(B)
    BY <2>1, Parameters, Fewer
  <2>5. Cardinality(A \ liked) = Cardinality(A) - m
    BY <2>1, <2>4, Fewer DEF m
  <2>6. Cardinality(B \ unchoked) = Cardinality(B) - o
    BY <2>1, <2>4, Fewer DEF o
  <2>7. mm = Cardinality(Liked(f)) /\ oo = Cardinality(Unchoked(f))
    BY <2>2, <2>3, <2>5, <2>6, <1>m
  <2>8. mm <= MaxUploaders
    BY <2>3, <1>m, <1>8, <1>t, Parameters
  <2> QED
    BY <2>7, <2>8, <1>13, <1>14 DEF Numbers
<1>20. \A x \in Peer : Each(u.tor, u.peer[x], u.asked[x])
  <2> SUFFICES ASSUME NEW x \in Peer PROVE Each(u.tor, f[x], a[x])
    BY <1>14
  <2>0. /\ u.tor.have = w.tor.have /\ u.tor.present = w.tor.present /\ u.tor.twice = w.tor.twice /\ u.tor.md = w.tor.md
    BY <1>14, <1>15 DEF HoldsAs, IsAs
  <2>1. Each(w.tor, w.peer[x], w.asked[x])
    BY <1>w
  <2>2. CASE x \in ps
    <3>1. Len(w.peer[x].sent) <= MaxQueueLen /\ Once(w.peer[x].sent, w.tor.twice)
      BY <2>1 DEF Each, Alive
    <3> DEFINE kk == k(x)
    <3>2. kk \in Seq(Block) /\ Len(kk) <= Len(w.peer[x].sent) /\ Once(kk, w.tor.twice)
      BY <3>1, <1>1
    <3>3. f[x].sent = kk
      BY <2>2, <1>5
    <3> HIDE DEF kk
    <3>4. Len(kk) <= MaxQueueLen
      BY <3>1, <3>2, <1>t, Parameters, LenProperties
    <3>5. Alive(u.tor, f[x], a[x])
      <4>1. 0 <= MaxRecv
        BY Parameters
      <4> QED
        BY <2>2, <3>3, <3>4, <4>1, <1>5, <1>7 DEF Alive
    <3>6. Settled(u.tor, f[x], a[x])
      <4>1. a[x] = <<>>
        BY <2>2, <1>7
      <4> QED
        BY <4>1, Empty DEF Settled
    <3> QED
      BY <3>2, <3>3, <3>5, <3>6, <2>0 DEF Each
  <2>3. CASE x \notin ps
    <3>1. f[x] = w.peer[x] /\ a[x] = w.asked[x]
      BY <2>3, <1>5, <1>7
    <3> QED
      BY <3>1, <2>0, <2>1, EachSame
  <2> QED
    BY <2>2, <2>3
<1>21. \A b \in Block : u.tor.downloader[b] = IF b \in G THEN NoPeer ELSE w.tor.downloader[b]
  BY <1>4, <1>13, <1>14 DEF ReservesAs
<1>22. \A b \in Block : u.tor.downloader[b] \notin ps \ Fast
  BY <1>21, <1>3, Parameters
<1>23. Waiting(u.tor, u.peer)
  <2> SUFFICES ASSUME NEW b \in Block, u.tor.downloader[b] \in Peer \ Fast
               PROVE  u.peer[u.tor.downloader[b]].st = "up" /\ In(u.peer[u.tor.downloader[b]].sent, b)
    BY DEF Waiting
  <2> DEFINE p == u.tor.downloader[b]
  <2>1. p = w.tor.downloader[b] /\ p \notin ps /\ p \in Peer \ Fast
    BY <1>21, <1>22, Parameters
  <2>2. w.peer[p].st = "up" /\ In(w.peer[p].sent, b)
    BY <2>1, <1>w DEF Waiting
  <2>3. u.peer[p] = w.peer[p]
    BY <2>1, <1>5, <1>14
  <2> QED
    BY <2>2, <2>3
<1>24. Ready(w) => Ready(u)
  <2>1. IsAs(w.tor, u.tor)
    BY <1>14, <1>15
  <2>2. \A x \in Peer : /\ u.peer[x].st = "up" => w.peer[x].st = "up"
                        /\ u.peer[x].st = "up" /\ w.peer[x].bits => u.peer[x].bits
                        /\ (u.peer[x].interested => w.peer[x].interested) /\ (w.asked[x] = <<>> => u.asked[x] = <<>>)
    BY <1>5, <1>7, <1>14
  <2> QED
    BY <2>1, <2>2, ReadySame
<1>25. Sound(u)
  BY <1>14, <1>15, <1>16, <1>17, <1>18, <1>19, <1>20, <1>23 DEF Sound
<1>26. \A x \in Peer \ ps : u.peer[x] = w.peer[x] /\ u.asked[x] = w.asked[x]
  BY <1>5, <1>7, <1>14
<1>27. \A x \in ps : /\ u.peer[x].st = (IF w.peer[x].st = "out" THEN "out" ELSE "idle")
                     /\ ~u.peer[x].bits /\ u.peer[x].has = {} /\ u.peer[x].recv = 0
                     /\ ~u.peer[x].interested /\ u.peer[x].choking /\ u.asked[x] = <<>>
                     /\ u.peer[x].error = w.peer[x].error /\ u.peer[x].passive = w.peer[x].passive
  BY <1>5, <1>7, <1>14
<1> QED
  BY <1>14, <1>15, <1>22, <1>24, <1>25, <1>26, <1>27 DEF u

\* These are the changes of a peer of which the invariant says nothing.
LEMMA PlainFields ==
    ASSUME NEW r \in PeerT
    PROVE  /\ \A b \in BOOLEAN : PlainPeer(r, [r EXCEPT !.error = b]) /\ [r EXCEPT !.error = b].recv = r.recv
           /\ \A b \in BOOLEAN : PlainPeer(r, [r EXCEPT !.md = b]) /\ [r EXCEPT !.md = b].recv = r.recv
           /\ \A b \in BOOLEAN : PlainPeer(r, [r EXCEPT !.peer_choking = b]) /\ [r EXCEPT !.peer_choking = b].recv = r.recv
           /\ \A b \in BOOLEAN : PlainPeer(r, [r EXCEPT !.peer_interested = b]) /\ [r EXCEPT !.peer_interested = b].recv = r.recv
           /\ \A n \in Nat : PlainPeer(r, [r EXCEPT !.recv = n]) /\ [r EXCEPT !.recv = n].recv = n
           /\ \A F \in SUBSET Piece : PlainPeer(r, [r EXCEPT !.fast = F]) /\ [r EXCEPT !.fast = F].recv = r.recv
           /\ \A n \in Nat : PlainPeer(r, [r EXCEPT !.invalid = n]) /\ [r EXCEPT !.invalid = n].recv = r.recv
<1>1. ASSUME NEW b \in BOOLEAN
      PROVE  /\ PlainPeer(r, [r EXCEPT !.error = b]) /\ [r EXCEPT !.error = b].recv = r.recv
             /\ PlainPeer(r, [r EXCEPT !.md = b]) /\ [r EXCEPT !.md = b].recv = r.recv
  BY Zenon DEF PeerT, PlainPeer
<1>2. ASSUME NEW b \in BOOLEAN
      PROVE  /\ PlainPeer(r, [r EXCEPT !.peer_choking = b]) /\ [r EXCEPT !.peer_choking = b].recv = r.recv
             /\ PlainPeer(r, [r EXCEPT !.peer_interested = b]) /\ [r EXCEPT !.peer_interested = b].recv = r.recv
  BY Zenon DEF PeerT, PlainPeer
<1>3. ASSUME NEW n \in Nat
      PROVE  /\ PlainPeer(r, [r EXCEPT !.recv = n]) /\ [r EXCEPT !.recv = n].recv = n
             /\ PlainPeer(r, [r EXCEPT !.invalid = n]) /\ [r EXCEPT !.invalid = n].recv = r.recv
  BY Zenon DEF PeerT, PlainPeer
<1>4. ASSUME NEW F \in SUBSET Piece
      PROVE  PlainPeer(r, [r EXCEPT !.fast = F]) /\ [r EXCEPT !.fast = F].recv = r.recv
  BY Zenon DEF PeerT, PlainPeer
<1> QED
  BY <1>1, <1>2, <1>3, <1>4

\* Peers that are not connected are replaced by ones that nothing has happened to yet.
Fresh(t, s) == /\ ~s.interested /\ s.choking /\ s.has = {} /\ s.recv <= MaxRecv
               /\ Len(s.sent) <= MaxQueueLen /\ Once(s.sent, t.twice)
               /\ s.bits => s.st = "up" /\ t.md = "have"
               /\ s.st = "up" /\ t.md = "have" => s.bits
\* Such peers replace others that are not connected.
LEMMA ReplaceKeeps ==
    ASSUME NEW w, Good(w), NEW ps \in SUBSET Peer, \A x \in ps : w.peer[x].st # "up",
           NEW u \in World, u.tor = w.tor, u.asked = w.asked, \A x \in Peer \ ps : u.peer[x] = w.peer[x],
           \A x \in ps : Fresh(w.tor, u.peer[x])
    PROVE  Good(u)
<1>s. Sound(w) /\ Ready(w)
  BY DEF Good
<1>w. /\ w \in World /\ w.tor.crash = FALSE
      /\ Pieces(w.tor) /\ Downloaders(w.tor) /\ Sources(w.tor, w.peer) /\ Numbers(w.tor, w.peer)
      /\ \A x \in Peer : Each(w.tor, w.peer[x], w.asked[x])
      /\ Waiting(w.tor, w.peer) /\ Verified(w.tor)
  BY <1>s, SoundParts
<1>1. \A x \in ps : ~w.peer[x].interested /\ w.peer[x].choking /\ ~w.peer[x].bits /\ w.peer[x].has = {} /\ w.asked[x] = <<>>
  BY <1>w DEF Each, Alive
<1>2. Sources(u.tor, u.peer)
  <2>1. \A x \in Peer : u.peer[x].has = w.peer[x].has
    BY <1>1 DEF Fresh
  <2> QED
    BY <2>1, <1>w, SourcesSame
<1>3. Numbers(u.tor, u.peer)
  <2>1. \A i \in Piece : Liked(u.peer) = Liked(w.peer) /\ Unchoked(u.peer) = Unchoked(w.peer)
    BY <1>1 DEF Fresh, Liked, Unchoked
  <2> QED
    BY <2>1, <1>w, PiecesAre DEF Numbers
<1>4. \A x \in Peer : Each(u.tor, u.peer[x], u.asked[x])
  <2> SUFFICES ASSUME NEW x \in ps PROVE Each(w.tor, u.peer[x], w.asked[x])
    BY <1>w
  <2>1. w.asked[x] = <<>>
    BY <1>1
  <2>2. Settled(w.tor, u.peer[x], <<>>)
    BY Empty DEF Settled
  <2> QED
    BY <2>1, <2>2 DEF Each, Fresh, Alive
<1>5. Waiting(u.tor, u.peer)
  <2> SUFFICES ASSUME NEW b \in Block, w.tor.downloader[b] \in Peer \ Fast
               PROVE  u.peer[w.tor.downloader[b]].st = "up" /\ In(u.peer[w.tor.downloader[b]].sent, b)
    BY DEF Waiting
  <2>1. w.peer[w.tor.downloader[b]].st = "up" /\ In(w.peer[w.tor.downloader[b]].sent, b)
    BY <1>w DEF Waiting
  <2> QED
    BY <2>1
<1>6. Ready(u)
  BY <1>s DEF Ready, Fresh
<1> QED
  BY <1>2, <1>3, <1>4, <1>5, <1>6, <1>w DEF Good, Sound

\* An object as constructed
LEMMA NewPeerIs ==
    ASSUME NEW b \in BOOLEAN, NEW t
    PROVE  NewPeer(b) \in PeerT /\ NewPeer(b).st = "idle" /\ ~NewPeer(b).bits /\ Fresh(t, NewPeer(b))
<1> DEFINE s == NewPeer(b)
<1>1. s = [st |-> "idle", passive |-> b, error |-> FALSE, bits |-> FALSE, has |-> {},
           interested |-> FALSE, choking |-> TRUE, peer_interested |-> FALSE, peer_choking |-> TRUE,
           sent |-> <<>>, recv |-> 0, fast |-> {}, invalid |-> 0, md |-> FALSE]
  BY DEF NewPeer
<1> HIDE DEF s
<1>2. <<>> \in Seq(Block) /\ Len(<<>>) = 0 /\ 0 \in Nat /\ {} \in SUBSET Piece
  BY EmptySeq
<1>3. s \in PeerT
  BY <1>1, <1>2 DEF PeerT
<1>4. s.st = "idle" /\ ~s.interested /\ s.choking /\ s.has = {} /\ s.recv = 0 /\ s.sent = <<>> /\ ~s.bits
  BY <1>1
<1>5. Fresh(t, s)
  <2>1. 0 <= MaxRecv /\ 0 <= MaxQueueLen
    BY Parameters
  <2> QED
    BY <1>2, <1>4, <2>1, Empty DEF Fresh
<1> QED
  BY <1>3, <1>4, <1>5 DEF s

\* It changes its place.
LEMMA PlaceIs ==
    ASSUME NEW r \in PeerT, NEW t, Fresh(t, r), ~r.bits, NEW st \in {"out", "black", "idle", "conn"}
    PROVE  LET s == [r EXCEPT !.st = st] IN s \in PeerT /\ s.st = st /\ ~s.bits /\ Fresh(t, s)
<1> DEFINE s == [r EXCEPT !.st = st]
<1>1. st \in {"out", "black", "idle", "conn", "up"}
  OBVIOUS
<1>2. /\ s \in PeerT /\ s.st = st /\ s.interested = r.interested /\ s.choking = r.choking /\ s.has = r.has
      /\ s.recv = r.recv /\ s.sent = r.sent /\ s.bits = r.bits
  BY <1>1, Zenon DEF PeerT
<1> HIDE DEF s
<1>3. Fresh(t, s)
  BY <1>2 DEF Fresh
<1> QED
  BY <1>2, <1>3 DEF s

\* A peer that is not in the list, or in the black list
LEMMA NoObjectIs ==
    ASSUME NEW t
    PROVE  /\ NoObject \in PeerT /\ NoObject.st = "out" /\ Fresh(t, NoObject)
           /\ LET s == [NoObject EXCEPT !.st = "black"] IN s \in PeerT /\ s.st = "black" /\ Fresh(t, s)
<1> DEFINE n == NewPeer(FALSE)
<1>1. n \in PeerT /\ Fresh(t, n) /\ ~n.bits
  BY NewPeerIs
<1>2. NoObject = [n EXCEPT !.st = "out"]
  BY DEF NoObject
<1> HIDE DEF n
<1>3. NoObject \in PeerT /\ NoObject.st = "out" /\ Fresh(t, NoObject) /\ ~NoObject.bits
  BY <1>1, <1>2, PlaceIs
<1>4. LET s == [NoObject EXCEPT !.st = "black"] IN s \in PeerT /\ s.st = "black" /\ Fresh(t, s)
  BY <1>3, PlaceIs
<1> QED
  BY <1>3, <1>4

\* RemovePeers keeps a state good: objects that die have disconnected before.
LEMMA RemovePeersKeeps ==
    ASSUME NEW w, Good(w), NEW ps \in SUBSET Peer
    PROVE  LET u == RemovePeers(w, ps) IN
           /\ Good(u) /\ HoldsAs(w.tor, u.tor) /\ IsAs(w.tor, u.tor) /\ u.tor.complete = w.tor.complete
           /\ \A x \in Peer \ ps : u.peer[x] = w.peer[x] /\ u.asked[x] = w.asked[x]
           /\ \A x \in ps : u.peer[x] = NoObject
<1> DEFINE v == Disconnect(w, ps)  u == RemovePeers(w, ps)
           f == [p \in Peer |-> IF p \in ps THEN NoObject ELSE v.peer[p]]
<1>1. Sound(w) /\ Ready(w)
  BY DEF Good
<1>2. /\ Sound(v) /\ Ready(v)
      /\ HoldsAs(w.tor, v.tor) /\ IsAs(w.tor, v.tor) /\ v.tor.complete = w.tor.complete
      /\ \A x \in Peer \ ps : v.peer[x] = w.peer[x] /\ v.asked[x] = w.asked[x]
  BY <1>1, DisconnectKeeps
<1>3. \A x \in ps : v.peer[x].st # "up"
  <2>1. \A x \in ps : v.peer[x].st = (IF w.peer[x].st = "out" THEN "out" ELSE "idle")
    BY <1>1, DisconnectKeeps
  <2> HIDE DEF v
  <2> QED
    BY <2>1
<1>4. u = [v EXCEPT !.peer = f]
  BY DEF RemovePeers
<1> HIDE DEF v, u
<1>5. v \in World /\ v.peer \in [Peer -> PeerT]
  BY <1>2, SoundParts
<1>6. f \in [Peer -> PeerT]
  BY <1>5, NoObjectIs
<1>7. \A x \in Peer : f[x] = IF x \in ps THEN NoObject ELSE v.peer[x]
  OBVIOUS
<1> HIDE DEF f
<1>8. u \in World /\ u.tor = v.tor /\ u.asked = v.asked /\ u.peer = f
  BY <1>4, <1>5, <1>6, Zenon DEF World
<1>9. \A x \in ps : Fresh(v.tor, u.peer[x])
  BY <1>7, <1>8, NoObjectIs
<1>10. Good(u)
  <2>1. Good(v) /\ \A x \in Peer \ ps : u.peer[x] = v.peer[x]
    BY <1>2, <1>7, <1>8 DEF Good
  <2> QED
    BY <2>1, <1>3, <1>8, <1>9, ReplaceKeeps
<1>11. \A x \in ps : u.peer[x] = NoObject
  BY <1>7, <1>8
<1> QED
  BY <1>2, <1>7, <1>8, <1>10, <1>11 DEF u

\* BlackListPeer keeps a state good when the peers have been removed before.
LEMMA BlackListKeeps ==
    ASSUME NEW w, Good(w), NEW ps \in SUBSET Peer, \A x \in ps : w.peer[x] = NoObject
    PROVE  Good(BlackList(w, ps))
<1> DEFINE u == BlackList(w, ps)  s == [NoObject EXCEPT !.st = "black"]
           f == [p \in Peer |-> IF p \in ps THEN s ELSE w.peer[p]]
<1>1. w \in World /\ w.peer \in [Peer -> PeerT]
  BY SoundParts DEF Good
<1>2. u = [w EXCEPT !.peer = f]
  BY DEF BlackList
<1>3. s \in PeerT /\ Fresh(w.tor, s)
  BY NoObjectIs
<1> HIDE DEF u, s
<1>4. f \in [Peer -> PeerT] /\ \A x \in Peer : f[x] = IF x \in ps THEN s ELSE w.peer[x]
  BY <1>1, <1>3
<1> HIDE DEF f
<1>5. u \in World /\ u.tor = w.tor /\ u.asked = w.asked /\ u.peer = f
  BY <1>1, <1>2, <1>4, Zenon DEF World
<1>6. \A x \in ps : w.peer[x].st # "up" /\ Fresh(w.tor, u.peer[x])
  BY <1>3, <1>4, <1>5, NoObjectIs
<1>7. \A x \in Peer \ ps : u.peer[x] = w.peer[x]
  BY <1>4, <1>5
<1>8. Good(u)
  BY <1>5, <1>6, <1>7, ReplaceKeeps
<1> QED
  BY <1>8 DEF u

\* TorrentPeer::SetError keeps a state good: it disconnects.
LEMMA PeerErrorKeeps ==
    ASSUME NEW w, Good(w), NEW p \in Peer
    PROVE  Good(PeerError(w, p))
<1> DEFINE v == Disconnect(w, {p})  r == v.peer[p]  s == [r EXCEPT !.error = TRUE]
<1>1. Sound(w) /\ Ready(w) /\ {p} \in SUBSET Peer
  BY DEF Good
<1>2. Good(v)
  BY <1>1, DisconnectKeeps DEF Good
<1>3. PeerError(w, p) = SetPeer(v, p, s)
  BY DEF PeerError
<1> HIDE DEF v
<1>4. r \in PeerT /\ r.recv <= MaxRecv
  <2>1. v.peer \in [Peer -> PeerT] /\ Each(v.tor, v.peer[p], v.asked[p])
    BY <1>2, SoundParts DEF Good
  <2> QED
    BY <2>1 DEF Each, Alive
<1>5. PlainPeer(r, s) /\ s.recv = r.recv
  <2> HIDE DEF r
  <2> QED
    BY <1>4, PlainFields
<1> HIDE DEF s
<1> QED
  BY <1>2, <1>3, <1>4, <1>5, SetPeerKeeps

\* Shutdown keeps a state good, also in the middle of the handling of a packet.
LEMMA ShutdownKeeps ==
    ASSUME NEW w, Good(w)
    PROVE  Good(Shutdown(w))
<1>1. CASE w.tor.state = "shut"
  BY <1>1 DEF Shutdown
<1>2. CASE w.tor.state # "shut"
  <2> DEFINE v == RemovePeers(w, Listed(w))  u == Shutdown(w)  t == [v.tor EXCEPT !.state = "shut"]
  <2>1. Listed(w) \in SUBSET Peer
    BY DEF Listed
  <2>2. Good(v)
    BY <2>1, RemovePeersKeeps
  <2>3. u = [v EXCEPT !.tor.state = "shut"]
    BY <1>2 DEF Shutdown
  <2> HIDE DEF v, u
  <2>4. v \in World /\ v.tor \in Tor /\ Sound(v) /\ Ready(v)
    BY <2>2, SoundParts DEF Good
  <2>5. u = [v EXCEPT !.tor = t]
    BY <2>3, <2>4, Zenon DEF World
  <2>6. PlainTor(v.tor, t) /\ t.state = "shut" /\ t \in Tor
    BY <2>4, Zenon DEF Tor, PlainTor, HoldsAs, ReservesAs
  <2> HIDE DEF t
  <2>7. u \in World /\ u.tor = t /\ u.peer = v.peer /\ u.asked = v.asked
    BY <2>4, <2>5, <2>6, Zenon DEF World
  <2>8. Good(u)
    BY <2>4, <2>6, <2>7, PlainKeeps DEF Good
  <2> QED
    BY <2>8 DEF u
<1> QED
  BY <1>1, <1>2

-----------------------------------------------------------------------------
(* Pieces are verified.                                                    *)

\* The blocks that are missing
LEMMA MissingIs ==
    ASSUME NEW t \in Tor, NEW i \in Piece
    PROVE  /\ IsFiniteSet(Missing(t)) /\ Cardinality(Missing(t)) \in Nat
           /\ i \in t.have => Missing(t) \cap BlocksOf(i) = {}
           /\ i \notin t.have => BlocksOf(i) \subseteq Missing(t)
<1>1. t.have \in SUBSET Piece
  BY TorParts
<1>2. Missing(t) \subseteq Block
  BY BlocksAre DEF Missing
<1>3. IsFiniteSet(Missing(t)) /\ Cardinality(Missing(t)) \in Nat
  BY <1>2, BlocksCount, Fewer
<1>4. i \in t.have => Missing(t) \cap BlocksOf(i) = {}
  <2> SUFFICES ASSUME i \in t.have, NEW b \in Missing(t) PROVE b \notin BlocksOf(i)
    OBVIOUS
  <2>1. PICK j \in Piece \ t.have : b \in BlocksOf(j)
    BY DEF Missing
  <2>2. j # i
    BY <2>1
  <2> QED
    BY <2>1, <2>2, BlocksAre
<1>5. i \notin t.have => BlocksOf(i) \subseteq Missing(t)
  BY DEF Missing
<1> QED
  BY <1>3, <1>4, <1>5

\* A piece is found good or bad.
LEMMA ValidatedKeeps ==
    ASSUME NEW w, Sound(w), NEW i \in Piece, NEW u \in World, u.peer = w.peer, u.asked = w.asked,
           ReservesAs(w.tor, u.tor), IsAs(w.tor, u.tor), u.tor.crash = w.tor.crash, u.tor.sources = w.tor.sources,
           u.tor.interested = w.tor.interested, u.tor.not_choking = w.tor.not_choking,
           u.tor.disk = w.tor.disk, u.tor.twice = w.tor.twice,
           u.tor.present = [w.tor.present EXCEPT ![i] = {}],
           \/ /\ PieceGood(w, i) /\ i \notin w.tor.have /\ u.tor.have = w.tor.have \cup {i}
              /\ u.tor.left = w.tor.left - BlocksInPiece[i] /\ u.tor.complete_pieces = w.tor.complete_pieces + 1
              /\ i \in w.tor.twice \/ \A x \in Peer : \A b \in BlocksOf(i) : ~(In(w.peer[x].sent, b) /\ In(w.asked[x], b))
           \/ /\ i \in w.tor.have /\ u.tor.have = w.tor.have \ {i}
              /\ u.tor.left = w.tor.left + BlocksInPiece[i] /\ u.tor.complete_pieces = w.tor.complete_pieces - 1
           \/ /\ u.tor.have = w.tor.have /\ i \notin w.tor.have
              /\ u.tor.left = w.tor.left /\ u.tor.complete_pieces = w.tor.complete_pieces
    PROVE  Sound(u) /\ (Ready(w) => Ready(u))
<1>w. /\ w \in World /\ w.tor.crash = FALSE
      /\ Pieces(w.tor) /\ Downloaders(w.tor) /\ Sources(w.tor, w.peer) /\ Numbers(w.tor, w.peer)
      /\ \A x \in Peer : Each(w.tor, w.peer[x], w.asked[x])
      /\ Waiting(w.tor, w.peer) /\ Verified(w.tor)
      /\ w.tor \in Tor
  BY SoundParts
<1>t. w.tor.have \in SUBSET Piece /\ w.tor.present \in [Piece -> SUBSET Block] /\ w.tor.left \in Int /\ w.tor.complete_pieces \in Int
  BY <1>w, TorParts
<1>p. \A j \in Piece : u.tor.present[j] = IF j = i THEN {} ELSE w.tor.present[j]
  BY <1>t
<1>n. BlocksInPiece[i] \in Nat /\ IsFiniteSet(BlocksOf(i)) /\ Cardinality(BlocksOf(i)) = BlocksInPiece[i]
  BY BlocksCount, PiecesAre
<1>1. Downloaders(u.tor) /\ Sources(u.tor, u.peer) /\ Numbers(u.tor, u.peer) /\ Waiting(u.tor, u.peer)
  BY <1>w, ReservesSame, SourcesSame, NumbersSame, WaitingSame DEF ReservesAs
<1>2. Pieces(u.tor)
  <2> DEFINE H == w.tor.have  M == Missing(w.tor)  B == BlocksOf(i)
  <2>0. w.tor.complete_pieces = Cardinality(H) /\ w.tor.left = Cardinality(M)
    BY <1>w DEF Pieces
  <2>1. \A j \in Piece : u.tor.present[j] \subseteq BlocksOf(j)
    BY <1>p, <1>w DEF Pieces
  <2>2. IsFiniteSet(H) /\ Cardinality(H) \in Nat
    BY <1>t, PiecesAre, Fewer
  <2>3. /\ IsFiniteSet(M) /\ Cardinality(M) \in Nat
        /\ i \in H => M \cap B = {}
        /\ i \notin H => B \subseteq M
    BY <1>w, MissingIs
  <2>4. CASE i \notin H /\ u.tor.have = H \cup {i} /\ u.tor.left = w.tor.left - BlocksInPiece[i]
             /\ u.tor.complete_pieces = w.tor.complete_pieces + 1
    <3>1. Missing(u.tor) = M \ B
      <4>1. \A j \in Piece : j # i => BlocksOf(j) \cap B = {}
        BY BlocksAre
      <4> QED
        BY <4>1, <2>4 DEF Missing
    <3> HIDE DEF H, M, B
    <3>2. Cardinality(M \ B) = Cardinality(M) - Cardinality(B)
      BY <2>3, <2>4, Fewer
    <3>3. Cardinality(H \cup {i}) = Cardinality(H) + 1
      BY <2>2, <2>4, FS_AddElement
    <3>4. Cardinality(B) = BlocksInPiece[i]
      BY <1>n DEF B
    <3>5. u.tor.complete_pieces = Cardinality(u.tor.have) /\ u.tor.left = Cardinality(Missing(u.tor))
      BY <3>1, <3>2, <3>3, <3>4, <2>0, <2>4
    <3> QED
      BY <3>5, <2>1 DEF Pieces
  <2>5. CASE i \in H /\ u.tor.have = H \ {i} /\ u.tor.left = w.tor.left + BlocksInPiece[i]
             /\ u.tor.complete_pieces = w.tor.complete_pieces - 1
    <3>1. Missing(u.tor) = M \cup B
      BY <2>5 DEF Missing
    <3> HIDE DEF H, M
    <3>2. Cardinality(M \cup B) = Cardinality(M) + Cardinality(B)
      BY <2>3, <2>5, <1>n, FurtherOn
    <3>3. Cardinality(H \ {i}) = Cardinality(H) - 1
      BY <2>2, <2>5, FS_RemoveElement
    <3>5. u.tor.complete_pieces = Cardinality(u.tor.have) /\ u.tor.left = Cardinality(Missing(u.tor))
      <4>1. Cardinality(B) = BlocksInPiece[i]
        BY <1>n
      <4> HIDE DEF B
      <4> QED
        BY <3>1, <3>2, <3>3, <4>1, <2>0, <2>5
    <3> QED
      BY <3>5, <2>1 DEF Pieces
  <2>6. CASE u.tor.have = H /\ u.tor.left = w.tor.left /\ u.tor.complete_pieces = w.tor.complete_pieces
    <3>1. Missing(u.tor) = M
      BY <2>6 DEF Missing
    <3> QED
      BY <3>1, <2>6, <2>0, <2>1 DEF Pieces
  <2> QED
    BY <2>4, <2>5, <2>6
<1>3. \A j \in u.tor.have \ w.tor.have : j = i /\ PieceGood(w, i)
             /\ (i \in w.tor.twice \/ \A x \in Peer : \A b \in BlocksOf(i) : ~(In(w.peer[x].sent, b) /\ In(w.asked[x], b)))
  OBVIOUS
<1>4. Verified(u.tor)
  <2> SUFFICES ASSUME NEW j \in u.tor.have \ u.tor.twice PROVE \A b \in BlocksOf(j) : w.tor.disk[b] = "good"
    BY DEF Verified
  <2>1. CASE j \in w.tor.have
    BY <2>1, <1>w DEF Verified
  <2>2. CASE j \notin w.tor.have
    BY <2>2, <1>3 DEF PieceGood
  <2> QED
    BY <2>1, <2>2
<1>5. \A x \in Peer : Each(u.tor, u.peer[x], u.asked[x])
  <2> SUFFICES ASSUME NEW x \in Peer PROVE Each(u.tor, w.peer[x], w.asked[x])
    OBVIOUS
  <2>1. Each(w.tor, w.peer[x], w.asked[x])
    BY <1>w
  <2>2. Alive(u.tor, w.peer[x], w.asked[x]) /\ Once(w.peer[x].sent, u.tor.twice)
    BY <2>1 DEF Each, Alive, IsAs
  <2>3. Settled(u.tor, w.peer[x], w.asked[x])
    <3> SUFFICES ASSUME NEW b \in Block, b[1] \notin w.tor.twice, In(w.peer[x].sent, b), In(w.asked[x], b)
                 PROVE  b[1] \notin u.tor.have /\ b \notin u.tor.present[b[1]]
      BY DEF Settled
    <3>1. b[1] \notin w.tor.have /\ b \notin w.tor.present[b[1]]
      BY <2>1 DEF Each, Settled
    <3>2. b[1] \in Piece /\ b \in BlocksOf(b[1])
      BY BlocksAre
    <3>3. b \notin u.tor.present[b[1]]
      BY <3>1, <3>2, <1>p
    <3>4. b[1] \notin u.tor.have
      BY <3>1, <3>2, <1>3
    <3> QED
      BY <3>3, <3>4
  <2> QED
    BY <2>2, <2>3 DEF Each
<1>6. Ready(w) => Ready(u)
  BY ReadySame
<1> QED
  BY <1>1, <1>2, <1>4, <1>5, <1>6, <1>w DEF Sound

\* ValidatePiece keeps a state sound if no remote may still answer a request for the piece that is in a queue.
LEMMA ValidatePieceKeeps ==
    ASSUME NEW w, Sound(w), NEW i \in Piece,
           i \in w.tor.twice \/ \A x \in Peer : \A b \in BlocksOf(i) : ~(In(w.peer[x].sent, b) /\ In(w.asked[x], b))
    PROVE  LET u == ValidatePiece(w, i) IN
           /\ Sound(u) /\ (Ready(w) => Ready(u)) /\ IsAs(w.tor, u.tor) /\ u.peer = w.peer /\ u.asked = w.asked
<1> DEFINE u == ValidatePiece(w, i)  n == BlocksInPiece[i]  t == w.tor  pr == [t.present EXCEPT ![i] = {}]
<1>w. w \in World /\ t \in Tor /\ n \in Nat
  BY SoundParts, PiecesAre
<1>t. t.left \in Int /\ t.complete_pieces \in Int /\ t.have \in SUBSET Piece /\ t.present \in [Piece -> SUBSET Block]
  BY <1>w, TorParts
<1>p. pr \in [Piece -> SUBSET Block]
  BY <1>t
<1>0. ASSUME PieceGood(w, i), i \in t.have PROVE u = w
  BY <1>0 DEF ValidatePiece
<1>1. ASSUME NEW a \in Int, NEW c \in Int, NEW h \in SUBSET Piece, NEW v, v = [t EXCEPT !.left = a, !.complete_pieces = c, !.have = h, !.present = pr],
             u = [w EXCEPT !.tor = v]
      PROVE  /\ u \in World /\ u.peer = w.peer /\ u.asked = w.asked
             /\ ReservesAs(w.tor, u.tor) /\ IsAs(w.tor, u.tor) /\ u.tor.crash = w.tor.crash /\ u.tor.sources = w.tor.sources
             /\ u.tor.interested = w.tor.interested /\ u.tor.not_choking = w.tor.not_choking
             /\ u.tor.disk = w.tor.disk /\ u.tor.twice = w.tor.twice /\ u.tor.present = pr
             /\ u.tor.have = h /\ u.tor.left = a /\ u.tor.complete_pieces = c
  <2> HIDE DEF pr, u, t
  <2>1. /\ v \in Tor
        /\ ReservesAs(t, v) /\ IsAs(t, v) /\ v.crash = t.crash /\ v.sources = t.sources
        /\ v.interested = t.interested /\ v.not_choking = t.not_choking
        /\ v.disk = t.disk /\ v.twice = t.twice /\ v.present = pr
        /\ v.have = h /\ v.left = a /\ v.complete_pieces = c
    BY <1>1, <1>w, <1>p, Zenon DEF Tor, ReservesAs, IsAs
  <2>2. u \in World /\ u.peer = w.peer /\ u.asked = w.asked /\ u.tor = v
    BY <1>1, <1>w, <2>1, Zenon DEF World
  <2> QED
    BY <2>1, <2>2 DEF t
<1>2. CASE PieceGood(w, i) /\ i \in t.have
  BY <1>2, <1>0 DEF IsAs
<1>3. CASE PieceGood(w, i) /\ i \notin t.have
  <2> DEFINE a == t.left - n  c == t.complete_pieces + 1  h == t.have \cup {i}
             v == [t EXCEPT !.left = a, !.complete_pieces = c, !.have = h, !.present = pr]
  <2>1. a \in Int /\ c \in Int /\ h \in SUBSET Piece
    BY <1>w, <1>t
  <2>2. u = [w EXCEPT !.tor.left = @ - n, !.tor.complete_pieces = @ + 1, !.tor.have = @ \cup {i}, !.tor.present[i] = {}]
    BY <1>3, Zenon DEF ValidatePiece
  <2> HIDE DEF n, u
  <2>3. u = [w EXCEPT !.tor = v]
    BY <2>2, <1>w, Zenon DEF World, Tor
  <2>4. v = [t EXCEPT !.left = a, !.complete_pieces = c, !.have = h, !.present = pr]
    OBVIOUS
  <2>5. a = w.tor.left - n /\ c = w.tor.complete_pieces + 1 /\ h = w.tor.have \cup {i} /\ pr = [w.tor.present EXCEPT ![i] = {}]
    OBVIOUS
  <2> HIDE DEF a, c, h, v, pr
  <2>6. /\ u \in World /\ u.peer = w.peer /\ u.asked = w.asked
        /\ ReservesAs(w.tor, u.tor) /\ IsAs(w.tor, u.tor) /\ u.tor.crash = w.tor.crash /\ u.tor.sources = w.tor.sources
        /\ u.tor.interested = w.tor.interested /\ u.tor.not_choking = w.tor.not_choking
        /\ u.tor.disk = w.tor.disk /\ u.tor.twice = w.tor.twice /\ u.tor.present = pr
        /\ u.tor.have = h /\ u.tor.left = a /\ u.tor.complete_pieces = c
    BY <2>1, <2>3, <2>4, <1>1
  <2>7. Sound(u) /\ (Ready(w) => Ready(u))
    BY <2>5, <2>6, <1>3, ValidatedKeeps DEF n
  <2> QED
    BY <2>6, <2>7 DEF u
<1>4. CASE ~PieceGood(w, i)
  <2> DEFINE k == i \in t.have
             a == IF k THEN t.left + n ELSE t.left  c == IF k THEN t.complete_pieces - 1 ELSE t.complete_pieces
             h == t.have \ {i}
             v == [t EXCEPT !.left = a, !.complete_pieces = c, !.have = h, !.present = pr]
  <2>1. a \in Int /\ c \in Int /\ h \in SUBSET Piece
    BY <1>w, <1>t
  <2>2. u = [w EXCEPT !.tor.left = IF i \in w.tor.have THEN @ + n ELSE @,
                      !.tor.complete_pieces = IF i \in w.tor.have THEN @ - 1 ELSE @,
                      !.tor.have = @ \ {i}, !.tor.present[i] = {}]
    BY <1>4, Zenon DEF ValidatePiece
  <2> HIDE DEF n, u
  <2>3. u = [w EXCEPT !.tor = v]
    BY <2>2, <1>w, Zenon DEF World, Tor
  <2>4. v = [t EXCEPT !.left = a, !.complete_pieces = c, !.have = h, !.present = pr]
    OBVIOUS
  <2>5. /\ a = IF i \in w.tor.have THEN w.tor.left + n ELSE w.tor.left
        /\ c = IF i \in w.tor.have THEN w.tor.complete_pieces - 1 ELSE w.tor.complete_pieces
        /\ h = w.tor.have \ {i} /\ pr = [w.tor.present EXCEPT ![i] = {}]
    OBVIOUS
  <2> HIDE DEF a, c, h, v, pr
  <2>6. /\ u \in World /\ u.peer = w.peer /\ u.asked = w.asked
        /\ ReservesAs(w.tor, u.tor) /\ IsAs(w.tor, u.tor) /\ u.tor.crash = w.tor.crash /\ u.tor.sources = w.tor.sources
        /\ u.tor.interested = w.tor.interested /\ u.tor.not_choking = w.tor.not_choking
        /\ u.tor.disk = w.tor.disk /\ u.tor.twice = w.tor.twice /\ u.tor.present = pr
        /\ u.tor.have = h /\ u.tor.left = a /\ u.tor.complete_pieces = c
    BY <2>1, <2>3, <2>4, <1>1
  <2>7. Sound(u) /\ (Ready(w) => Ready(u))
    <3>1. CASE i \in w.tor.have
      BY <3>1, <2>5, <2>6, ValidatedKeeps DEF n
    <3>2. CASE i \notin w.tor.have
      <4>1. h = w.tor.have
        BY <3>2, <2>5
      <4> QED
        BY <3>2, <4>1, <2>5, <2>6, ValidatedKeeps DEF n
    <3> QED
      BY <3>1, <3>2
  <2> QED
    BY <2>6, <2>7 DEF u
<1> QED
  BY <1>2, <1>3, <1>4

-----------------------------------------------------------------------------
(* Calls with several outcomes.                                            *)

\* SetPieceHaving keeps a state good, although we may be interested in the peer after it.
LEMMA PieceHavingKeeps ==
    ASSUME NEW w, Good(w), NEW p \in Peer, NEW h \in SUBSET Piece, w.peer[p].bits, NEW u \in PieceHaving(w, p, h)
    PROVE  Good(u)
<1> DEFINE v == SetHaving(w, p, h)
<1>1. /\ Good(v) /\ IsAs(w.tor, v.tor) /\ v.tor.interested = w.tor.interested
      /\ \A x \in Peer : v.peer[x].st = w.peer[x].st /\ v.peer[x].interested = w.peer[x].interested
  BY SetHavingKeeps
<1>2. u = v \/ (Attractive(w, p, h) /\ u = SetAmInterested(v, p, TRUE))
  BY DEF PieceHaving
<1> HIDE DEF v
<1>3. ASSUME Attractive(w, p, h), u = SetAmInterested(v, p, TRUE) PROVE Good(u)
  <2>1. Connected(v, p) /\ NeedMoreUploaders(v)
    BY <1>1, <1>3 DEF Attractive, Connected, NeedMoreUploaders, HasMetadata, IsAs
  <2> QED
    BY <1>1, <1>3, <2>1, SetAmInterestedKeeps
<1> QED
  BY <1>1, <1>2, <1>3

\* ReduceUploaders keeps a state good whichever peer it takes.
LEMMA ReduceUploadersKeeps ==
    ASSUME NEW w, Good(w), NEW u \in ReduceUploaders(w)
    PROVE  Good(u)
<1>1. u = w \/ \E p \in Peer : u = SetAmInterested(w, p, FALSE)
  BY DEF ReduceUploaders
<1>2. ASSUME NEW p \in Peer, u = SetAmInterested(w, p, FALSE) PROVE Good(u)
  BY <1>2, SetAmInterestedKeeps
<1> QED
  BY <1>1, <1>2

\* ReduceDownloaders keeps a state good whichever peer it takes.
LEMMA ReduceDownloadersKeeps ==
    ASSUME NEW w, Good(w), NEW u \in ReduceDownloaders(w)
    PROVE  Good(u)
<1>1. u = w \/ \E p \in Peer : u = SetAmChoking(w, {p}, TRUE)
  BY DEF ReduceDownloaders
<1>2. ASSUME NEW p \in Peer, u = SetAmChoking(w, {p}, TRUE) PROVE Good(u)
  <2>1. {p} \in SUBSET Peer
    OBVIOUS
  <2> QED
    BY <1>2, <2>1, SetAmChokingKeeps
<1> QED
  BY <1>1, <1>2

\* UnchokeBestUploaders keeps a state good: the peers it takes are connected.
LEMMA UnchokeBestUploadersKeeps ==
    ASSUME NEW w, Good(w), NEW u \in UnchokeBestUploaders(w)
    PROVE  Good(u)
<1>1. u = w \/ \E ps \in SUBSET Peer : (\A x \in ps : Connected(w, x)) /\ u = SetAmChoking(w, ps, FALSE)
  BY DEF UnchokeBestUploaders
<1>2. ASSUME NEW ps \in SUBSET Peer, \A x \in ps : Connected(w, x), u = SetAmChoking(w, ps, FALSE) PROVE Good(u)
  BY <1>2, SetAmChokingKeeps
<1> QED
  BY <1>1, <1>2

\* ReducePeers, which makes these three calls, does so too.
LEMMA ReducePeersKeeps ==
    ASSUME NEW w, Good(w), NEW u \in ReducePeers(w)
    PROVE  Good(u)
<1>1. \E a \in ReduceUploaders(w) : \E b \in ReduceDownloaders(a) : u \in UnchokeBestUploaders(b)
  BY DEF ReducePeers
<1> QED
  BY <1>1, ReduceUploadersKeeps, ReduceDownloadersKeeps, UnchokeBestUploadersKeeps

\* ScanPeers keeps a state good: peers are removed, then put on the black list, then reduced.
LEMMA ScanPeersKeeps ==
    ASSUME NEW w, Good(w), NEW u \in ScanPeers(w)
    PROVE  Good(u)
<1>1. \E bad \in SUBSET Peer, out \in SUBSET Peer, black \in SUBSET Peer :
        black \subseteq out /\ u \in ReducePeers(BlackList(RemovePeers(w, out), black))
  <2> DEFINE bad == {p \in Listed(w) : w.peer[p].error \/ (w.tor.complete /\ PeerComplete(w, p))}
             old == {p \in Listed(w) \ bad : w.peer[p].passive /\ w.peer[p].st = "idle"}
             black == {p \in bad : ~w.peer[p].passive}
  <2>1. u \in UNION {ReducePeers(BlackList(RemovePeers(w, bad \cup o), black)) : o \in {{}, old}}
    BY DEF ScanPeers
  <2>2. bad \in SUBSET Peer /\ old \in SUBSET Peer /\ black \subseteq bad
    BY DEF Listed
  <2> HIDE DEF bad, old, black
  <2>3. PICK o \in {{}, old} : u \in ReducePeers(BlackList(RemovePeers(w, bad \cup o), black))
    BY <2>1
  <2>4. bad \cup o \in SUBSET Peer /\ black \in SUBSET Peer /\ black \subseteq bad \cup o
    BY <2>2
  <2> QED
    BY <2>2, <2>3, <2>4
<1>2. ASSUME NEW out \in SUBSET Peer, NEW black \in SUBSET Peer, black \subseteq out,
             u \in ReducePeers(BlackList(RemovePeers(w, out), black))
      PROVE  Good(u)
  <2> DEFINE v == RemovePeers(w, out)
  <2>1. Good(v) /\ \A x \in out : v.peer[x] = NoObject
    BY RemovePeersKeeps
  <2>2. u \in ReducePeers(BlackList(v, black))
    BY <1>2
  <2> HIDE DEF v
  <2>3. Good(BlackList(v, black))
    BY <1>2, <2>1, BlackListKeeps
  <2> QED
    BY <2>2, <2>3, ReducePeersKeeps
<1> QED
  BY <1>1, <1>2

\* RestartPeers leaves nobody connected, interesting or asked for anything.
LEMMA RestartPeersKeeps ==
    ASSUME NEW w, Sound(w)
    PROVE  LET u == RestartPeers(w) IN
           /\ Sound(u) /\ (Ready(w) => Ready(u)) /\ IsAs(w.tor, u.tor)
           /\ \A x \in Peer : u.peer[x].st # "up" /\ ~u.peer[x].interested /\ u.asked[x] = <<>>
<1> DEFINE ps == {p \in Peer : Connected(w, p)}  u == RestartPeers(w)
<1>1. ps \in SUBSET Peer /\ u = Disconnect(w, ps)
  BY DEF RestartPeers
<1>2. \A x \in Peer : x \in ps <=> w.peer[x].st = "up"
  BY DEF Connected
<1> HIDE DEF ps, u
<1>3. Sound(u) /\ (Ready(w) => Ready(u)) /\ IsAs(w.tor, u.tor)
  BY <1>1, DisconnectKeeps
<1>4. \A x \in Peer \ ps : u.peer[x] = w.peer[x] /\ u.asked[x] = w.asked[x]
  BY <1>1, DisconnectKeeps
<1>5. \A x \in ps : /\ u.peer[x].st = (IF w.peer[x].st = "out" THEN "out" ELSE "idle")
                    /\ ~u.peer[x].interested /\ u.asked[x] = <<>>
  BY <1>1, DisconnectKeeps
<1>6. \A x \in Peer : Each(w.tor, w.peer[x], w.asked[x])
  BY SoundParts
<1>7. ASSUME NEW x \in Peer PROVE u.peer[x].st # "up" /\ ~u.peer[x].interested /\ u.asked[x] = <<>>
  <2>1. CASE x \in ps
    BY <2>1, <1>5
  <2>2. CASE x \notin ps
    BY <2>2, <1>2, <1>4, <1>6 DEF Each, Alive
  <2> QED
    BY <2>1, <2>2
<1> QED
  BY <1>3, <1>7 DEF u

\* Startup keeps a state good: with the metadata all peers start anew.
LEMMA StartupKeeps ==
    ASSUME NEW w, Good(w)
    PROVE  Good(Startup(w))
<1> DEFINE t == [w.tor EXCEPT !.md = "have", !.md_got = <<>>, !.state = "validating", !.index = 1]
           v == [w EXCEPT !.tor.md = "have", !.tor.md_got = <<>>, !.tor.state = "validating", !.tor.index = 1]
<1>1. w \in World /\ w.tor \in Tor /\ Sound(w) /\ <<>> \in Seq({"good", "bad"})
  BY SoundParts, EmptySeq DEF Good
<1>2. Startup(w) = RestartPeers(v)
  BY DEF Startup
<1>3. v = [w EXCEPT !.tor = t]
  BY <1>1, Zenon DEF World, Tor
<1> HIDE DEF v
<1>4. /\ t \in Tor /\ HoldsAs(w.tor, t) /\ ReservesAs(w.tor, t) /\ t.crash = w.tor.crash
      /\ t.sources = w.tor.sources /\ t.interested = w.tor.interested /\ t.not_choking = w.tor.not_choking
      /\ t.md = "have" /\ t.state = "validating" /\ t.index = 1
  BY <1>1, Zenon DEF Tor, HoldsAs, ReservesAs
<1> HIDE DEF t
<1>5. v \in World /\ v.tor = t /\ v.peer = w.peer /\ v.asked = w.asked
  BY <1>1, <1>3, <1>4, Zenon DEF World
<1>6. Sound(v)
  <2>w. /\ w.tor.crash = FALSE
        /\ Pieces(w.tor) /\ Downloaders(w.tor) /\ Sources(w.tor, w.peer) /\ Numbers(w.tor, w.peer)
        /\ \A p \in Peer : Each(w.tor, w.peer[p], w.asked[p])
        /\ Waiting(w.tor, w.peer) /\ Verified(w.tor)
    BY <1>1, SoundParts
  <2>1. Pieces(t) /\ Verified(t)
    BY <2>w, <1>4, HoldsSame
  <2>2. Downloaders(t)
    BY <2>w, <1>4, ReservesSame
  <2>3. Sources(t, w.peer) /\ Numbers(t, w.peer)
    BY <2>w, <1>4 DEF Sources, Numbers
  <2>4. Waiting(t, w.peer)
    BY <2>w, <1>4 DEF Waiting, ReservesAs
  <2>5. \A p \in Peer : Each(t, w.peer[p], w.asked[p])
    BY <2>w, <1>4 DEF Each, Alive, Settled, HoldsAs
  <2> QED
    BY <2>w, <2>1, <2>2, <2>3, <2>4, <2>5, <1>4, <1>5 DEF Sound
<1> DEFINE u == RestartPeers(v)
<1>7. /\ Sound(u) /\ IsAs(v.tor, u.tor)
      /\ \A x \in Peer : u.peer[x].st # "up" /\ ~u.peer[x].interested /\ u.asked[x] = <<>>
  BY <1>6, RestartPeersKeeps
<1> HIDE DEF u
<1>8. Ready(u)
  BY <1>4, <1>5, <1>7, PiecesAre DEF Ready, IsAs
<1> QED
  BY <1>2, <1>7, <1>8 DEF u, Good

-----------------------------------------------------------------------------
(* Storing.                                                                *)

\* MarkPieceInvalid keeps a state good if the peer has a bitfield.
LEMMA MarkPieceInvalidKeeps ==
    ASSUME NEW w, Good(w), NEW p \in Peer, NEW i \in Piece, w.peer[p].bits
    PROVE  Good(MarkPieceInvalid(w, p, i))
<1> DEFINE r == w.peer[p]  s == [r EXCEPT !.invalid = r.invalid + 1]  a == SetPeer(w, p, s)  h == w.peer[p].has \ {i}
           v == SetHaving(a, p, h)
<1>1. r \in PeerT /\ r.recv <= MaxRecv /\ r.invalid + 1 \in Nat
  <2>1. w.peer \in [Peer -> PeerT] /\ Each(w.tor, w.peer[p], w.asked[p])
    BY SoundParts DEF Good
  <2>2. r \in PeerT
    BY <2>1
  <2> QED
    BY <2>1, <2>2, PeerParts DEF Each, Alive
<1>2. PlainPeer(r, s) /\ s.recv = r.recv
  <2> HIDE DEF r
  <2> QED
    BY <1>1, PlainFields
<1>3. MarkPieceInvalid(w, p, i) = SetAmInterested(v, p, v.peer[p].interested)
  BY DEF MarkPieceInvalid
<1> HIDE DEF s
<1>4. Good(a) /\ a.peer[p] = s
  BY <1>1, <1>2, SetPeerKeeps
<1>5. a.peer[p].bits /\ h \in SUBSET Piece
  <2>1. r.has \in SUBSET Piece
    BY <1>1, PeerParts
  <2> QED
    BY <1>2, <1>4, <2>1 DEF PlainPeer
<1> HIDE DEF a, h
<1>6. Good(v)
  BY <1>4, <1>5, SetHavingKeeps
<1> HIDE DEF v
<1>7. v.peer[p].interested \in BOOLEAN
  <2>1. v.peer[p] \in PeerT
    BY <1>6, SoundParts DEF Good
  <2> QED
    BY <2>1, PeerParts
<1> QED
  BY <1>3, <1>6, <1>7, SetAmInterestedKeeps

\* A block is written and marked as present; of a piece that was not requested twice no queue has it any more.
LEMMA WrittenKeeps ==
    ASSUME NEW w, Good(w), NEW b \in Block, NEW d \in {"good", "bad"},
           b[1] \in w.tor.have => b[1] \in w.tor.twice,
           b[1] \notin w.tor.twice => \A x \in Peer : w.peer[x].st = "up" => ~In(w.peer[x].sent, b)
    PROVE  LET i == b[1]  s == [w EXCEPT !.tor.disk[b] = d, !.tor.present[i] = @ \cup {b}] IN
           /\ Good(s) /\ IsAs(w.tor, s.tor) /\ s.peer = w.peer /\ s.asked = w.asked
           /\ s.tor.twice = w.tor.twice /\ s.tor.have = w.tor.have
<1> DEFINE i == b[1]  s == [w EXCEPT !.tor.disk[b] = d, !.tor.present[i] = @ \cup {b}]
           di == [w.tor.disk EXCEPT ![b] = d]  pr == [w.tor.present EXCEPT ![i] = w.tor.present[i] \cup {b}]
           t == [w.tor EXCEPT !.disk = di, !.present = pr]
<1>w. /\ w \in World /\ w.tor \in Tor /\ w.tor.crash = FALSE /\ Ready(w)
      /\ Pieces(w.tor) /\ Downloaders(w.tor) /\ Sources(w.tor, w.peer) /\ Numbers(w.tor, w.peer)
      /\ \A p \in Peer : Each(w.tor, w.peer[p], w.asked[p])
      /\ Waiting(w.tor, w.peer) /\ Verified(w.tor)
  BY SoundParts DEF Good
<1>i. i \in Piece /\ b \in BlocksOf(i) /\ \A j \in Piece : j # i => b \notin BlocksOf(j)
  BY BlocksAre
<1>1. w.tor.disk \in [Block -> {"good", "bad", "none"}] /\ w.tor.present \in [Piece -> SUBSET Block]
  BY <1>w, TorParts
<1>2. /\ di \in [Block -> {"good", "bad", "none"}] /\ pr \in [Piece -> SUBSET Block]
      /\ \A c \in Block : c # b => di[c] = w.tor.disk[c]
      /\ \A j \in Piece : pr[j] = IF j = i THEN w.tor.present[i] \cup {b} ELSE w.tor.present[j]
  BY <1>1, <1>i
<1>3. s = [w EXCEPT !.tor = t]
  BY <1>w, Zenon DEF World, Tor
<1> HIDE DEF di, pr, s
<1>4. /\ t \in Tor /\ t.disk = di /\ t.present = pr /\ ReservesAs(w.tor, t) /\ IsAs(w.tor, t) /\ t.crash = w.tor.crash
      /\ t.sources = w.tor.sources /\ t.interested = w.tor.interested /\ t.not_choking = w.tor.not_choking
      /\ t.have = w.tor.have /\ t.twice = w.tor.twice /\ t.complete_pieces = w.tor.complete_pieces /\ t.left = w.tor.left
  BY <1>2, <1>w, Zenon DEF Tor, ReservesAs, IsAs
<1> HIDE DEF t
<1>5. s \in World /\ s.tor = t /\ s.peer = w.peer /\ s.asked = w.asked
  BY <1>3, <1>4, <1>w, Zenon DEF World
<1>6. Pieces(t)
  BY <1>w, <1>2, <1>4, <1>i DEF Pieces, Missing
<1>7. Verified(t)
  <2> SUFFICES ASSUME NEW j \in t.have \ t.twice, NEW c \in BlocksOf(j) PROVE t.disk[c] = "good"
    BY DEF Verified
  <2>1. j \in w.tor.have \ w.tor.twice /\ j \in Piece /\ j # i
    BY <1>4, <1>w, TorParts
  <2>2. c \in Block /\ c # b
    BY <2>1, <1>i, BlocksAre
  <2> QED
    BY <2>1, <2>2, <1>2, <1>4, <1>w DEF Verified
<1>8. ASSUME NEW x \in Peer PROVE Each(t, w.peer[x], w.asked[x])
  <2>1. Each(w.tor, w.peer[x], w.asked[x])
    BY <1>w
  <2>2. Alive(t, w.peer[x], w.asked[x]) /\ Once(w.peer[x].sent, t.twice)
    BY <2>1, <1>4 DEF Each, Alive, IsAs
  <2>3. Settled(t, w.peer[x], w.asked[x])
    <3> SUFFICES ASSUME NEW c \in Block, c[1] \notin w.tor.twice, In(w.peer[x].sent, c), In(w.asked[x], c)
                 PROVE  c[1] \notin w.tor.have /\ c \notin pr[c[1]]
      BY <1>4 DEF Settled
    <3>1. c[1] \notin w.tor.have /\ c \notin w.tor.present[c[1]]
      BY <2>1 DEF Each, Settled
    <3>2. w.asked[x] # <<>>
      BY Empty
    <3>3. c # b
      BY <3>2, <2>1 DEF Each, Alive
    <3>4. c[1] \in Piece
      BY BlocksAre
    <3> QED
      BY <3>1, <3>3, <3>4, <1>2
  <2> QED
    BY <2>2, <2>3 DEF Each
<1>9. Downloaders(t) /\ Sources(t, w.peer) /\ Numbers(t, w.peer) /\ Waiting(t, w.peer)
  <2>1. Downloaders(t)
    BY <1>w, <1>4, ReservesSame
  <2> QED
    BY <2>1, <1>w, <1>4 DEF Sources, Numbers, Waiting, ReservesAs
<1>10. Ready(s)
  BY <1>w, <1>4, <1>5 DEF Ready, IsAs
<1> QED
  BY <1>4, <1>5, <1>6, <1>7, <1>8, <1>9, <1>10, <1>w DEF Good, Sound, s, i

\* StoreBlock keeps a state good in which the other requests for the block have been cancelled.
LEMMA StoredKeeps ==
    ASSUME NEW w, Good(w), NEW p \in Peer, w.peer[p].bits, NEW b \in Block, NEW d \in {"good", "bad"},
           b[1] \in w.tor.have => b[1] \in w.tor.twice,
           b[1] \notin w.tor.twice => \A x \in Peer : w.peer[x].st = "up" => ~In(w.peer[x].sent, b),
           NEW u \in Stored(w, p, b, d)
    PROVE  Good(u)
<1> DEFINE i == b[1]  s == [w EXCEPT !.tor.disk[b] = d, !.tor.present[i] = @ \cup {b}]
           v == ValidatePiece(s, i)  a == [v EXCEPT !.tor.complete = TRUE, !.tor.end_game = FALSE]
<1>1. Good(s) /\ s.peer = w.peer
  BY WrittenKeeps
<1>i. i \in Piece
  BY BlocksAre
<1>2. \/ u = s
      \/ /\ s.tor.present[i] = BlocksOf(i)
         /\ u = MarkPieceInvalid(v, p, i) \/ u = v \/ u \in ScanPeers(a)
  BY DEF Stored
<1> HIDE DEF s, i
<1>3. ASSUME s.tor.present[i] = BlocksOf(i) PROVE Good(v) /\ v.peer = s.peer /\ IsAs(s.tor, v.tor)
  <2>1. Sound(s) /\ Ready(s)
    BY <1>1 DEF Good
  <2>2. i \in s.tor.twice \/ \A x \in Peer : \A c \in BlocksOf(i) : ~(In(s.peer[x].sent, c) /\ In(s.asked[x], c))
    <3> SUFFICES ASSUME i \notin s.tor.twice, NEW x \in Peer, NEW c \in BlocksOf(i), In(s.peer[x].sent, c), In(s.asked[x], c)
                 PROVE  FALSE
      OBVIOUS
    <3>1. Each(s.tor, s.peer[x], s.asked[x])
      BY <2>1, SoundParts
    <3>2. c \in Block /\ c[1] = i
      BY <1>i, BlocksAre
    <3> QED
      BY <3>1, <3>2, <1>3 DEF Each, Settled
  <2> QED
    BY <2>1, <2>2, <1>i, ValidatePieceKeeps DEF Good
<1>4. ASSUME Good(v), v.peer = s.peer PROVE Good(MarkPieceInvalid(v, p, i))
  <2> HIDE DEF v
  <2> QED
    BY <1>1, <1>4, <1>i, MarkPieceInvalidKeeps
<1>5. ASSUME Good(v), u \in ScanPeers(a) PROVE Good(u)
  <2> DEFINE t == [v.tor EXCEPT !.complete = TRUE, !.end_game = FALSE]
  <2> HIDE DEF v
  <2>1. Sound(v) /\ Ready(v) /\ v \in World /\ v.tor \in Tor
    BY <1>5, SoundParts DEF Good
  <2>2. a = [v EXCEPT !.tor = t]
    BY <2>1, Zenon DEF World, Tor
  <2> HIDE DEF a
  <2>3. PlainTor(v.tor, t) /\ t.state = v.tor.state /\ t.index = v.tor.index /\ t.md = v.tor.md
    BY <2>1, Zenon DEF Tor, PlainTor, HoldsAs, ReservesAs
  <2> HIDE DEF t
  <2>4. a \in World /\ a.tor = t /\ a.peer = v.peer /\ a.asked = v.asked
    BY <2>1, <2>2, <2>3, Zenon DEF World, PlainTor
  <2>5. Sound(a)
    BY <2>1, <2>3, <2>4, PlainKeeps
  <2>6. Ready(a)
    BY <2>1, <2>3, <2>4 DEF Ready
  <2> QED
    BY <1>5, <2>5, <2>6, ScanPeersKeeps DEF Good
<1> HIDE DEF v, a
<1> QED
  BY <1>1, <1>2, <1>3, <1>4, <1>5

\* StoreBlock; the piece of a block that comes is not complete, unless one of its blocks was requested twice.
LEMMA StoreBlockKeeps ==
    ASSUME NEW w, Good(w), NEW p \in Peer, w.peer[p].bits, NEW b \in Block, NEW d \in {"good", "bad"},
           b[1] \in w.tor.have => b[1] \in w.tor.twice, NEW u \in StoreBlock(w, p, b, d)
    PROVE  Good(u)
<1>1. PICK ps \in SUBSET Peer : /\ \A x \in Peer : w.peer[x].st = "up" => x \in ps
                                /\ u \in Stored(CancelBlock(w, ps, b), p, b, d)
  BY DEF StoreBlock, Reached, Connected
<1> DEFINE v == CancelBlock(w, ps, b)
<1>2. Good(v) /\ SameButSent(w, v)
  BY CancelBlockKeeps
<1>3. b[1] \notin w.tor.twice => \A x \in ps : ~In(v.peer[x].sent, b)
  BY CancelBlockKeeps
<1>4. u \in Stored(v, p, b, d)
  BY <1>1
<1> HIDE DEF v
<1>5. v.peer[p].bits /\ v.tor.have = w.tor.have /\ v.tor.twice = w.tor.twice /\ \A x \in Peer : v.peer[x].st = w.peer[x].st
  BY <1>2 DEF SameButSent, HoldsAs
<1>6. b[1] \notin v.tor.twice => \A x \in Peer : v.peer[x].st = "up" => ~In(v.peer[x].sent, b)
  BY <1>1, <1>3, <1>5
<1> QED
  BY <1>2, <1>4, <1>5, <1>6, StoredKeeps

\* StoreBlock keeps a state good when the block cannot be written and the torrent is shut down.
LEMMA StoreFailsKeeps ==
    ASSUME NEW w, Good(w), NEW b \in Block, NEW u \in StoreFails(w, b)
    PROVE  Good(u)
<1>1. PICK ps \in SUBSET Peer : u = Shutdown(CancelBlock(w, ps, b))
  BY DEF StoreFails, Reached
<1>2. Good(CancelBlock(w, ps, b))
  BY CancelBlockKeeps
<1> QED
  BY <1>1, <1>2, ShutdownKeeps

-----------------------------------------------------------------------------
(* Requests.                                                               *)

\* What is in one of two queues is in both together.
LEMMA Joined ==
    ASSUME NEW S, NEW s \in Seq(S), NEW q \in Seq(S), NEW b
    PROVE  In(s \o q, b) <=> In(s, b) \/ In(q, b)
<1> DEFINE m == Len(s)  n == Len(q)  t == s \o q
<1>1. m \in Nat /\ n \in Nat
  BY LenProperties
<1>2. Len(t) = m + n /\ \A i \in 1..(m + n) : t[i] = IF i <= m THEN s[i] ELSE q[i - m]
  BY ConcatProperties
<1> HIDE DEF t
<1>3. ASSUME In(s, b) PROVE In(t, b)
  <2>1. PICK k \in 1..m : s[k] = b
    BY <1>3 DEF In
  <2>2. k \in 1..(m + n) /\ t[k] = b
    BY <2>1, <1>1, <1>2
  <2> QED
    BY <2>2, <1>2 DEF In
<1>4. ASSUME In(q, b) PROVE In(t, b)
  <2>1. PICK k \in 1..n : q[k] = b
    BY <1>4 DEF In
  <2>2. k + m \in 1..(m + n) /\ ~(k + m <= m) /\ k + m - m = k
    BY <2>1, <1>1
  <2>3. t[k + m] = b
    BY <2>1, <2>2, <1>2
  <2> QED
    BY <2>2, <2>3, <1>2 DEF In
<1>5. ASSUME In(t, b) PROVE In(s, b) \/ In(q, b)
  <2>1. PICK k \in 1..(m + n) : t[k] = b
    BY <1>5, <1>2 DEF In
  <2>2. CASE k <= m
    BY <2>1, <2>2, <1>1, <1>2 DEF In
  <2>3. CASE ~(k <= m)
    <3>1. k - m \in 1..n /\ q[k - m] = b
      BY <2>1, <2>3, <1>1, <1>2
    <3> QED
      BY <3>1 DEF In
  <2> QED
    BY <2>2, <2>3
<1> QED
  BY <1>3, <1>4, <1>5 DEF t

\* What is free is reserved.
LEMMA Taken ==
    ASSUME NEW w \in World, NEW p \in Peer, NEW bs \in SUBSET Block, \A b \in bs : w.tor.downloader[b] = NoPeer,
           Downloaders(w.tor)
    PROVE  LET u == SetDownloader(w, bs, p) IN
           /\ u \in World /\ u.peer = w.peer /\ u.asked = w.asked
           /\ HoldsAs(w.tor, u.tor) /\ IsAs(w.tor, u.tor) /\ u.tor.crash = w.tor.crash
           /\ u.tor.sources = w.tor.sources /\ u.tor.interested = w.tor.interested /\ u.tor.not_choking = w.tor.not_choking
           /\ \A b \in Block : u.tor.downloader[b] = IF b \in bs THEN p ELSE w.tor.downloader[b]
           /\ Downloaders(u.tor)
<1> DEFINE u == SetDownloader(w, bs, p)
<1>1. u = SetDownloader(w, bs, p) /\ p \in Peer \cup {NoPeer}
  OBVIOUS
<1> HIDE DEF u
<1>2. /\ u \in World /\ u.peer = w.peer /\ u.asked = w.asked
      /\ HoldsAs(w.tor, u.tor) /\ IsAs(w.tor, u.tor) /\ u.tor.crash = w.tor.crash
      /\ u.tor.sources = w.tor.sources /\ u.tor.interested = w.tor.interested /\ u.tor.not_choking = w.tor.not_choking
      /\ \A b \in Block : u.tor.downloader[b] = IF b \in bs THEN p ELSE w.tor.downloader[b]
  <2>1. u \in World /\ u.peer = w.peer /\ u.asked = w.asked
    BY <1>1, SetDownloaderDoes
  <2>2. HoldsAs(w.tor, u.tor) /\ IsAs(w.tor, u.tor) /\ u.tor.crash = w.tor.crash
    BY <1>1, SetDownloaderDoes
  <2>3. u.tor.sources = w.tor.sources /\ u.tor.interested = w.tor.interested /\ u.tor.not_choking = w.tor.not_choking
    BY <1>1, SetDownloaderDoes
  <2>4. \A b \in Block : u.tor.downloader[b] = IF b \in bs THEN p ELSE w.tor.downloader[b]
    BY <1>1, SetDownloaderDoes
  <2> QED
    BY <2>1, <2>2, <2>3, <2>4
<1>3. Downloaders(u.tor)
  <2>1. p # NoPeer
    BY Parameters
  <2>2. \A b \in bs : (w.tor.downloader[b] = NoPeer) # (p = NoPeer)
    BY <2>1
  <2> QED
    BY <1>1, <2>2, SetDownloaderDoes
<1> QED
  BY <1>2, <1>3 DEF u

\* Requests q are sent to a peer: the free blocks of them are reserved for it.
LEMMA RequestKeeps ==
    ASSUME NEW w, Good(w), NEW p \in Peer, w.peer[p].st = "up", w.tor.state # "validating", NEW q \in Seq(Block),
           Len(w.peer[p].sent) + Len(q) <= MaxQueueLen, \A j, k \in 1..Len(q) : q[j] = q[k] => j = k,
           \A b \in Block : In(q, b) => b[1] \notin w.tor.have /\ b \notin w.tor.present[b[1]]
    PROVE  Good(Request(w, p, q))
<1> DEFINE bs == OfDownloader(w, ToSet(q), NoPeer)  v == SetDownloader(w, bs, p)
           s == w.peer[p].sent \o q  a == w.asked[p] \o q  r == [w.peer[p] EXCEPT !.sent = s]
           x1 == SetAsked(v, p, a)  x2 == SetPeer(x1, p, r)
           T == w.tor.twice \cup {b[1] : b \in ToSet(q) \cap ToSet(w.peer[p].sent)}
           u == [x2 EXCEPT !.tor.twice = T]
<1>w. /\ w \in World /\ w.tor \in Tor /\ w.tor.crash = FALSE /\ Ready(w)
      /\ w.peer \in [Peer -> PeerT] /\ w.asked \in [Peer -> Seq(Asked)]
      /\ Pieces(w.tor) /\ Downloaders(w.tor) /\ Sources(w.tor, w.peer) /\ Numbers(w.tor, w.peer)
      /\ \A y \in Peer : Each(w.tor, w.peer[y], w.asked[y])
      /\ Waiting(w.tor, w.peer) /\ Verified(w.tor)
  BY SoundParts DEF Good
<1>p. w.peer[p] \in PeerT /\ w.peer[p].sent \in Seq(Block) /\ w.asked[p] \in Seq(Asked) /\ q \in Seq(Asked)
  <2>1. w.peer[p] \in PeerT /\ w.asked[p] \in Seq(Asked)
    BY <1>w
  <2>2. Block \subseteq Asked
    BY DEF Asked
  <2> QED
    BY <2>1, <2>2, PeerParts, SeqMonotonic
<1>q. /\ \A b : b \in ToSet(q) <=> In(q, b)
      /\ \A b : b \in ToSet(w.peer[p].sent) <=> In(w.peer[p].sent, b)
      /\ ToSet(q) \subseteq Block
  BY <1>p, InSet
<1>0. Request(w, p, q) = [x2 EXCEPT !.tor.twice = @ \cup {b[1] : b \in ToSet(q) \cap ToSet(w.peer[p].sent)}]
  BY DEF Request
<1>D. T = w.tor.twice \cup {b[1] : b \in ToSet(q) \cap ToSet(w.peer[p].sent)}
  OBVIOUS
<1>1. bs \in SUBSET Block /\ \A b \in bs : w.tor.downloader[b] = NoPeer
  BY <1>q DEF OfDownloader
<1>b. \A b \in Block : b \in bs => In(q, b)
  BY <1>q DEF OfDownloader
<1>T. T \in SUBSET Piece /\ w.tor.twice \subseteq T /\ \A b : In(q, b) /\ In(w.peer[p].sent, b) => b[1] \in T
  <2>1. w.tor.twice \in SUBSET Piece
    BY <1>w, TorParts
  <2>2. \A b \in ToSet(q) : b[1] \in Piece
    BY <1>q, BlocksAre
  <2> QED
    BY <2>1, <2>2, <1>q
<1> HIDE DEF bs, T
<1>2. /\ v \in World /\ v.peer = w.peer /\ v.asked = w.asked
      /\ HoldsAs(w.tor, v.tor) /\ IsAs(w.tor, v.tor) /\ v.tor.crash = w.tor.crash
      /\ v.tor.sources = w.tor.sources /\ v.tor.interested = w.tor.interested /\ v.tor.not_choking = w.tor.not_choking
      /\ \A b \in Block : v.tor.downloader[b] = IF b \in bs THEN p ELSE w.tor.downloader[b]
  BY <1>w, <1>1, Taken
<1>3. Downloaders(v.tor)
  BY <1>w, <1>1, Taken
<1> HIDE DEF v
<1>4. /\ s \in Seq(Block) /\ Len(s) = Len(w.peer[p].sent) + Len(q)
      /\ \A b : In(s, b) <=> In(w.peer[p].sent, b) \/ In(q, b)
      /\ Once(w.peer[p].sent, w.tor.twice) => Once(s, T)
  <2>1. /\ w.peer[p].sent \in Seq(Block) /\ q \in Seq(Block) /\ w.tor.twice \subseteq T
        /\ \A b : In(w.peer[p].sent, b) /\ In(q, b) => b[1] \in T
        /\ \A j, k \in 1..Len(q) : q[j] = q[k] => j = k
    BY <1>p, <1>T
  <2>2. s \in Seq(Block) /\ Len(s) = Len(w.peer[p].sent) + Len(q)
    BY <2>1, ConcatProperties
  <2>3. ASSUME NEW b PROVE In(s, b) <=> In(w.peer[p].sent, b) \/ In(q, b)
    BY <2>1, Joined
  <2>4. Once(w.peer[p].sent, w.tor.twice) => Once(s, T)
    BY <2>1, PutBehind
  <2> QED
    BY <2>2, <2>3, <2>4
<1>5. a \in Seq(Asked) /\ \A b : In(a, b) <=> In(w.asked[p], b) \/ In(q, b)
  <2> DEFINE U == {b[1] : b \in Asked}
  <2>1. \A b : In(w.asked[p], b) /\ In(q, b) => b[1] \in U
    <3>1. \A b : In(q, b) => b \in Asked
      BY <1>p, InSet
    <3> QED
      BY <3>1
  <2> HIDE DEF U
  <2>2. {} \subseteq U
    OBVIOUS
  <2>3. /\ w.asked[p] \in Seq(Asked) /\ q \in Seq(Asked)
        /\ \A j, k \in 1..Len(q) : q[j] = q[k] => j = k
    BY <1>p
  <2>4. a \in Seq(Asked)
    BY <2>3, ConcatProperties
  <2>5. ASSUME NEW b PROVE In(a, b) <=> In(w.asked[p], b) \/ In(q, b)
    BY <2>3, Joined
  <2> QED
    BY <2>4, <2>5
<1> HIDE DEF s, a
<1>6. r \in PeerT /\ r.sent = s /\ r.st = "up" /\ r.interested = w.peer[p].interested /\ r.choking = w.peer[p].choking
      /\ r.bits = w.peer[p].bits /\ r.has = w.peer[p].has /\ r.recv = w.peer[p].recv
  <2> DEFINE o == w.peer[p]
  <2>1. o \in PeerT /\ o.st = "up"
    BY <1>p
  <2>2. r = [o EXCEPT !.sent = s]
    OBVIOUS
  <2>3. r.st = o.st
    BY <2>1, <2>2 DEF PeerT
  <2> HIDE DEF o, r
  <2>4. r \in PeerT /\ r.sent = s /\ r.interested = o.interested /\ r.choking = o.choking
        /\ r.bits = o.bits /\ r.has = o.has /\ r.recv = o.recv
    BY <2>1, <2>2, <1>4, Zenon DEF PeerT
  <2> QED
    BY <2>1, <2>3, <2>4 DEF o
<1> HIDE DEF r
<1>7. /\ x1 \in World /\ x1.tor = v.tor /\ x1.peer = w.peer
      /\ x1.asked[p] = a /\ \A x \in Peer : x # p => x1.asked[x] = w.asked[x]
  BY <1>2, <1>5, SetAskedDoes
<1> HIDE DEF x1
<1>8. /\ x2 \in World /\ x2.tor = v.tor /\ x2.asked = x1.asked
      /\ x2.peer[p] = r /\ \A x \in Peer : x # p => x2.peer[x] = w.peer[x]
  BY <1>7, <1>6, SetPeerDoes
<1> HIDE DEF x2
<1>d. u = Request(w, p, q)
  BY <1>0, <1>D, <1>2, <1>8 DEF HoldsAs
<1> DEFINE t == [x2.tor EXCEPT !.twice = T]
<1>9. u = [x2 EXCEPT !.tor = t] /\ x2.tor \in Tor
  BY <1>8, Zenon DEF World
<1>10. /\ t \in Tor /\ t.twice = T /\ ReservesAs(v.tor, t) /\ IsAs(v.tor, t) /\ t.crash = v.tor.crash
       /\ t.have = v.tor.have /\ t.complete_pieces = v.tor.complete_pieces /\ t.left = v.tor.left
       /\ t.present = v.tor.present /\ t.disk = v.tor.disk
       /\ t.sources = v.tor.sources /\ t.interested = v.tor.interested /\ t.not_choking = v.tor.not_choking
  BY <1>8, <1>9, <1>T, Zenon DEF Tor, ReservesAs, IsAs
<1> HIDE DEF t, u
<1>11. u \in World /\ u.tor = t /\ u.peer = x2.peer /\ u.asked = x2.asked
  BY <1>8, <1>9, <1>10, Zenon DEF World
<1>12. /\ t.twice = T /\ t.have = w.tor.have /\ t.present = w.tor.present /\ t.disk = w.tor.disk /\ t.md = w.tor.md
       /\ t.state = w.tor.state /\ t.index = w.tor.index /\ t.crash = FALSE
       /\ t.complete_pieces = w.tor.complete_pieces /\ t.left = w.tor.left
       /\ t.sources = w.tor.sources /\ t.interested = w.tor.interested /\ t.not_choking = w.tor.not_choking
       /\ \A b \in Block : t.downloader[b] = IF b \in bs THEN p ELSE w.tor.downloader[b]
  BY <1>10, <1>2, <1>w DEF HoldsAs, IsAs, ReservesAs
<1>13. /\ u.peer[p] = r /\ u.asked[p] = a
       /\ \A x \in Peer : x # p => u.peer[x] = w.peer[x] /\ u.asked[x] = w.asked[x]
  BY <1>7, <1>8, <1>11
<1>14. Pieces(t) /\ Verified(t)
  BY <1>w, <1>12, <1>T DEF Pieces, Verified, Missing
<1>15. Downloaders(t)
  BY <1>3, <1>10, ReservesSame
<1>16. Sources(t, u.peer)
  <2>1. \A x \in Peer : u.peer[x].has = w.peer[x].has
    BY <1>6, <1>13
  <2> QED
    BY <2>1, <1>w, <1>12, SourcesSame
<1>17. Numbers(t, u.peer)
  <2>1. \A x \in Peer : u.peer[x].interested = w.peer[x].interested /\ u.peer[x].choking = w.peer[x].choking
    BY <1>6, <1>13
  <2> QED
    BY <2>1, <1>w, <1>12 DEF Numbers, Liked, Unchoked
<1>18. Waiting(t, u.peer)
  <2> SUFFICES ASSUME NEW b \in Block, t.downloader[b] \in Peer \ Fast
               PROVE  u.peer[t.downloader[b]].st = "up" /\ In(u.peer[t.downloader[b]].sent, b)
    BY DEF Waiting
  <2>1. CASE b \in bs
    BY <2>1, <1>12, <1>13, <1>6, <1>4, <1>b
  <2>2. CASE b \notin bs
    <3> DEFINE y == w.tor.downloader[b]
    <3>1. t.downloader[b] = y /\ y \in Peer \ Fast
      BY <2>2, <1>12
    <3>2. w.peer[y].st = "up" /\ In(w.peer[y].sent, b)
      BY <3>1, <1>w DEF Waiting
    <3> HIDE DEF y
    <3>3. CASE y = p
      BY <3>1, <3>2, <3>3, <1>13, <1>6, <1>4
    <3>4. CASE y # p
      BY <3>1, <3>2, <3>4, <1>13
    <3> QED
      BY <3>3, <3>4
  <2> QED
    BY <2>1, <2>2
<1>19. ASSUME NEW y \in Peer PROVE Each(t, u.peer[y], u.asked[y])
  <2>1. Each(w.tor, w.peer[y], w.asked[y])
    BY <1>w
  <2>2. CASE y # p
    <3>1. Alive(t, w.peer[y], w.asked[y])
      BY <2>1, <1>12 DEF Each, Alive
    <3>2. Once(w.peer[y].sent, T)
      BY <2>1, <1>T DEF Each, Once
    <3>3. Settled(t, w.peer[y], w.asked[y])
      BY <2>1, <1>T, <1>12 DEF Each, Settled
    <3> QED
      BY <3>1, <3>2, <3>3, <2>2, <1>12, <1>13 DEF Each
  <2>3. CASE y = p
    <3>1. Alive(t, r, a)
      <4>1. Len(s) <= MaxQueueLen
        BY <1>4
      <4> QED
        BY <4>1, <2>1, <2>3, <1>6, <1>12 DEF Each, Alive
    <3>2. Once(s, T)
      BY <2>1, <2>3, <1>4 DEF Each
    <3>3. Settled(t, r, a)
      <4> SUFFICES ASSUME NEW b \in Block, b[1] \notin T, In(s, b), In(a, b)
                   PROVE  b[1] \notin w.tor.have /\ b \notin w.tor.present[b[1]]
        BY <1>6, <1>12 DEF Settled
      <4>1. CASE In(q, b)
        BY <4>1
      <4>2. CASE ~In(q, b)
        <5>1. In(w.peer[p].sent, b) /\ In(w.asked[p], b) /\ b[1] \notin w.tor.twice
          BY <4>2, <1>4, <1>5, <1>T
        <5> QED
          BY <5>1, <2>1, <2>3 DEF Each, Settled
      <4> QED
        BY <4>1, <4>2
    <3> QED
      BY <3>1, <3>2, <3>3, <2>3, <1>6, <1>12, <1>13 DEF Each
  <2> QED
    BY <2>2, <2>3
<1>20. Ready(u)
  <2>1. \A x \in Peer : u.peer[x].st = w.peer[x].st /\ u.peer[x].bits = w.peer[x].bits
    BY <1>6, <1>13
  <2> QED
    BY <2>1, <1>w, <1>11, <1>12 DEF Ready
<1>21. Sound(u)
  BY <1>11, <1>12, <1>14, <1>15, <1>16, <1>17, <1>18, <1>19 DEF Sound
<1> QED
  BY <1>d, <1>20, <1>21 DEF Good

\* SendDataRequests of a piece keeps a state good: its blocks are requested in order, each once.
LEMMA RequestPieceKeeps ==
    ASSUME NEW w, Good(w), NEW p \in Peer, w.peer[p].st = "up", w.tor.state # "validating", NEW i \in Piece,
           NEW u \in RequestPiece(w, p, i)
    PROVE  Good(u)
<1> DEFINE bs == Wanted(w, p, i)  s == w.peer[p].sent
<1>1. PICK n \in 0..(MaxQueueLen - Len(s)) : \E q \in [1..n -> bs] :
        /\ \A k \in 1..n : {b \in bs : b[2] < q[k][2]} = {q[j] : j \in 1..(k - 1)}
        /\ u = Request(w, p, q)
  BY DEF RequestPiece
<1>2. PICK q \in [1..n -> bs] :
        /\ \A k \in 1..n : {b \in bs : b[2] < q[k][2]} = {q[j] : j \in 1..(k - 1)}
        /\ u = Request(w, p, q)
  BY <1>1
<1>3. /\ bs \subseteq Block
      /\ \A b \in bs : b[1] = i /\ b[2] \in Nat /\ b[1] \notin w.tor.have /\ b \notin w.tor.present[b[1]]
  BY BlocksAre DEF Wanted
<1>4. Len(s) \in Nat /\ MaxQueueLen \in Nat /\ Len(s) <= MaxQueueLen
  <2>1. w.peer[p] \in PeerT /\ Each(w.tor, w.peer[p], w.asked[p])
    BY SoundParts DEF Good
  <2>2. s \in Seq(Block)
    BY <2>1, PeerParts
  <2> QED
    BY <2>1, <2>2, LenProperties, Parameters DEF Each, Alive
<1> HIDE DEF bs
<1>5. n \in Nat /\ Len(s) + n <= MaxQueueLen
  BY <1>4
<1>6. q \in Seq(Block) /\ Len(q) = n
  <2>1. q \in [1..n -> Block]
    BY <1>3
  <2> QED
    BY <2>1, <1>5
<1>7. ASSUME NEW j \in 1..n, NEW k \in 1..n, j < k PROVE q[j] # q[k]
  <2>1. q[j] \in {q[l] : l \in 1..(k - 1)}
    BY <1>7
  <2>2. q[j][2] < q[k][2]
    BY <2>1, <1>2
  <2>3. q[j][2] \in Nat
    BY <1>3
  <2> QED
    BY <2>2, <2>3
<1>8. \A j, k \in 1..Len(q) : q[j] = q[k] => j = k
  <2> SUFFICES ASSUME NEW j \in 1..n, NEW k \in 1..n, q[j] = q[k] PROVE j = k
    BY <1>6
  <2>1. ~(j < k) /\ ~(k < j)
    BY <1>7
  <2> QED
    BY <2>1
<1>9. \A b \in Block : In(q, b) => b[1] \notin w.tor.have /\ b \notin w.tor.present[b[1]]
  <2>1. \A b : In(q, b) => b \in bs
    BY <1>6 DEF In
  <2> QED
    BY <2>1, <1>3
<1>10. Good(Request(w, p, q))
  BY <1>4, <1>5, <1>6, <1>8, <1>9, RequestKeeps
<1> QED
  BY <1>2, <1>10

\* SendDataRequests keeps a state good, of whichever piece it requests blocks.
LEMMA SendDataRequestsKeeps ==
    ASSUME NEW w, Good(w), NEW p \in Peer, w.peer[p].interested, NEW u \in SendDataRequests(w, p)
    PROVE  Good(u)
<1>1. w.peer[p].st = "up" /\ w.tor.state # "validating"
  <2>1. Each(w.tor, w.peer[p], w.asked[p]) /\ Ready(w)
    BY SoundParts DEF Good
  <2> QED
    BY <2>1 DEF Each, Alive, Ready
<1>2. w.peer[p].fast \subseteq Piece /\ w.peer[p].has \subseteq Piece
  <2>1. w.peer[p] \in PeerT
    BY SoundParts DEF Good
  <2> QED
    BY <2>1, PeerParts
<1>3. u = w \/ (\E i \in Piece : u \in RequestPiece(w, p, i)) \/ u = SetAmInterested(w, p, FALSE)
  <2> DEFINE I == IF w.peer[p].peer_choking THEN w.peer[p].fast ELSE w.peer[p].has \ w.tor.have
  <2>1. I \subseteq Piece
    BY <1>2
  <2> HIDE DEF I
  <2>2. u = w \/ u \in UNION {RequestPiece(w, p, i) : i \in I} \/ u = SetAmInterested(w, p, FALSE)
    <3>1. \A x \in SendDataRequests(w, p) :
             x = w \/ x \in UNION {RequestPiece(w, p, i) : i \in I} \/ x = SetAmInterested(w, p, FALSE)
      BY DEF SendDataRequests, I
    <3> QED
      BY <3>1
  <2> QED
    BY <2>1, <2>2
<1>4. ASSUME NEW i \in Piece, u \in RequestPiece(w, p, i) PROVE Good(u)
  BY <1>1, <1>4, RequestPieceKeeps
<1>5. Good(SetAmInterested(w, p, FALSE))
  BY SetAmInterestedKeeps
<1> QED
  BY <1>3, <1>4, <1>5

-----------------------------------------------------------------------------
(* Metadata.                                                               *)

\* Metadata that has come or is forgotten changes nothing else.
LEMMA GotKeeps ==
    ASSUME NEW w, Good(w), NEW m \in Seq({"good", "bad"})
    PROVE  LET u == [w EXCEPT !.tor.md_got = m] IN
           Good(u) /\ u.tor.md = w.tor.md /\ u.tor.md_got = m /\ u.tor.state = w.tor.state
<1> DEFINE u == [w EXCEPT !.tor.md_got = m]  t == [w.tor EXCEPT !.md_got = m]
<1>1. w \in World /\ w.tor \in Tor /\ Sound(w) /\ Ready(w)
  BY SoundParts DEF Good
<1>2. u = [w EXCEPT !.tor = t]
  BY <1>1, Zenon DEF World
<1> HIDE DEF u
<1>3. PlainTor(w.tor, t) /\ t.state = w.tor.state /\ t.index = w.tor.index /\ t.md = w.tor.md /\ t.md_got = m
  BY <1>1, Zenon DEF Tor, PlainTor, HoldsAs, ReservesAs
<1> HIDE DEF t
<1>4. u \in World /\ u.tor = t /\ u.peer = w.peer /\ u.asked = w.asked
  BY <1>1, <1>2, <1>3, Zenon DEF World, PlainTor
<1>5. Sound(u)
  BY <1>1, <1>3, <1>4, PlainKeeps
<1>6. Ready(u)
  BY <1>1, <1>3, <1>4 DEF Ready
<1> QED
  BY <1>3, <1>4, <1>5, <1>6 DEF Good, u

\* SendMetadataRequest keeps a state good: while metadata is missing nothing is validated.
LEMMA SendMetadataRequestKeeps ==
    ASSUME NEW w, Good(w), NEW p \in Peer, Connected(w, p)
    PROVE  Good(SendMetadataRequest(w, p))
<1> DEFINE n == Len(w.tor.md_got) + 1  c == <<0, n>>  q == Append(w.asked[p], c)
<1>1. w.asked[p] \in Seq(Asked) /\ w.tor.md_got \in Seq({"good", "bad"}) /\ Ready(w)
  <2>1. w.tor \in Tor /\ w.asked \in [Peer -> Seq(Asked)] /\ Ready(w)
    BY SoundParts DEF Good
  <2> QED
    BY <2>1, TorParts
<1>2. n \in Nat
  BY <1>1, LenProperties
<1>3. c \in Asked
  BY <1>2 DEF Asked
<1>4. \A b \in Block : b # c
  <2> SUFFICES ASSUME NEW b \in Block, b = c PROVE FALSE
    OBVIOUS
  <2>1. b[1] = 0
    OBVIOUS
  <2>2. b[1] \in Piece /\ b[1] > 0
    BY BlocksAre, PiecesAre
  <2> QED
    BY <2>1, <2>2
<1> HIDE DEF n, c
<1>5. /\ q \in Seq(Asked) /\ Len(q) = Len(w.asked[p]) + 1 /\ Len(w.asked[p]) \in Nat
      /\ \A k \in 1..Len(w.asked[p]) : q[k] = w.asked[p][k]
      /\ q[Len(w.asked[p]) + 1] = c
  BY <1>1, <1>3, AppendProperties, LenProperties
<1> HIDE DEF q
<1>6. \A b \in Block : In(q, b) => In(w.asked[p], b)
  <2> SUFFICES ASSUME NEW b \in Block, NEW k \in 1..Len(q), q[k] = b PROVE In(w.asked[p], b)
    BY DEF In
  <2>1. k # Len(w.asked[p]) + 1
    BY <1>4, <1>5
  <2>2. k \in 1..Len(w.asked[p])
    BY <2>1, <1>5
  <2> QED
    BY <2>2, <1>5 DEF In
<1>7. CASE w.peer[p].md /\ w.tor.md = "download"
  <2>1. w.tor.state # "validating" /\ w.peer[p].st = "up"
    BY <1>7, <1>1 DEF Ready, Connected
  <2>2. SendMetadataRequest(w, p) = SetAsked(w, p, q)
    BY <1>7 DEF SendMetadataRequest, q, c, n
  <2>3. Good(SetAsked(w, p, q))
    BY <2>1, <1>5, <1>6, SetAskedKeeps
  <2> QED
    BY <2>2, <2>3
<1>8. CASE ~(w.peer[p].md /\ w.tor.md = "download")
  BY <1>8 DEF SendMetadataRequest
<1> QED
  BY <1>7, <1>8

\* HandleMetadata: the metadata that is complete starts the torrent or is asked for again.
LEMMA HandleMetadataKeeps ==
    ASSUME NEW w, Good(w), NEW p \in Peer, NEW n, NEW d \in {"good", "bad"}
    PROVE  Good(HandleMetadata(w, p, n, d))
<1> DEFINE g == Append(w.tor.md_got, d)  got == [w EXCEPT !.tor.md_got = g]  none == [got EXCEPT !.tor.md_got = <<>>]
           v == IF n # Len(w.tor.md_got) + 1 THEN w ELSE IF n = MetadataLen THEN MetadataDownloaded(got) ELSE got
<1>1. g \in Seq({"good", "bad"}) /\ <<>> \in Seq({"good", "bad"})
  <2>1. w.tor.md_got \in Seq({"good", "bad"})
    BY SoundParts, TorParts DEF Good
  <2> QED
    BY <2>1, AppendProperties, EmptySeq
<1>2. HandleMetadata(w, p, n, d) = IF w.tor.md # "download" THEN w ELSE IF Connected(v, p) THEN SendMetadataRequest(v, p) ELSE v
  BY DEF HandleMetadata
<1> HIDE DEF g
<1>3. Good(got)
  BY <1>1, GotKeeps
<1>4. MetadataDownloaded(got) = Startup(got) \/ MetadataDownloaded(got) = none
  <2> HIDE DEF got
  <2> QED
    BY DEF MetadataDownloaded
<1> HIDE DEF got
<1>5. Good(none)
  BY <1>1, <1>3, GotKeeps
<1> HIDE DEF none
<1>6. Good(MetadataDownloaded(got))
  BY <1>3, <1>4, <1>5, StartupKeeps
<1>7. Good(v)
  BY <1>3, <1>6
<1> HIDE DEF v
<1> QED
  BY <1>2, <1>7, SendMetadataRequestKeeps

-----------------------------------------------------------------------------
(* Packets.                                                                *)

\* What is known of a connected peer
LEMMA UpIs ==
    ASSUME NEW w, Good(w), NEW p \in Peer
    PROVE  /\ w.peer[p] \in PeerT /\ w.peer[p].recv <= MaxRecv /\ w.peer[p].recv \in Nat /\ w.peer[p].fast \in SUBSET Piece
           /\ w.peer[p].has \in SUBSET Piece /\ w.peer[p].sent \in Seq(Block) /\ Len(w.peer[p].sent) \in Nat
           /\ w.asked[p] \in Seq(Asked)
           /\ Connected(w, p) /\ w.tor.md = "have" => w.peer[p].bits
           /\ w.peer[p].interested => w.peer[p].st = "up" /\ w.tor.state # "validating"
           /\ ~w.peer[p].choking => w.peer[p].st = "up"
<1>1. w.peer[p] \in PeerT /\ Each(w.tor, w.peer[p], w.asked[p]) /\ w.asked[p] \in Seq(Asked) /\ Ready(w)
  BY SoundParts DEF Good
<1>2. w.peer[p].recv \in Nat /\ w.peer[p].fast \in SUBSET Piece /\ w.peer[p].has \in SUBSET Piece /\ w.peer[p].sent \in Seq(Block)
  BY <1>1, PeerParts
<1>3. Len(w.peer[p].sent) \in Nat
  BY <1>2, LenProperties
<1>4. Connected(w, p) /\ w.tor.md = "have" => w.peer[p].bits
  BY <1>1 DEF Ready, Connected
<1>5. w.peer[p].interested => w.peer[p].st = "up" /\ w.tor.state # "validating"
  BY <1>1 DEF Ready, Each, Alive
<1>6. ~w.peer[p].choking => w.peer[p].st = "up"
  BY <1>1 DEF Each, Alive
<1> QED
  BY <1>1, <1>2, <1>3, <1>4, <1>5, <1>6 DEF Each, Alive

\* A change of a peer of which the invariant says nothing keeps a state good.
LEMMA PlainPeerKeeps ==
    ASSUME NEW w, Good(w), NEW p \in Peer, NEW r, PlainPeer(w.peer[p], r), r.recv <= MaxRecv
    PROVE  /\ Good(SetPeer(w, p, r)) /\ SetPeer(w, p, r).peer[p] = r
           /\ SetPeer(w, p, r).tor = w.tor /\ SetPeer(w, p, r).asked = w.asked
BY SetPeerKeeps

\* PACKET_CHOKE clears the queue and keeps a state good.
LEMMA ChokeKeeps ==
    ASSUME NEW w, Good(w), NEW p \in Peer, NEW u \in HandlePacket(w, p, <<"choke">>)
    PROVE  Good(u)
<1> DEFINE r == [w.peer[p] EXCEPT !.peer_choking = TRUE]  v == SetPeer(w, p, r)
<1>1. u = ClearAllSent(v, p)
  BY DEF HandlePacket
<1>2. PlainPeer(w.peer[p], r) /\ r.recv <= MaxRecv
  <2> DEFINE o == w.peer[p]
  <2>1. o \in PeerT /\ o.recv <= MaxRecv
    BY UpIs
  <2> HIDE DEF o
  <2>2. PlainPeer(o, [o EXCEPT !.peer_choking = TRUE]) /\ [o EXCEPT !.peer_choking = TRUE].recv = o.recv
    BY <2>1, PlainFields
  <2> QED
    BY <2>1, <2>2 DEF o
<1> HIDE DEF r
<1>3. Good(v)
  BY <1>2, PlainPeerKeeps
<1> HIDE DEF v
<1>4. Len(v.peer[p].sent) \in 0..Len(v.peer[p].sent)
  BY <1>3, UpIs
<1> QED
  BY <1>1, <1>3, <1>4, ClearSentQueueKeeps DEF ClearAllSent

\* PACKET_UNCHOKE requests blocks and keeps a state good.
LEMMA UnchokedKeeps ==
    ASSUME NEW w, Good(w), NEW p \in Peer, NEW u \in HandlePacket(w, p, <<"unchoke">>)
    PROVE  Good(u)
<1> DEFINE o == w.peer[p]  r == [o EXCEPT !.peer_choking = FALSE]  v == SetPeer(w, p, r)
<1>1. (o.interested /\ u \in SendDataRequests(v, p)) \/ u = v
  BY DEF HandlePacket
<1>2. o \in PeerT /\ o.recv <= MaxRecv
  BY UpIs
<1>3. PlainPeer(o, r) /\ r.recv <= MaxRecv
  <2> HIDE DEF o
  <2>1. ASSUME NEW b \in BOOLEAN
        PROVE  PlainPeer(o, [o EXCEPT !.peer_choking = b]) /\ [o EXCEPT !.peer_choking = b].recv = o.recv
    BY <1>2, PlainFields
  <2> QED
    BY <1>2, <2>1
<1> HIDE DEF r
<1>4. Good(v) /\ v.peer[p] = r
  BY <1>3, PlainPeerKeeps
<1> HIDE DEF v
<1>5. o.interested => v.peer[p].interested
  BY <1>3, <1>4 DEF PlainPeer
<1> HIDE DEF o
<1> QED
  BY <1>1, <1>4, <1>5, SendDataRequestsKeeps

\* PACKET_INTERESTED keeps a state good.
LEMMA InterestedKeeps ==
    ASSUME NEW w, Good(w), NEW p \in Peer, NEW u \in HandlePacket(w, p, <<"interested">>)
    PROVE  Good(u)
<1> DEFINE o == w.peer[p]  r == [o EXCEPT !.peer_interested = TRUE]
<1>1. u = SetPeer(w, p, r)
  BY DEF HandlePacket
<1>2. o \in PeerT /\ o.recv <= MaxRecv
  BY UpIs
<1>3. PlainPeer(o, r) /\ r.recv <= MaxRecv
  <2> HIDE DEF o
  <2> QED
    BY <1>2, PlainFields
<1> HIDE DEF r
<1> QED
  BY <1>1, <1>3, PlainPeerKeeps

\* PACKET_UNINTERESTED drops the requests of the remote and keeps a state good.
LEMMA UninterestedKeeps ==
    ASSUME NEW w, Good(w), NEW p \in Peer, NEW u \in HandlePacket(w, p, <<"uninterested">>)
    PROVE  Good(u)
<1> DEFINE o == w.peer[p]  r == [o EXCEPT !.peer_interested = FALSE, !.recv = 0]
<1>1. u = SetPeer(w, p, r)
  BY DEF HandlePacket
<1>2. o \in PeerT /\ MaxRecv \in Nat
  BY UpIs, Parameters
<1>3. PlainPeer(o, r) /\ r.recv = 0
  <2> HIDE DEF o
  <2>1. ASSUME NEW b \in BOOLEAN, NEW n \in Nat
        PROVE  PlainPeer(o, [o EXCEPT !.peer_interested = b, !.recv = n]) /\ [o EXCEPT !.peer_interested = b, !.recv = n].recv = n
    BY <1>2, Zenon DEF PeerT, PlainPeer
  <2> QED
    BY <1>2, <2>1
<1> HIDE DEF r
<1>4. r.recv <= MaxRecv
  BY <1>2, <1>3
<1> QED
  BY <1>1, <1>3, <1>4, PlainPeerKeeps

\* PACKET_HAVE counts one more source and keeps a state good.
LEMMA HaveKeeps ==
    ASSUME NEW w, Good(w), NEW p \in Peer, Connected(w, p), NEW i \in Piece, NEW u \in HandlePacket(w, p, <<"have", i>>)
    PROVE  Good(u)
<1> DEFINE h == w.peer[p].has \cup {i}
<1>1. (HasMetadata(w) /\ u \in PieceHaving(w, p, h)) \/ u = w
  BY DEF HandlePacket
<1>2. h \in SUBSET Piece
  BY UpIs
<1>3. HasMetadata(w) => w.peer[p].bits
  BY UpIs DEF HasMetadata
<1> HIDE DEF h
<1> QED
  BY <1>1, <1>2, <1>3, PieceHavingKeeps
\* PACKET_BITFIELD counts the sources again and keeps a state good.
LEMMA BitfieldKeeps ==
    ASSUME NEW w, Good(w), NEW p \in Peer, Connected(w, p), NEW h \in SUBSET Piece, NEW u \in HandlePacket(w, p, <<"bitfield", h>>)
    PROVE  Good(u)
<1>1. (HasMetadata(w) /\ u \in PieceHaving(w, p, h)) \/ u = w
  BY DEF HandlePacket
<1>2. HasMetadata(w) => w.peer[p].bits
  BY UpIs DEF HasMetadata
<1> QED
  BY <1>1, <1>2, PieceHavingKeeps

\* PACKET_ALLOWED_FAST keeps a state good.
LEMMA AllowedFastKeeps ==
    ASSUME NEW w, Good(w), NEW p \in Peer, NEW i \in Piece, NEW u \in HandlePacket(w, p, <<"allowed_fast", i>>)
    PROVE  Good(u)
<1> DEFINE o == w.peer[p]  F == o.fast \cup {i}  r == [o EXCEPT !.fast = F]
<1>1. u = SetPeer(w, p, r) \/ u = w
  BY DEF HandlePacket
<1>2. o \in PeerT /\ o.recv <= MaxRecv /\ F \in SUBSET Piece
  BY UpIs
<1>3. PlainPeer(o, r) /\ r.recv <= MaxRecv
  <2> HIDE DEF o, F
  <2>1. PlainPeer(o, [o EXCEPT !.fast = F]) /\ [o EXCEPT !.fast = F].recv = o.recv
    BY <1>2, PlainFields
  <2> QED
    BY <1>2, <2>1
<1> HIDE DEF r
<1> QED
  BY <1>1, <1>3, PlainPeerKeeps

\* PACKET_REJECT_REQUEST takes the request out of the queue, if it is there, and keeps a state good.
LEMMA RejectKeeps ==
    ASSUME NEW w, Good(w), NEW p \in Peer, NEW b, NEW u \in HandlePacket(w, p, <<"reject", b>>)
    PROVE  Good(u)
<1> DEFINE i == FindRequest(w, p, b)
<1>1. u = ClearSentQueue(w, p, i) \/ u = w
  BY DEF HandlePacket
<1>2. i \in 0..Len(w.peer[p].sent)
  <2>1. w.peer[p].sent \in Seq(Block)
    BY UpIs
  <2> QED
    BY <2>1, Found
<1> HIDE DEF i
<1> QED
  BY <1>1, <1>2, ClearSentQueueKeeps

\* PACKET_PIECE stores a block that was requested, requests further ones and keeps a state good, also when
\* storing it restarts or ends everything in between.
LEMMA PieceKeeps ==
    ASSUME NEW w, Good(w), NEW p \in Peer, Connected(w, p), NEW b \in Block, NEW d \in {"good", "bad"},
           FindRequest(w, p, b) # 0 /\ b[1] \in w.tor.have => b[1] \in w.tor.twice,
           NEW u \in HandlePacket(w, p, <<"piece", b, d>>)
    PROVE  Good(u)
<1> DEFINE i == FindRequest(w, p, b)  v == ClearSentQueue(w, p, i)
<1>1. \/ u = w
      \/ /\ HasMetadata(w) /\ i # 0
         /\ \E x \in StoreBlock(v, p, b, d) : (x.peer[p].interested /\ u \in RequestPiece(x, p, b[1])) \/ u = x
  BY DEF HandlePacket
<1>2. i \in 0..Len(w.peer[p].sent)
  <2>1. w.peer[p].sent \in Seq(Block)
    BY UpIs
  <2> QED
    BY <2>1, Found
<1>b. b[1] \in Piece
  BY BlocksAre
<1> HIDE DEF i
<1>3. Good(v) /\ SameButSent(w, v)
  BY <1>2, ClearSentQueueKeeps
<1> HIDE DEF v
<1>4. CASE u = w
  BY <1>4
<1>5. CASE /\ HasMetadata(w) /\ i # 0
           /\ \E x \in StoreBlock(v, p, b, d) : (x.peer[p].interested /\ u \in RequestPiece(x, p, b[1])) \/ u = x
  <2>1. w.peer[p].bits
    BY <1>5, UpIs DEF HasMetadata
  <2>2. v.peer[p].bits /\ (b[1] \in v.tor.have => b[1] \in v.tor.twice)
    BY <2>1, <1>3, <1>5 DEF SameButSent, HoldsAs, i
  <2>3. PICK x \in StoreBlock(v, p, b, d) : (x.peer[p].interested /\ u \in RequestPiece(x, p, b[1])) \/ u = x
    BY <1>5
  <2>4. Good(x)
    BY <1>3, <2>2, StoreBlockKeeps
  <2>5. x.peer[p].interested => x.peer[p].st = "up" /\ x.tor.state # "validating"
    BY <2>4, UpIs
  <2> QED
    BY <2>3, <2>4, <2>5, <1>b, RequestPieceKeeps
<1> QED
  BY <1>1, <1>4, <1>5

\* PACKET_REQUEST keeps a state good: too many are an error of the peer.
LEMMA RequestedKeeps ==
    ASSUME NEW w, Good(w), NEW p \in Peer, NEW u \in HandlePacket(w, p, <<"request">>)
    PROVE  Good(u)
<1> DEFINE o == w.peer[p]  n == o.recv + 1  r == [o EXCEPT !.recv = n]
<1>1. u = w \/ u = PeerError(w, p) \/ (~(o.recv >= MaxRecv) /\ u = SetPeer(w, p, r))
  BY DEF HandlePacket
<1>2. o \in PeerT /\ o.recv \in Nat /\ n \in Nat /\ MaxRecv \in Nat
  BY UpIs, Parameters
<1>3. PlainPeer(o, r) /\ r.recv = n
  <2> HIDE DEF o, n
  <2> QED
    BY <1>2, PlainFields
<1> HIDE DEF r
<1>4. ~(o.recv >= MaxRecv) => r.recv <= MaxRecv
  BY <1>2, <1>3
<1> HIDE DEF n
<1> QED
  BY <1>1, <1>3, <1>4, PlainPeerKeeps, PeerErrorKeeps

\* The extended handshake keeps a state good: a peer without the metadata that is missing is disconnected.
LEMMA HandshakeKeeps ==
    ASSUME NEW w, Good(w), NEW p \in Peer, Connected(w, p), NEW md \in BOOLEAN,
           NEW u \in HandlePacket(w, p, <<"handshake", md>>)
    PROVE  Good(u)
<1> DEFINE o == w.peer[p]  r == [o EXCEPT !.md = md]  v == SetPeer(w, p, r)
<1>1. u = Disconnect(w, {p}) \/ u = SendMetadataRequest(v, p)
  BY DEF HandlePacket
<1>2. o \in PeerT /\ o.recv <= MaxRecv /\ o.st = "up"
  BY UpIs DEF Connected
<1>3. PlainPeer(o, r) /\ r.recv <= MaxRecv
  <2> HIDE DEF o
  <2> QED
    BY <1>2, PlainFields
<1> HIDE DEF r
<1>4. Good(v) /\ v.peer[p] = r
  BY <1>3, PlainPeerKeeps
<1> HIDE DEF v
<1>5. Connected(v, p)
  BY <1>2, <1>3, <1>4 DEF Connected, PlainPeer
<1>6. Good(Disconnect(w, {p}))
  <2>1. Sound(w) /\ Ready(w) /\ {p} \in SUBSET Peer
    BY DEF Good
  <2> QED
    BY <2>1, DisconnectKeeps DEF Good
<1> QED
  BY <1>1, <1>4, <1>5, <1>6, SendMetadataRequestKeeps

\* UT_METADATA_DATA keeps a state good, also when it starts the torrent.
LEMMA MetadataKeeps ==
    ASSUME NEW w, Good(w), NEW p \in Peer, NEW n, NEW d \in {"good", "bad"},
           NEW u \in HandlePacket(w, p, <<"metadata", n, d>>)
    PROVE  Good(u)
<1>1. u = HandleMetadata(w, p, n, d)
  BY DEF HandlePacket
<1> QED
  BY <1>1, HandleMetadataKeeps

-----------------------------------------------------------------------------
(* Steps.                                                                  *)

\* The state after a step is the state that a call returns.
LEMMA NextIs ==
    ASSUME NEW w, Good(w), SetW(w)
    PROVE  Good(W)'
<1>1. w = [tor |-> w.tor, peer |-> w.peer, asked |-> w.asked]
  <2>1. w \in World
    BY SoundParts DEF Good
  <2> QED
    BY <2>1, Parts
<1>2. W' = w
  BY <1>1 DEF SetW, W
<1> QED
  BY <1>2

\* The state in terms of the variables
LEMMA WIs == W.tor = tor /\ W.peer = peer /\ W.asked = asked
BY DEF W

\* What p was asked for and answers is in its list no more, and its packet is handled.
LEMMA AnsweredKeeps ==
    ASSUME Good(W), NEW p \in Peer, Connected(W, p), NEW n \in 1..Len(asked[p])
    PROVE  LET v == SetAsked(W, p, RemoveAt(asked[p], n)) IN
           /\ Good(v) /\ v.tor = tor /\ v.peer = peer
           /\ asked[p][n] \in Asked /\ In(asked[p], asked[p][n])
<1> DEFINE q == RemoveAt(asked[p], n)  v == SetAsked(W, p, q)
<1>1. asked[p] \in Seq(Asked)
  BY UpIs, WIs
<1>2. q \in Seq(Asked) /\ \A b : In(q, b) => In(asked[p], b)
  BY <1>1, TakenOut, LeftBehind
<1>3. asked[p] # <<>>
  <2>1. Len(asked[p]) \in Nat /\ n \in 1..Len(asked[p])
    BY <1>1, LenProperties
  <2>2. Len(<<>>) = 0
    BY EmptySeq
  <2> QED
    BY <2>1, <2>2
<1>4. peer[p].st = "up" /\ tor.state # "validating"
  <2>1. Ready(W)
    BY DEF Good
  <2> QED
    BY <2>1, <1>3, WIs DEF Ready, Connected
<1>5. W.asked[p] = asked[p] /\ W.peer[p].st = "up" /\ W.tor.state # "validating"
  BY <1>4, WIs
<1> HIDE DEF q
<1>6. Good(v) /\ v.tor = W.tor /\ v.peer = W.peer
  <2>1. \A b \in Block : In(q, b) => In(W.asked[p], b)
    BY <1>2, <1>5
  <2> QED
    BY <1>2, <1>5, <2>1, SetAskedKeeps
<1>7. asked[p][n] \in Asked /\ In(asked[p], asked[p][n])
  BY <1>1, ElementOfSeq DEF In
<1> QED
  BY <1>6, <1>7, WIs DEF q

\* TorrentPeer::Do keeps the state good when an answer has come: what is answered was settled before.
LEMMA PacketAnswerStep ==
    ASSUME Good(W), NEW p \in Peer, PacketAnswer(p)
    PROVE  Good(W)'
<1>1. PICK a \in Answers(p) : \E w \in HandlePacket(SetAsked(W, p, RemoveAt(asked[p], a[1])), p, a[2]) : SetW(w)
  BY DEF PacketAnswer
<1>2. Connected(W, p)
  BY DEF PacketAnswer
<1>q. asked[p] \in Seq(Asked) /\ DOMAIN asked[p] = 1..Len(asked[p])
  <2>1. asked[p] \in Seq(Asked)
    BY UpIs, WIs
  <2> QED
    BY <2>1, LenProperties
<1>3. PICK n \in 1..Len(asked[p]), d \in {"good", "bad"} :
        a = <<n, IF asked[p][n][1] = 0 THEN <<"metadata", asked[p][n][2], d>> ELSE <<"piece", asked[p][n], d>>>>
  BY <1>q DEF Answers
<1> DEFINE b == asked[p][n]  v == SetAsked(W, p, RemoveAt(asked[p], n))
<1>4. Good(v) /\ v.tor = tor /\ v.peer = peer /\ b \in Asked /\ In(asked[p], b)
  BY <1>2, AnsweredKeeps
<1>5. \E w \in HandlePacket(v, p, a[2]) : SetW(w)
  BY <1>1, <1>3
<1>6. a[2] = IF b[1] = 0 THEN <<"metadata", b[2], d>> ELSE <<"piece", b, d>>
  BY <1>3
<1> HIDE DEF b, v
<1>7. CASE b[1] = 0
  <2>1. PICK w \in HandlePacket(v, p, <<"metadata", b[2], d>>) : SetW(w)
    BY <1>5, <1>6, <1>7
  <2>2. Good(w)
    BY <1>4, MetadataKeeps
  <2> QED
    BY <2>1, <2>2, NextIs
<1>8. CASE b[1] # 0
  <2>1. PICK w \in HandlePacket(v, p, <<"piece", b, d>>) : SetW(w)
    BY <1>5, <1>6, <1>8
  <2>2. b \in Block
    BY <1>4, <1>8 DEF Asked
  <2>3. FindRequest(v, p, b) # 0 => In(peer[p].sent, b)
    <3>1. v.peer[p].sent \in Seq(Block)
      BY <1>4, UpIs
    <3> QED
      BY <3>1, <1>4, Found
  <2>4. In(peer[p].sent, b) /\ b[1] \in tor.have => b[1] \in tor.twice
    <3>1. Each(tor, peer[p], asked[p])
      BY SoundParts, WIs DEF Good
    <3> QED
      BY <3>1, <2>2, <1>4 DEF Each, Settled
  <2>5. FindRequest(v, p, b) # 0 /\ b[1] \in v.tor.have => b[1] \in v.tor.twice
    BY <2>3, <2>4, <1>4
  <2>6. Connected(v, p)
    BY <1>2, <1>4, WIs DEF Connected
  <2>7. Good(w)
    BY <1>4, <2>2, <2>5, <2>6, PieceKeeps
  <2> QED
    BY <2>1, <2>7, NextIs
<1> QED
  BY <1>7, <1>8

\* ... also when it is a refusal, the end of its interest, or a choke,
LEMMA PacketRefusalStep ==
    ASSUME Good(W), NEW p \in Peer, PacketRefusal(p)
    PROVE  Good(W)'
<1>1. Connected(W, p)
  BY DEF PacketRefusal
<1>q. asked[p] \in Seq(Asked) /\ DOMAIN asked[p] = 1..Len(asked[p])
  <2>1. asked[p] \in Seq(Asked)
    BY UpIs, WIs
  <2> QED
    BY <2>1, LenProperties
<1>2. \/ \E w \in HandlePacket(W, p, <<"choke">>) : SetW(w)
      \/ \E w \in HandlePacket(SetAsked(W, p, <<>>), p, <<"choke">>) : SetW(w)
      \/ \E w \in HandlePacket(W, p, <<"uninterested">>) : SetW(w)
      \/ \E n \in 1..Len(asked[p]) :
           \E w \in HandlePacket(SetAsked(W, p, RemoveAt(asked[p], n)), p, <<"reject", asked[p][n]>>) : SetW(w)
  BY <1>q DEF PacketRefusal
<1>3. ASSUME NEW w \in HandlePacket(W, p, <<"choke">>), SetW(w) PROVE Good(W)'
  BY <1>3, ChokeKeeps, NextIs
<1>4. ASSUME NEW w \in HandlePacket(SetAsked(W, p, <<>>), p, <<"choke">>), SetW(w) PROVE Good(W)'
  <2> DEFINE v == SetAsked(W, p, <<>>)
  <2>1. <<>> \in Seq(Asked) /\ \A b \in Block : In(<<>>, b) => In(W.asked[p], b)
    BY EmptySeq, Empty
  <2>2. Good(v)
    BY <2>1, SetAskedKeeps
  <2> HIDE DEF v
  <2>3. Good(w)
    BY <1>4, <2>2, ChokeKeeps DEF v
  <2> QED
    BY <1>4, <2>3, NextIs
<1>5. ASSUME NEW w \in HandlePacket(W, p, <<"uninterested">>), SetW(w) PROVE Good(W)'
  BY <1>5, UninterestedKeeps, NextIs
<1>6. ASSUME NEW n \in 1..Len(asked[p]),
             NEW w \in HandlePacket(SetAsked(W, p, RemoveAt(asked[p], n)), p, <<"reject", asked[p][n]>>), SetW(w)
      PROVE  Good(W)'
  <2>1. Good(SetAsked(W, p, RemoveAt(asked[p], n)))
    BY <1>1, AnsweredKeeps
  <2>2. Good(w)
    BY <2>1, RejectKeeps
  <2> QED
    BY <1>6, <2>2, NextIs
<1> QED
  BY <1>2, <1>3, <1>4, <1>5, <1>6

\* ... or what the remote has, wants or allows,
LEMMA PacketNewsStep ==
    ASSUME Good(W), NEW p \in Peer, PacketNews(p)
    PROVE  Good(W)'
<1>1. Connected(W, p)
  BY DEF PacketNews
<1>2. PICK m \in News(p) : \E w \in HandlePacket(W, p, m) : SetW(w)
  BY DEF PacketNews
<1>3. PICK w \in HandlePacket(W, p, m) : SetW(w)
  BY <1>2
<1>4. \/ m = <<"unchoke">> \/ m = <<"interested">> \/ m = <<"request">>
      \/ m = <<"bitfield", Bitfield[p]>>
      \/ \E i \in Later[p] : m = <<"have", i>>
      \/ \E i \in AllowedFast : m = <<"allowed_fast", i>>
      \/ \E md \in BOOLEAN : m = <<"handshake", md>>
  <2>1. \A x \in News(p) :
          \/ x = <<"unchoke">> \/ x = <<"interested">> \/ x = <<"request">>
          \/ x = <<"bitfield", Bitfield[p]>>
          \/ \E i \in Later[p] : x = <<"have", i>>
          \/ \E i \in AllowedFast : x = <<"allowed_fast", i>>
          \/ \E md \in BOOLEAN : x = <<"handshake", md>>
    BY DEF News
  <2> QED
    BY <2>1
<1>5. CASE m = <<"unchoke">>
  BY <1>3, <1>5, UnchokedKeeps, NextIs
<1>6. CASE m = <<"interested">>
  BY <1>3, <1>6, InterestedKeeps, NextIs
<1>7. CASE m = <<"request">>
  BY <1>3, <1>7, RequestedKeeps, NextIs
<1>8. CASE m = <<"bitfield", Bitfield[p]>>
  <2>1. Bitfield[p] \in SUBSET Piece
    BY Parameters
  <2>2. Good(w)
    BY <1>1, <1>8, <2>1, BitfieldKeeps
  <2> QED
    BY <1>3, <2>2, NextIs
<1>9. ASSUME NEW i \in Later[p], m = <<"have", i>> PROVE Good(W)'
  <2>1. i \in Piece
    BY Parameters
  <2>2. Good(w)
    BY <1>1, <1>9, <2>1, HaveKeeps
  <2> QED
    BY <1>3, <2>2, NextIs
<1>10. ASSUME NEW i \in AllowedFast, m = <<"allowed_fast", i>> PROVE Good(W)'
  <2>1. i \in Piece
    BY Parameters
  <2>2. Good(w)
    BY <1>1, <1>10, <2>1, AllowedFastKeeps
  <2> QED
    BY <1>3, <2>2, NextIs
<1>11. ASSUME NEW md \in BOOLEAN, m = <<"handshake", md>> PROVE Good(W)'
  <2>1. Good(w)
    BY <1>1, <1>11, HandshakeKeeps
  <2> QED
    BY <1>3, <2>1, NextIs
<1> QED
  BY <1>4, <1>5, <1>6, <1>7, <1>8, <1>9, <1>10, <1>11

\* ... or a block that cannot be stored.
LEMMA PacketFailsStep ==
    ASSUME Good(W), NEW p \in Peer, PacketFails(p)
    PROVE  Good(W)'
<1>1. Connected(W, p)
  BY DEF PacketFails
<1>q. asked[p] \in Seq(Asked) /\ DOMAIN asked[p] = 1..Len(asked[p])
  <2>1. asked[p] \in Seq(Asked)
    BY UpIs, WIs
  <2> QED
    BY <2>1, LenProperties
<1>2. PICK a \in Answers(p) : LET b == a[2][2]  i == FindRequest(W, p, b) IN
        a[2][1] = "piece" /\ \E w \in StoreFails(ClearSentQueue(W, p, i), b) : SetW(w)
  BY DEF PacketFails
<1> DEFINE b == a[2][2]  i == FindRequest(W, p, b)  v == ClearSentQueue(W, p, i)
<1>3. b \in Block
  <2>1. PICK n \in 1..Len(asked[p]), d \in {"good", "bad"} :
          a = <<n, IF asked[p][n][1] = 0 THEN <<"metadata", asked[p][n][2], d>> ELSE <<"piece", asked[p][n], d>>>>
    BY <1>q DEF Answers
  <2>2. asked[p][n][1] # 0 /\ b = asked[p][n]
    BY <2>1, <1>2
  <2>3. asked[p][n] \in Asked
    BY <1>q, ElementOfSeq
  <2> QED
    BY <2>2, <2>3 DEF Asked
<1>4. PICK w \in StoreFails(v, b) : SetW(w)
  BY <1>2
<1> HIDE DEF b
<1>5. i \in 0..Len(W.peer[p].sent)
  <2>1. W.peer[p].sent \in Seq(Block)
    BY UpIs
  <2> QED
    BY <2>1, Found
<1> HIDE DEF i
<1>6. Good(v)
  BY <1>5, ClearSentQueueKeeps
<1> HIDE DEF v
<1>7. Good(w)
  BY <1>3, <1>6, StoreFailsKeeps
<1> QED
  BY <1>4, <1>7, NextIs

\* A step that changes peers that are not connected
LEMMA ReplaceStep ==
    ASSUME Good(W), NEW p \in Peer, peer[p].st # "up", NEW r \in PeerT, Fresh(tor, r),
           peer' = [peer EXCEPT ![p] = r], UNCHANGED <<tor, asked>>
    PROVE  Good(W)'
<1> DEFINE f == [peer EXCEPT ![p] = r]  u == [tor |-> tor, peer |-> f, asked |-> asked]
<1>1. tor \in Tor /\ peer \in [Peer -> PeerT] /\ asked \in [Peer -> Seq(Asked)]
  <2>1. W \in World
    BY SoundParts DEF Good
  <2> QED
    BY <2>1, Parts, WIs
<1>2. f \in [Peer -> PeerT] /\ f[p] = r /\ \A x \in Peer : x # p => f[x] = peer[x]
  BY <1>1
<1>3. W' = u
  BY DEF W
<1> HIDE DEF f
<1>4. u \in World /\ u.tor = tor /\ u.peer = f /\ u.asked = asked
  BY <1>1, <1>2 DEF World
<1> HIDE DEF u
<1>5. /\ \A x \in {p} : W.peer[x].st # "up" /\ Fresh(W.tor, u.peer[x])
      /\ \A x \in Peer \ {p} : u.peer[x] = W.peer[x]
      /\ u.tor = W.tor /\ u.asked = W.asked /\ {p} \in SUBSET Peer
  BY <1>2, <1>4, WIs
<1>6. Good(u)
  BY <1>4, <1>5, ReplaceKeeps
<1> QED
  BY <1>3, <1>6

\* A peer that is not connected is as if nothing had happened to it yet.
LEMMA NotUpIs ==
    ASSUME Good(W), NEW p \in Peer, peer[p].st # "up"
    PROVE  peer[p] \in PeerT /\ Fresh(tor, peer[p]) /\ ~peer[p].bits
<1>1. peer[p] \in PeerT /\ Each(tor, peer[p], asked[p])
  <2>1. W.peer \in [Peer -> PeerT] /\ Each(W.tor, W.peer[p], W.asked[p])
    BY SoundParts DEF Good
  <2> QED
    BY <2>1, WIs
<1> QED
  BY <1>1 DEF Each, Alive, Fresh

\* AddPeer puts a new peer into the list, which keeps the state good.
LEMMA AddPeerStep ==
    ASSUME Good(W), NEW p \in Peer, AddPeer(p)
    PROVE  Good(W)'
<1>1. peer[p].st = "out" /\ peer' = [peer EXCEPT ![p] = NewPeer(FALSE)] /\ UNCHANGED <<tor, asked>>
  BY DEF AddPeer
<1>2. NewPeer(FALSE) \in PeerT /\ Fresh(tor, NewPeer(FALSE))
  BY NewPeerIs
<1> DEFINE r == NewPeer(FALSE)
<1> HIDE DEF r
<1>3. peer[p].st # "up"
  BY <1>1
<1> QED
  BY <1>1, <1>2, <1>3, ReplaceStep

\* Accept puts a peer into the list that has connected to us, which keeps the state good.
LEMMA AcceptStep ==
    ASSUME Good(W), NEW p \in Peer, Accept(p)
    PROVE  Good(W)'
<1> DEFINE o == NewPeer(TRUE)  r == [o EXCEPT !.st = "conn"]
<1>1. peer[p].st = "out" /\ peer' = [peer EXCEPT ![p] = r] /\ UNCHANGED <<tor, asked>>
  BY DEF Accept
<1>2. o \in PeerT /\ Fresh(tor, o) /\ ~o.bits
  BY NewPeerIs
<1> HIDE DEF o
<1>3. r \in PeerT /\ Fresh(tor, r)
  BY <1>2, PlaceIs
<1> HIDE DEF r
<1>4. peer[p].st # "up"
  BY <1>1
<1> QED
  BY <1>1, <1>3, <1>4, ReplaceStep

\* A socket is made for a peer, which keeps the state good.
LEMMA ConnectStep ==
    ASSUME Good(W), NEW p \in Peer, Connect(p)
    PROVE  Good(W)'
<1> DEFINE o == peer[p]  r == [o EXCEPT !.st = "conn"]
<1>1. peer[p].st # "up" /\ peer' = [peer EXCEPT ![p].st = "conn"] /\ UNCHANGED <<tor, asked>>
  BY DEF Connect
<1>2. o \in PeerT /\ Fresh(tor, o) /\ ~o.bits
  BY <1>1, NotUpIs
<1>3. peer' = [peer EXCEPT ![p] = r]
  BY <1>1
<1> HIDE DEF o
<1>4. r \in PeerT /\ Fresh(tor, r)
  BY <1>2, PlaceIs
<1> HIDE DEF r
<1> QED
  BY <1>1, <1>3, <1>4, ReplaceStep

\* The handshake has come and the peer gets a bitfield if there is metadata, which keeps the state good.
LEMMA RecvHandshakeStep ==
    ASSUME Good(W), NEW p \in Peer, RecvHandshake(p)
    PROVE  Good(W)'
<1> DEFINE o == peer[p]  b == HasMetadata(W)  r == [o EXCEPT !.st = "up", !.bits = b]
<1>1. peer[p].st = "conn" /\ peer' = [peer EXCEPT ![p].st = "up", ![p].bits = HasMetadata(W)] /\ UNCHANGED <<tor, asked>>
  BY DEF RecvHandshake
<1>2. o \in PeerT /\ Fresh(tor, o)
  BY <1>1, NotUpIs
<1>3. peer' = [peer EXCEPT ![p] = r]
  <2>1. peer \in [Peer -> PeerT]
    <3>1. W.peer \in [Peer -> PeerT]
      BY SoundParts DEF Good
    <3> QED
      BY <3>1, WIs
  <2> QED
    BY <1>1, <2>1, Zenon DEF PeerT
<1>4. b \in BOOLEAN /\ (b <=> tor.md = "have")
  BY WIs DEF HasMetadata
<1> HIDE DEF o, b
<1>5. /\ r \in PeerT /\ r.st = "up" /\ r.bits = b /\ r.interested = o.interested /\ r.choking = o.choking
      /\ r.has = o.has /\ r.recv = o.recv /\ r.sent = o.sent
  BY <1>2, <1>4, Zenon DEF PeerT
<1> HIDE DEF r
<1>6. Fresh(tor, r)
  BY <1>2, <1>4, <1>5 DEF Fresh
<1>7. peer[p].st # "up"
  BY <1>1
<1> QED
  BY <1>1, <1>3, <1>5, <1>6, <1>7, ReplaceStep

\* The connection cannot be made or is lost, which keeps the state good.
LEMMA LoseStep ==
    ASSUME Good(W), NEW p \in Peer, ConnectFails(p) \/ LoseConnection(p)
    PROVE  Good(W)'
<1>1. SetW(PeerError(W, p)) \/ SetW(Disconnect(W, {p}))
  BY DEF ConnectFails, LoseConnection
<1>2. Good(PeerError(W, p))
  BY PeerErrorKeeps
<1>3. Good(Disconnect(W, {p}))
  <2>1. Sound(W) /\ Ready(W) /\ {p} \in SUBSET Peer
    BY DEF Good
  <2> QED
    BY <2>1, DisconnectKeeps DEF Good
<1> QED
  BY <1>1, <1>2, <1>3, NextIs

\* A peer has pieces that are needed: we become interested in it.
LEMMA BecomeInterestedStep ==
    ASSUME Good(W), NEW p \in Peer, BecomeInterested(p)
    PROVE  Good(W)'
<1>1. Connected(W, p) /\ NeedMoreUploaders(W) /\ SetW(SetAmInterested(W, p, TRUE))
  BY DEF BecomeInterested
<1>2. Good(SetAmInterested(W, p, TRUE))
  BY <1>1, SetAmInterestedKeeps
<1> QED
  BY <1>1, <1>2, NextIs
\* Blocks are requested of a peer.
LEMMA SendRequestsStep ==
    ASSUME Good(W), NEW p \in Peer, SendRequests(p)
    PROVE  Good(W)'
<1>1. W.peer[p].interested
  BY WIs DEF SendRequests
<1>2. PICK w \in SendDataRequests(W, p) : SetW(w)
  BY DEF SendRequests
<1>3. Good(w)
  BY <1>1, SendDataRequestsKeeps
<1> QED
  BY <1>2, <1>3, NextIs
\* A peer is unchoked.
LEMMA UnchokeStep ==
    ASSUME Good(W), NEW p \in Peer, Unchoke(p)
    PROVE  Good(W)'
<1>1. Connected(W, p) /\ SetW(SetAmChoking(W, {p}, FALSE)) /\ {p} \in SUBSET Peer
  BY DEF Unchoke
<1>2. Good(SetAmChoking(W, {p}, FALSE))
  BY <1>1, SetAmChokingKeeps
<1> QED
  BY <1>1, <1>2, NextIs

\* A request of the remote is answered, or what it asks for cannot be read.
LEMMA SendDataReplyStep ==
    ASSUME Good(W), NEW p \in Peer, SendDataReply(p)
    PROVE  Good(W)'
<1> DEFINE o == peer[p]  n == o.recv - 1  r == [o EXCEPT !.recv = n]  v == SetPeer(W, p, r)
<1>1. o.recv > 0 /\ (SetW(v) \/ SetW(Shutdown(v)))
  BY DEF SendDataReply
<1>2. o \in PeerT /\ o.recv \in Nat /\ o.recv <= MaxRecv /\ MaxRecv \in Nat
  BY UpIs, WIs, Parameters
<1>3. n \in Nat /\ n <= MaxRecv
  BY <1>1, <1>2
<1>4. PlainPeer(W.peer[p], r) /\ r.recv <= MaxRecv
  <2>1. W.peer[p] = o
    BY WIs
  <2> HIDE DEF o, n
  <2> QED
    BY <1>2, <1>3, <2>1, PlainFields
<1> HIDE DEF r
<1>5. Good(v)
  BY <1>4, PlainPeerKeeps
<1> HIDE DEF v
<1>6. Good(Shutdown(v))
  BY <1>5, ShutdownKeeps
<1> QED
  BY <1>1, <1>5, <1>6, NextIs

\* A piece is validated; after the last one all peers start anew.
LEMMA ValidateStep ==
    ASSUME Good(W), Validate
    PROVE  Good(W)'
<1> DEFINE i == tor.index  a == ValidatePiece(W, i)  v == [a EXCEPT !.tor.index = @ + 1]
           c == v.tor.left = 0  z == [v EXCEPT !.tor.state = "active", !.tor.complete = c]
<1>1. tor.state = "validating" /\ IF i < Len(BlocksInPiece) THEN SetW(v) ELSE SetW(RestartPeers(z))
  BY DEF Validate
<1>2. Sound(W) /\ Ready(W) /\ i \in Piece /\ \A x \in Peer : W.asked[x] = <<>>
  BY <1>1, WIs DEF Good, Ready
<1>3. Sound(a) /\ Ready(a) /\ IsAs(W.tor, a.tor)
  <2>1. \A x \in Peer : \A b \in BlocksOf(i) : ~(In(W.peer[x].sent, b) /\ In(W.asked[x], b))
    BY <1>2, Empty
  <2> QED
    BY <1>2, <2>1, ValidatePieceKeeps
<1>4. a.tor.index = i /\ a.tor.state = "validating" /\ i + 1 \in Nat /\ a \in World /\ a.tor \in Tor
  <2>1. a \in World /\ a.tor \in Tor
    BY <1>3, SoundParts
  <2> HIDE DEF a
  <2>2. i + 1 \in Nat
    BY <1>2, PiecesAre
  <2> QED
    BY <2>1, <2>2, <1>1, <1>3, WIs DEF IsAs
<1> HIDE DEF a
<1> DEFINE t == [a.tor EXCEPT !.index = i + 1]
<1>5. v = [a EXCEPT !.tor = t]
  BY <1>4, Zenon DEF World
<1> HIDE DEF v
<1>6. PlainTor(a.tor, t) /\ t.state = a.tor.state /\ t.index = i + 1 /\ t \in Tor
  <2> DEFINE n == i + 1
  <2>1. t = [a.tor EXCEPT !.index = n] /\ n \in Nat
    BY <1>4
  <2> HIDE DEF n, t
  <2>2. PlainTor(a.tor, t) /\ t.state = a.tor.state /\ t.index = n /\ t \in Tor
    BY <1>4, <2>1, Zenon DEF Tor, PlainTor, HoldsAs, ReservesAs
  <2> QED
    BY <2>2 DEF n
<1> HIDE DEF t
<1>7. v \in World /\ v.tor = t /\ v.peer = a.peer /\ v.asked = a.asked
  BY <1>4, <1>5, <1>6, Zenon DEF World
<1>8. Sound(v)
  BY <1>3, <1>6, <1>7, PlainKeeps
<1>9. CASE i < Len(BlocksInPiece)
  <2>1. v.tor.index \in Piece
    BY <1>2, <1>6, <1>7, <1>9, PiecesAre
  <2>2. Ready(v)
    BY <1>3, <1>4, <1>6, <1>7, <2>1, PlainKeeps
  <2> QED
    BY <1>1, <1>8, <1>9, <2>2, NextIs DEF Good
<1>10. CASE ~(i < Len(BlocksInPiece))
  <2> DEFINE s == [v.tor EXCEPT !.state = "active", !.complete = c]
  <2>1. c \in BOOLEAN /\ v.tor \in Tor
    BY <1>6, <1>7
  <2> HIDE DEF c
  <2>2. z = [v EXCEPT !.tor = s]
    BY <1>7, <2>1, Zenon DEF World, Tor
  <2> HIDE DEF z
  <2>3. PlainTor(v.tor, s) /\ s.state = "active" /\ s \in Tor
    BY <2>1, Zenon DEF Tor, PlainTor, HoldsAs, ReservesAs
  <2> HIDE DEF s
  <2>4. z \in World /\ z.tor = s /\ z.peer = v.peer /\ z.asked = v.asked
    BY <1>7, <2>2, <2>3, Zenon DEF World
  <2>5. Sound(z)
    BY <1>8, <2>3, <2>4, PlainKeeps
  <2> DEFINE u == RestartPeers(z)
  <2>6. /\ Sound(u) /\ IsAs(z.tor, u.tor)
        /\ \A x \in Peer : u.peer[x].st # "up"
    BY <2>5, RestartPeersKeeps
  <2>7. SetW(u)
    BY <1>1, <1>10
  <2> HIDE DEF u
  <2>8. Ready(u)
    BY <2>3, <2>4, <2>6 DEF Ready, IsAs
  <2> QED
    BY <2>6, <2>7, <2>8, NextIs DEF Good
<1> QED
  BY <1>9, <1>10

\* ScanPeers when its timer runs out
LEMMA ScanStep ==
    ASSUME Good(W), Scan
    PROVE  Good(W)'
<1>1. PICK w \in ScanPeers(W) : SetW(w)
  BY DEF Scan
<1>2. Good(w)
  BY ScanPeersKeeps
<1> QED
  BY <1>1, <1>2, NextIs
\* OptimisticUnchoke, of connected peers
LEMMA OptimisticUnchokeStep ==
    ASSUME Good(W), OptimisticUnchoke
    PROVE  Good(W)'
<1>1. PICK ps \in SUBSET Peer : (\A x \in ps : Connected(W, x)) /\ SetW(SetAmChoking(W, ps, FALSE))
  <2> DEFINE choked == {p \in Peer : Connected(W, p) /\ peer[p].choking}
             wanting == {p \in choked : peer[p].peer_interested}
  <2>1. PICK ps \in SUBSET (choked \ wanting), one \in {{}} \cup {{p} : p \in wanting} :
          SetW(SetAmChoking(W, ps \cup one, FALSE))
    BY DEF OptimisticUnchoke
  <2>2. ps \cup one \subseteq choked
    OBVIOUS
  <2>3. ps \cup one \in SUBSET Peer /\ \A x \in ps \cup one : Connected(W, x)
    BY <2>2
  <2> QED
    BY <2>1, <2>3
<1>2. Good(SetAmChoking(W, ps, FALSE))
  BY <1>1, SetAmChokingKeeps
<1> QED
  BY <1>1, <1>2, NextIs
\* RebuildPiecesNeeded, which may begin the end game
LEMMA RebuildPiecesNeededStep ==
    ASSUME Good(W), RebuildPiecesNeeded
    PROVE  Good(W)'
<1> DEFINE e == tor.end_game \/ \A i \in Piece \ tor.have : HasADownloader(W, i)
           t == [tor EXCEPT !.end_game = e]  u == [tor |-> t, peer |-> peer, asked |-> asked]
<1>1. tor.state = "active" /\ UNCHANGED <<peer, asked>>
      /\ tor' = [tor EXCEPT !.end_game = @ \/ \A i \in Piece \ tor.have : HasADownloader(W, i)]
  BY DEF RebuildPiecesNeeded
<1>2. tor \in Tor /\ peer \in [Peer -> PeerT] /\ asked \in [Peer -> Seq(Asked)] /\ Sound(W) /\ Ready(W)
  BY SoundParts, WIs DEF Good
<1>3. tor' = t /\ e \in BOOLEAN
  BY <1>1
<1>4. W' = u
  BY <1>1, <1>3 DEF W
<1> HIDE DEF e
<1>5. PlainTor(tor, t) /\ t.state = tor.state /\ t \in Tor
  BY <1>2, <1>3, Zenon DEF Tor, PlainTor, HoldsAs, ReservesAs
<1> HIDE DEF t
<1>6. u \in World /\ u.tor = t /\ u.peer = peer /\ u.asked = asked
  BY <1>2, <1>5 DEF World
<1> HIDE DEF u
<1>7. Sound(u) /\ Ready(u)
  <2>1. PlainTor(W.tor, u.tor) /\ u.peer = W.peer /\ u.asked = W.asked /\ u.tor.state # "validating"
    BY <1>1, <1>5, <1>6, WIs
  <2> QED
    BY <1>2, <1>6, <2>1, PlainKeeps
<1> QED
  BY <1>4, <1>7 DEF Good
\* SeededEnough shuts the torrent down.
LEMMA SeededStep ==
    ASSUME Good(W), Seeded
    PROVE  Good(W)'
BY ShutdownKeeps, NextIs DEF Seeded

-----------------------------------------------------------------------------
(* The invariant.                                                          *)

\* The torrent as it is made: its metadata is there or not, and some pieces are on disk.
FirstTor(md, there) ==
    [md |-> IF md = "have" THEN "have" ELSE "download", md_got |-> <<>>,
     state |-> IF md = "have" THEN "validating" ELSE "active", index |-> 1,
     have |-> {}, complete |-> FALSE, complete_pieces |-> 0, left |-> Cardinality(Block),
     end_game |-> FALSE,
     present |-> [i \in Piece |-> {}],
     disk |-> [b \in Block |-> IF b[1] \in there THEN "good" ELSE "none"],
     downloader |-> [b \in Block |-> NoPeer], downloader_count |-> [i \in Piece |-> 0],
     sources |-> [i \in Piece |-> 0], interested |-> 0, not_choking |-> 0, twice |-> {}, crash |-> FALSE]

\* Nothing has been counted, reserved or verified.
LEMMA InitTor ==
    ASSUME NEW md \in {"have", "magnet"}, NEW there \in OnDisk
    PROVE  LET t == FirstTor(md, there) IN
           /\ t \in Tor /\ Pieces(t) /\ Downloaders(t) /\ Verified(t)
           /\ \A b \in Block : t.downloader[b] = NoPeer
           /\ \A i \in Piece : t.sources[i] = 0
           /\ t.interested = 0 /\ t.not_choking = 0 /\ t.twice = {} /\ t.crash = FALSE
           /\ t.index = 1 /\ (t.state = "validating" => t.md = "have")
<1> DEFINE x == IF md = "have" THEN "have" ELSE "download"
           s == IF md = "have" THEN "validating" ELSE "active"
           n == Cardinality(Block)
           pr == [i \in Piece |-> {}]
           di == [b \in Block |-> IF b[1] \in there THEN "good" ELSE "none"]
           dl == [b \in Block |-> NoPeer]
           z == [i \in Piece |-> 0]
           t == [md |-> x, md_got |-> <<>>, state |-> s, index |-> 1,
                have |-> {}, complete |-> FALSE, complete_pieces |-> 0, left |-> n,
                end_game |-> FALSE, present |-> pr, disk |-> di, downloader |-> dl, downloader_count |-> z,
                sources |-> z, interested |-> 0, not_choking |-> 0, twice |-> {}, crash |-> FALSE]
<1>1. /\ x \in {"have", "download"} /\ s \in {"active", "validating", "shut"} /\ (s = "validating" => x = "have")
      /\ <<>> \in Seq({"good", "bad"})
  BY EmptySeq
<1>2. n \in Nat /\ n \in Int
  BY BlocksCount, FS_CardinalityType
<1>3. /\ pr \in [Piece -> SUBSET Block] /\ \A i \in Piece : pr[i] = {}
      /\ di \in [Block -> {"good", "bad", "none"}]
      /\ dl \in [Block -> Peer \cup {NoPeer}] /\ \A b \in Block : dl[b] = NoPeer
      /\ z \in [Piece -> Int] /\ \A i \in Piece : z[i] = 0
  OBVIOUS
<1>d. n = Cardinality(Block)
  OBVIOUS
<1> HIDE DEF x, s, n, pr, di, dl, z
<1>4. 1 \in Nat /\ 0 \in Int
  OBVIOUS
<1>5. /\ t \in Tor /\ t.have = {} /\ t.complete_pieces = 0 /\ t.left = n /\ t.present = pr /\ t.downloader = dl
      /\ t.downloader_count = z /\ t.sources = z /\ t.interested = 0 /\ t.not_choking = 0 /\ t.twice = {}
      /\ t.crash = FALSE /\ t.index = 1 /\ t.state = s /\ t.md = x
  BY <1>1, <1>2, <1>3, <1>4 DEF Tor
<1> HIDE DEF t
<1>6. Pieces(t)
  <2>1. Missing(t) = Block
    BY <1>5 DEF Missing, Block
  <2> QED
    BY <2>1, <1>5, <1>3, <1>d, FS_EmptySet DEF Pieces
<1>7. Downloaders(t)
  <2>1. \A i \in Piece : Reserved(t, i) = {}
    BY <1>3, <1>5, BlocksAre DEF Reserved
  <2> QED
    BY <2>1, <1>3, <1>5, FS_EmptySet DEF Downloaders
<1>8. Verified(t)
  BY <1>5 DEF Verified
<1>9. FirstTor(md, there) = t
  BY Zenon DEF FirstTor, t, x, s, n, pr, di, dl, z
<1> QED
  BY <1>1, <1>3, <1>5, <1>6, <1>7, <1>8, <1>9

\* The invariant holds at first.
LEMMA InitGood ==
    ASSUME Init
    PROVE  IInv
<1>1. /\ tor \in Tor /\ Pieces(tor) /\ Downloaders(tor) /\ Verified(tor)
      /\ \A b \in Block : tor.downloader[b] = NoPeer
      /\ \A i \in Piece : tor.sources[i] = 0
      /\ tor.interested = 0 /\ tor.not_choking = 0 /\ tor.twice = {} /\ tor.crash = FALSE
      /\ tor.index = 1 /\ (tor.state = "validating" => tor.md = "have")
  <2>1. PICK md \in {"have", "magnet"}, there \in OnDisk : tor = FirstTor(md, there)
    BY Zenon DEF Init, FirstTor
  <2> QED
    BY <2>1, InitTor
<1>2. peer = [p \in Peer |-> NoObject] /\ asked = [p \in Peer |-> <<>>] /\ faults = 0
  BY DEF Init
<1>3. NoObject \in PeerT /\ NoObject.st = "out" /\ Fresh(tor, NoObject)
  BY NoObjectIs
<1>4. /\ peer \in [Peer -> PeerT] /\ asked \in [Peer -> Seq(Asked)]
      /\ \A p \in Peer : asked[p] = <<>> /\ peer[p].st = "out" /\ Fresh(tor, peer[p])
  BY <1>2, <1>3, EmptySeq
<1>5. W \in World
  BY <1>1, <1>4 DEF World, W
<1>6. Sources(tor, peer)
  <2>1. \A i \in Piece : Having(peer, i) = {}
    BY <1>4 DEF Having, Fresh
  <2> QED
    BY <2>1, <1>1, FS_EmptySet DEF Sources
<1>7. Numbers(tor, peer)
  <2>1. Liked(peer) = {} /\ Unchoked(peer) = {}
    BY <1>4 DEF Liked, Unchoked, Fresh
  <2> QED
    BY <2>1, <1>1, FS_EmptySet, Parameters DEF Numbers
<1>8. \A p \in Peer : Each(tor, peer[p], asked[p])
  BY <1>4, Empty DEF Each, Alive, Settled, Fresh
<1>9. Waiting(tor, peer)
  BY <1>1, Parameters DEF Waiting
<1>10. Sound(W)
  BY <1>1, <1>5, <1>6, <1>7, <1>8, <1>9, WIs DEF Sound
<1>11. Ready(W)
  BY <1>1, <1>4, PiecesAre, WIs DEF Ready, Fresh
<1> QED
  BY <1>2, <1>10, <1>11 DEF IInv, Good

\* It holds after each step, of Torrent::Do or of a peer.
LEMMA NextGood ==
    ASSUME IInv, [Next]_vars
    PROVE  IInv'
<1>1. Good(W) /\ faults \in Nat
  BY DEF IInv
<1>2. CASE Validate
  BY <1>1, <1>2, ValidateStep DEF IInv, Validate
<1>3. CASE Scan
  BY <1>1, <1>3, ScanStep DEF IInv, Scan
<1>4. CASE OptimisticUnchoke
  BY <1>1, <1>4, OptimisticUnchokeStep DEF IInv, OptimisticUnchoke
<1>5. CASE RebuildPiecesNeeded
  BY <1>1, <1>5, RebuildPiecesNeededStep DEF IInv, RebuildPiecesNeeded
<1>6. CASE Seeded
  BY <1>1, <1>6, SeededStep DEF IInv, Seeded
<1>7. ASSUME NEW p \in Peer, AddPeer(p) PROVE IInv'
  BY <1>1, <1>7, AddPeerStep DEF IInv, AddPeer
<1>8. ASSUME NEW p \in Peer, Accept(p) PROVE IInv'
  BY <1>1, <1>8, AcceptStep DEF IInv, Accept
<1>9. ASSUME NEW p \in Peer, Connect(p) PROVE IInv'
  BY <1>1, <1>9, ConnectStep DEF IInv, Connect
<1>10. ASSUME NEW p \in Peer, ConnectFails(p) \/ LoseConnection(p) PROVE IInv'
  BY <1>1, <1>10, LoseStep DEF IInv, ConnectFails, LoseConnection
<1>11. ASSUME NEW p \in Peer, RecvHandshake(p) PROVE IInv'
  BY <1>1, <1>11, RecvHandshakeStep DEF IInv, RecvHandshake
<1>12. ASSUME NEW p \in Peer, PacketAnswer(p) PROVE IInv'
  <2>1. faults' \in Nat
    BY <1>1, <1>12 DEF PacketAnswer
  <2> QED
    BY <1>1, <1>12, <2>1, PacketAnswerStep DEF IInv
<1>13. ASSUME NEW p \in Peer, PacketRefusal(p) PROVE IInv'
  BY <1>1, <1>13, PacketRefusalStep DEF IInv, PacketRefusal
<1>14. ASSUME NEW p \in Peer, PacketNews(p) PROVE IInv'
  BY <1>1, <1>14, PacketNewsStep DEF IInv, PacketNews
<1>15. ASSUME NEW p \in Peer, PacketFails(p) PROVE IInv'
  BY <1>1, <1>15, PacketFailsStep DEF IInv, PacketFails
<1>16. ASSUME NEW p \in Peer, BecomeInterested(p) PROVE IInv'
  BY <1>1, <1>16, BecomeInterestedStep DEF IInv, BecomeInterested
<1>17. ASSUME NEW p \in Peer, SendRequests(p) PROVE IInv'
  BY <1>1, <1>17, SendRequestsStep DEF IInv, SendRequests
<1>18. ASSUME NEW p \in Peer, Unchoke(p) PROVE IInv'
  BY <1>1, <1>18, UnchokeStep DEF IInv, Unchoke
<1>19. ASSUME NEW p \in Peer, SendDataReply(p) PROVE IInv'
  <2>1. faults' \in Nat
    BY <1>1, <1>19 DEF SendDataReply
  <2> QED
    BY <1>1, <1>19, <2>1, SendDataReplyStep DEF IInv
<1>20. CASE UNCHANGED vars
  <2>1. W' = W /\ faults' = faults
    BY <1>20 DEF vars, W
  <2> QED
    BY <1>1, <2>1 DEF IInv
<1> QED
  BY <1>2, <1>3, <1>4, <1>5, <1>6, <1>7, <1>8, <1>9, <1>10, <1>11, <1>12, <1>13, <1>14, <1>15, <1>16, <1>17, <1>18, <1>19,
     <1>20 DEF Next

\* Each state is good: the invariant from which the properties follow.
THEOREM Invariant == Spec => []IInv
<1>1. Init => IInv
  BY InitGood
<1>2. IInv /\ [Next]_vars => IInv'
  BY NextGood
<1> QED
  BY <1>1, <1>2, PTL DEF Spec

-----------------------------------------------------------------------------
(* The properties.                                                         *)

\* Fields of the torrent and of its peers have their types, and unsigned counters are never below zero.
LEMMA TypesAre == IInv => TypeOK
<1> SUFFICES ASSUME IInv PROVE TypeOK
  OBVIOUS
<1>1. /\ tor \in Tor /\ peer \in [Peer -> PeerT] /\ Pieces(tor) /\ Downloaders(tor) /\ Numbers(tor, peer)
      /\ \A p \in Peer : Each(tor, peer[p], asked[p])
  BY SoundParts, WIs DEF IInv, Good
<1>2. tor.state \in {"active", "validating", "shut"} /\ tor.md \in {"have", "download"} /\ tor.have \subseteq Piece
  BY <1>1, TorParts
<1>3. ASSUME NEW i \in Piece
      PROVE  tor.downloader_count[i] \in 0..BlocksInPiece[i] /\ tor.present[i] \subseteq BlocksOf(i)
  <2>1. Reserved(tor, i) \subseteq BlocksOf(i) /\ IsFiniteSet(BlocksOf(i)) /\ Cardinality(BlocksOf(i)) = BlocksInPiece[i]
    BY BlocksCount DEF Reserved
  <2>2. Cardinality(Reserved(tor, i)) \in Nat /\ Cardinality(Reserved(tor, i)) <= BlocksInPiece[i]
    BY <2>1, FS_Subset, FS_CardinalityType
  <2>3. BlocksInPiece[i] \in Nat
    BY PiecesAre
  <2> QED
    BY <2>2, <2>3, <1>1 DEF Downloaders, Pieces
<1>4. {tor.interested, tor.not_choking, tor.left, tor.complete_pieces} \subseteq Nat
  <2>1. IsFiniteSet(Liked(peer)) /\ IsFiniteSet(Unchoked(peer)) /\ IsFiniteSet(tor.have)
    BY <1>2, Parameters, PiecesAre, FS_Subset DEF Liked, Unchoked
  <2>2. IsFiniteSet(Missing(tor))
    <3>1. Missing(tor) \subseteq Block
      BY DEF Missing, Block
    <3> QED
      BY <3>1, BlocksCount, FS_Subset
  <2> QED
    BY <2>1, <2>2, <1>1, FS_CardinalityType DEF Pieces, Numbers
<1>5. ASSUME NEW p \in Peer
      PROVE  /\ peer[p].st \in {"out", "black", "idle", "conn", "up"}
             /\ ToSet(peer[p].sent) \subseteq Block /\ Len(peer[p].sent) <= MaxQueueLen
             /\ peer[p].recv \in 0..MaxRecv /\ peer[p].has \subseteq Piece
  <2>1. peer[p] \in PeerT
    BY <1>1
  <2>2. /\ peer[p].st \in {"out", "black", "idle", "conn", "up"} /\ peer[p].sent \in Seq(Block) /\ peer[p].recv \in Nat
        /\ peer[p].has \subseteq Piece
    BY <2>1, PeerParts
  <2>3. Len(peer[p].sent) <= MaxQueueLen /\ peer[p].recv <= MaxRecv
    BY <1>1 DEF Each, Alive
  <2> QED
    BY <2>2, <2>3, InSet, Parameters
<1> QED
  BY <1>2, <1>3, <1>4, <1>5 DEF TypeOK

\* The numbers that the torrent keeps of its peers and pieces (interesting and unchoked peers, sources and
\* downloaders of pieces, complete pieces, what is left) are right in every state, whatever peers are lost,
\* removed or restarted in the middle of a handler.
THEOREM Counts == Spec => []CountsExact
<1>1. IInv => CountsExact
  <2> SUFFICES ASSUME IInv PROVE CountsExact
    OBVIOUS
  <2>1. Pieces(tor) /\ Downloaders(tor) /\ Sources(tor, peer) /\ Numbers(tor, peer)
    BY SoundParts, WIs DEF IInv, Good
  <2> QED
    BY <2>1, TypesAre DEF CountsExact, Pieces, Downloaders, Sources, Numbers, Missing, Reserved, Having, Liked, Unchoked
<1> QED
  BY <1>1, Invariant, PTL

\* A block reserved for a peer that answers in order is in its queue, over a live connection: SetDownloader is
\* undone by ClearSentQueue, CancelBlock and Disconnect in every order in which they come.
THEOREM Reservations == Spec => []ReservedIsRequested
<1>1. IInv => ReservedIsRequested
  <2> SUFFICES ASSUME IInv, NEW b \in Block, tor.downloader[b] \in Peer \ Fast
               PROVE  Connected(W, tor.downloader[b]) /\ b \in ToSet(peer[tor.downloader[b]].sent)
    BY DEF ReservedIsRequested
  <2>1. peer[tor.downloader[b]].st = "up" /\ In(peer[tor.downloader[b]].sent, b)
    BY SoundParts, WIs DEF IInv, Good, Waiting
  <2>2. peer[tor.downloader[b]].sent \in Seq(Block)
    BY UpIs, WIs DEF IInv
  <2> QED
    BY <2>1, <2>2, InSet, WIs DEF Connected
<1> QED
  BY <1>1, Invariant, PTL

\* What is announced is good on disk, unless one of its blocks was requested twice of a peer: StoreBlock does
\* not write to a piece after ValidatePiece has found it good.
THEOREM Announced == Spec => []HaveIsGood
<1>1. IInv => HaveIsGood
  BY SoundParts, WIs DEF IInv, Good, Verified, HaveIsGood, PieceGood
<1> QED
  BY <1>1, Invariant, PTL

\* No bitfield and no buffer is used that has been taken away: SetPieceHaving, SetAmInterested and SetAmChoking
\* are only called for peers that have them.
THEOREM NoCrash == Spec => []NoNullUse
<1>1. IInv => NoNullUse
  BY SoundParts, WIs DEF IInv, Good, NoNullUse
<1> QED
  BY <1>1, Invariant, PTL
=============================================================================
