------------------------------ MODULE Torrent ------------------------------
(***************************************************************************)
(* A torrent and its peers (Torrent, TorrentPeer, TorrentPiece): getting    *)
(* the metadata, validating what is on disk, requesting blocks from several *)
(* peers, storing and verifying them, choking, and losing peers meanwhile.  *)
(*                                                                         *)
(* Do of a peer is one action for each of its parts that a timer or the     *)
(* rate limit can switch off by itself, and one for each packet: all that   *)
(* HandlePacket calls happens in that step.  A packet whose sending changes  *)
(* nothing at the remote is not modelled on its way.  Operators map a state  *)
(* w ([tor |-> ..., peer |-> ..., asked |-> ...]) to the state after a call.  *)
(***************************************************************************)
EXTENDS Integers, Sequences, FiniteSets, SequencesExt, FiniteSetsExt

CONSTANTS
    Peer,            \* TorrentPeer objects
    Fast,            \* those whose remote has the Fast Extension
    Downloader,      \* those whose remote wants data from us
    NoPeer,
    BlocksInPiece,   \* sequence: number of blocks of piece i
    MaxUploaders, MaxDownloaders,
    MaxQueueLen,     \* MAX_QUEUE_LEN: requests sent and not answered
    MaxRecv,         \* MAX_QUEUE_LEN*16: requests of a remote not answered
    MaxInvalid,      \* invalid pieces after which a peer is not interesting (5)
    MetadataLen,     \* blocks of the metadata
    Incoming,        \* peers that connect to us
    Bitfield, Later, \* functions: pieces a remote has, and gets later
    AllowedFast,     \* pieces that remotes allow to ask for while they choke
    OnDisk,          \* pieces that may be there before
    Faults           \* bound: broken connections, bad data, chokes

ASSUME TorrentAssumption ==
    /\ IsFiniteSet(Peer) /\ NoPeer \notin Peer
    /\ {Fast, Downloader, Incoming} \subseteq SUBSET Peer
    /\ BlocksInPiece \in Seq(Nat \ {0}) /\ BlocksInPiece # <<>>   \* no piece: Do validates piece 0 nevertheless
    /\ {Bitfield, Later} \subseteq [Peer -> SUBSET DOMAIN BlocksInPiece]
    /\ {AllowedFast} \cup OnDisk \subseteq SUBSET DOMAIN BlocksInPiece
    /\ {MaxUploaders, MaxDownloaders, MaxQueueLen, MaxRecv, MaxInvalid, MetadataLen, Faults} \subseteq Nat

VARIABLES
    tor,     \* the Torrent
    peer,    \* the TorrentPeers
    asked,   \* requests that each remote may still answer, cancelled ones too
    faults   \* faults so far

vars == <<tor, peer, asked, faults>>

Piece == DOMAIN BlocksInPiece
BlocksOf(i) == {<<i, b>> : b \in 1..BlocksInPiece[i]}
Block == UNION {BlocksOf(i) : i \in Piece}

W == [tor |-> tor, peer |-> peer, asked |-> asked]
SetW(w) == tor' = w.tor /\ peer' = w.peer /\ asked' = w.asked

\* Peer p becomes r, and what its remote may answer becomes q.
SetPeer(w, p, r) == [w EXCEPT !.peer = [x \in Peer |-> IF x = p THEN r ELSE w.peer[x]]]
SetAsked(w, p, q) == [w EXCEPT !.asked = [x \in Peer |-> IF x = p THEN q ELSE w.asked[x]]]

-----------------------------------------------------------------------------
(* The objects.                                                            *)

\* A TorrentPeer as constructed.  st is "out" or "black" when it is not in the
\* list of the torrent, "idle" without a socket, "conn" until the handshake of the remote
\* has come and "up" when Connected().
NewPeer(passive) ==
    [st |-> "idle", passive |-> passive, error |-> FALSE, bits |-> FALSE, has |-> {},
     interested |-> FALSE, choking |-> TRUE, peer_interested |-> FALSE, peer_choking |-> TRUE,
     sent |-> <<>>, recv |-> 0, fast |-> {}, invalid |-> 0, md |-> FALSE]

NoObject == [NewPeer(FALSE) EXCEPT !.st = "out"]

\* Connected()
Connected(w, p) == w.peer[p].st = "up"

Init ==
    /\ \E md \in {"have", "magnet"}, there \in OnDisk :
         tor = [md |-> IF md = "have" THEN "have" ELSE "download", md_got |-> <<>>,
                state |-> IF md = "have" THEN "validating" ELSE "active", index |-> 1,
                have |-> {}, complete |-> FALSE, complete_pieces |-> 0, left |-> Cardinality(Block),
                end_game |-> FALSE,
                present |-> [i \in Piece |-> {}], \* twice: for HaveIsGood
                disk |-> [b \in Block |-> IF b[1] \in there THEN "good" ELSE "none"],
                downloader |-> [b \in Block |-> NoPeer], downloader_count |-> [i \in Piece |-> 0],
                sources |-> [i \in Piece |-> 0], interested |-> 0, not_choking |-> 0, twice |-> {}, crash |-> FALSE]
    /\ peer = [p \in Peer |-> NoObject]
    /\ asked = [p \in Peer |-> <<>>]
    /\ faults = 0

HasMetadata(w) == w.tor.md = "have"

-----------------------------------------------------------------------------
(* Reservation of blocks and the queues of a peer.                         *)

\* set_downloader: the blocks bs pass to n; a free one is reserved or one that has a downloader is released.
SetDownloader(w, bs, n) ==
    LET diff == IF n = NoPeer THEN -1 ELSE 1 IN
    [w EXCEPT !.tor.downloader = [b \in Block |-> IF b \in bs THEN n ELSE w.tor.downloader[b]],
              !.tor.downloader_count =
                  [i \in Piece |-> w.tor.downloader_count[i] + diff * Cardinality(BlocksOf(i) \cap bs)]]

\* of which those whose downloader is o
OfDownloader(w, bs, o) == {b \in bs : w.tor.downloader[b] = o}

\* has_a_downloader
HasADownloader(w, i) == w.tor.downloader_count[i] > 0

\* Fault: the earlier requests leave the queue and their blocks stay reserved.
GivenUpOne(w, p, i) == OfDownloader(w, IF i = 0 THEN {} ELSE {w.peer[p].sent[i]}, p)

\* ClearSentQueue(i), i counted from 1, 0 for none: a remote without the Fast Extension answers in
\* order, so the requests before i are given up too; with it only request i is.
GivenUp(w, p, i) ==
    LET q == w.peer[p].sent IN
    OfDownloader(w, IF i = 0 THEN {} ELSE IF p \in Fast THEN {q[i]} ELSE ToSet(SubSeq(q, 1, i)), p)
KeptSent(w, p, i) ==
    LET q == w.peer[p].sent IN
    IF i = 0 THEN q ELSE IF p \in Fast THEN RemoveAt(q, i) ELSE SubSeq(q, i + 1, Len(q))
ClearSentQueue(w, p, i) ==
    SetPeer(SetDownloader(w, GivenUp(w, p, i), NoPeer), p, [w.peer[p] EXCEPT !.sent = KeptSent(w, p, i)])

\* ClearSentQueue()
ClearAllSent(w, p) == ClearSentQueue(w, p, Len(w.peer[p].sent))

\* FindRequest, 0 for none
FindRequest(w, p, b) == IF b \in ToSet(w.peer[p].sent) THEN SelectInSeq(w.peer[p].sent, LAMBDA x : x = b) ELSE 0

\* Fault: the reservations are released and the requests stay in the queues.
CancelReservation(w, ps, b) ==
    SetDownloader(w, IF w.tor.downloader[b] \in ps THEN {b} ELSE {}, NoPeer)

\* CancelBlock of each of the peers ps: its request is taken back; the remote may have answered it
\* already.
CancelBlock(w, ps, b) ==
    LET asking == {p \in ps : FindRequest(w, p, b) # 0} IN
    [SetDownloader(w, IF w.tor.downloader[b] \in asking THEN {b} ELSE {}, NoPeer)
       EXCEPT !.peer = [p \in Peer |-> IF p \in asking
                                        THEN [w.peer[p] EXCEPT !.sent = RemoveAt(@, FindRequest(w, p, b))]
                                        ELSE w.peer[p]]]

\* SetAmInterested
SetAmInterested(w, p, interest) ==
    LET i == interest /\ w.peer[p].invalid <= MaxInvalid IN
    IF w.peer[p].interested = i THEN w
    ELSE [SetPeer(w, p, [w.peer[p] EXCEPT !.interested = i])
            EXCEPT !.tor.interested = @ + (IF i THEN 1 ELSE -1), !.tor.crash = @ \/ ~Connected(w, p)]

\* SetAmChoking of each of the peers ps: choking drops or rejects what the remote has asked for.
SetAmChoking(w, ps, c) ==
    LET changed == {p \in ps : w.peer[p].choking # c} IN
    [w EXCEPT !.peer = [p \in Peer |-> IF p \in changed THEN [w.peer[p] EXCEPT !.choking = c, !.recv = IF c THEN 0 ELSE @]
                                        ELSE w.peer[p]],
              !.tor.not_choking = IF c THEN @ - Cardinality(changed) ELSE @ + Cardinality(changed),
              !.tor.crash = @ \/ \E p \in changed : ~Connected(w, p)]

\* NeedMoreUploaders, but for the rate and the timer
NeedMoreUploaders(w) ==
    HasMetadata(w) /\ w.tor.state = "active" /\ w.tor.interested < MaxUploaders

AllowMoreDownloaders(w) ==
    HasMetadata(w) /\ w.tor.state = "active" /\ w.tor.not_choking < MaxDownloaders

\* SetPieceHaving for all pieces at once: the peer now has exactly the pieces h.
\* Without a bitfield the program follows a null pointer.
SetHaving(w, p, h) ==
    LET old == w.peer[p].has
        src == [i \in Piece |-> w.tor.sources[i] + (IF i \in h \ old THEN 1 ELSE 0) - (IF i \in old \ h THEN 1 ELSE 0)]
    IN  [SetPeer(w, p, [w.peer[p] EXCEPT !.has = h]) EXCEPT !.tor.sources = src, !.tor.crash = @ \/ ~w.peer[p].bits]

\* Whether SetPieceHaving may make us interested in the peer.
Attractive(w, p, h) ==
    Connected(w, p) /\ ~w.peer[p].interested /\ NeedMoreUploaders(w) /\ ~(h \subseteq w.peer[p].has \cup w.tor.have)

\* The remote tells that it has the pieces h.
PieceHaving(w, p, h) ==
    {SetHaving(w, p, h)} \cup
    (IF Attractive(w, p, h) THEN {SetAmInterested(SetHaving(w, p, h), p, TRUE)} ELSE {})

\* Disconnect of each of the peers ps: it forgets the connection and gives back what it has reserved.
Disconnected(r, sent) ==
    [r EXCEPT !.st = IF @ = "out" THEN @ ELSE "idle", !.bits = FALSE, !.has = IF r.bits THEN {} ELSE @,
              !.recv = 0, !.fast = {}, !.interested = FALSE, !.choking = TRUE, !.peer_interested = FALSE,
              !.peer_choking = TRUE, !.md = FALSE, !.sent = sent]
Disconnect(w, ps) ==
    LET v == SetDownloader(w, UNION {GivenUp(w, p, Len(w.peer[p].sent)) : p \in ps}, NoPeer)
        lost(i) == {p \in ps : w.peer[p].bits /\ i \in w.peer[p].has}
    IN  [v EXCEPT !.peer = [p \in Peer |-> IF p \in ps THEN Disconnected(w.peer[p], KeptSent(w, p, Len(w.peer[p].sent)))
                                            ELSE w.peer[p]],
                  !.asked = [p \in Peer |-> IF p \in ps THEN <<>> ELSE w.asked[p]],
                  !.tor.sources = [i \in Piece |-> w.tor.sources[i] - Cardinality(lost(i))],
                  !.tor.interested = @ - Cardinality({p \in ps : w.peer[p].interested}),
                  !.tor.not_choking = @ - Cardinality({p \in ps : ~w.peer[p].choking})]

\* TorrentPeer::SetError
PeerError(w, p) == LET v == Disconnect(w, {p}) IN SetPeer(v, p, [v.peer[p] EXCEPT !.error = TRUE])

\* Taken out of the list: PrepareToDie disconnects.
RemovePeers(w, ps) ==
    LET v == Disconnect(w, ps) IN [v EXCEPT !.peer = [p \in Peer |-> IF p \in ps THEN NoObject ELSE v.peer[p]]]

Listed(w) == {p \in Peer : w.peer[p].st \notin {"out", "black"}}

\* Shutdown and SetError of the torrent: all peers are dropped at once, also the one
\* whose packet is being handled.
Shutdown(w) ==
    IF w.tor.state = "shut" THEN w
    ELSE [RemovePeers(w, Listed(w)) EXCEPT !.tor.state = "shut"]

\* Fault: connections live on when the metadata has come.
RestartNobody(w) == w

\* RestartPeers
RestartPeers(w) == Disconnect(w, {p \in Peer : Connected(w, p)})

-----------------------------------------------------------------------------
(* Requests.                                                               *)

\* The blocks of piece i that SendDataRequests(i) would request
Wanted(w, p, i) ==
    {b \in BlocksOf(i) : /\ i \notin w.tor.have /\ w.peer[p].bits /\ i \in w.peer[p].has /\ b \notin w.tor.present[i]
                         /\ \/ w.tor.downloader[b] = NoPeer
                            \/ w.tor.end_game /\ w.tor.downloader[b] # p /\ FindRequest(w, p, b) = 0}

Request(w, p, q) ==
    LET v == SetDownloader(w, OfDownloader(w, ToSet(q), NoPeer), p)
        u == SetPeer(SetAsked(v, p, w.asked[p] \o q), p, [w.peer[p] EXCEPT !.sent = @ \o q])
    IN  [u EXCEPT !.tor.twice = @ \cup {b[1] : b \in ToSet(q) \cap ToSet(w.peer[p].sent)}]

\* SendDataRequests(i): in order, as many as the queue and the rate limit allow.
RequestPiece(w, p, i) ==
    LET bs == Wanted(w, p, i)
        first(n) == {q \in [1..n -> bs] : \A k \in 1..n : {b \in bs : b[2] < q[k][2]} = {q[j] : j \in 1..(k - 1)}}
    IN  UNION {{Request(w, p, q) : q \in first(n)} : n \in 0..(MaxQueueLen - Len(w.peer[p].sent))}

\* SendDataRequests(): the last piece, a suggested one or one that is needed; while the
\* remote chokes us, only pieces it allows nevertheless.
SendDataRequests(w, p) ==
    LET r == w.peer[p] IN
    IF (r.peer_choking /\ p \notin Fast) \/ Len(r.sent) >= MaxQueueLen THEN {w}
    ELSE {w} \cup (UNION {RequestPiece(w, p, i) : i \in IF r.peer_choking THEN r.fast ELSE r.has \ w.tor.have})
             \cup (IF r.peer_choking \/ r.has \ w.tor.have # {} THEN {} ELSE {SetAmInterested(w, p, FALSE)})

-----------------------------------------------------------------------------
(* Storing and verifying.                                                  *)

PieceGood(w, i) == \A b \in BlocksOf(i) : w.tor.disk[b] = "good"

\* ValidatePiece: the digest of what is on disk.
ValidatePiece(w, i) ==
    LET n == BlocksInPiece[i] IN
    IF PieceGood(w, i)
    THEN IF i \in w.tor.have THEN w
         ELSE [w EXCEPT !.tor.left = @ - n, !.tor.complete_pieces = @ + 1,
                        !.tor.have = @ \cup {i}, !.tor.present[i] = {}]
    ELSE [w EXCEPT !.tor.left = IF i \in w.tor.have THEN @ + n ELSE @,
                   !.tor.complete_pieces = IF i \in w.tor.have THEN @ - 1 ELSE @,
                   !.tor.have = @ \ {i}, !.tor.present[i] = {}]

\* Fault: the piece is taken from the peer but not from the number of its sources.
ForgetPieceOfPeer(w, p, i) ==
    LET v == SetPeer(w, p, [w.peer[p] EXCEPT !.invalid = @ + 1, !.has = @ \ {i}])
    IN  SetAmInterested(v, p, v.peer[p].interested)

\* MarkPieceInvalid: the peer that gave the last block is taken not to have the piece.
MarkPieceInvalid(w, p, i) ==
    LET v == SetHaving(SetPeer(w, p, [w.peer[p] EXCEPT !.invalid = @ + 1]), p, w.peer[p].has \ {i})
    IN  SetAmInterested(v, p, v.peer[p].interested)

\* ReduceUploaders: the slowest may become uninteresting when there are too many.
ReduceUploaders(w) ==
    {w} \cup (IF w.tor.interested < MaxUploaders THEN {}
              ELSE {SetAmInterested(w, p, FALSE) : p \in {x \in Peer : w.peer[x].interested}})

\* ReduceDownloaders
ReduceDownloaders(w) ==
    {w} \cup (IF w.tor.not_choking < MaxDownloaders THEN {}
              ELSE {SetAmChoking(w, {p}, TRUE) :
                      p \in {x \in Peer : ~w.peer[x].choking /\ w.peer[x].peer_interested}})

\* UnchokeBestUploaders, those whose timer has run out
UnchokeBestUploaders(w) ==
    IF ~HasMetadata(w) THEN {w}
    ELSE {SetAmChoking(w, ps, FALSE) :
            ps \in SUBSET {p \in Peer : Connected(w, p) /\ w.peer[p].peer_interested /\ w.peer[p].choking}}

\* ReducePeers, but for their number (bounded by Peer)
ReducePeers(w) ==
    UNION {UNION {UnchokeBestUploaders(v) : v \in ReduceDownloaders(u)} : u \in ReduceUploaders(w)}

\* Complete() of a peer
PeerComplete(w, p) == w.peer[p].has = Piece /\ w.peer[p].bits

\* BlackListPeer: AddPeer refuses them from now on (for hours; here for good).
BlackList(w, ps) == [w EXCEPT !.peer = [p \in Peer |-> IF p \in ps THEN [NoObject EXCEPT !.st = "black"] ELSE w.peer[p]]]

\* ScanPeers: failed peers, finished ones when we are complete; a passive one that is
\* not connected when its time is up.
ScanPeers(w) ==
    LET bad == {p \in Listed(w) : w.peer[p].error \/ (w.tor.complete /\ PeerComplete(w, p))}
        old == {p \in Listed(w) \ bad : w.peer[p].passive /\ w.peer[p].st = "idle"}
    IN  UNION {ReducePeers(BlackList(RemovePeers(w, bad \cup o), {p \in bad : ~w.peer[p].passive})) : o \in {{}, old}}

\* The peers that CancelBlock reaches in StoreBlock: those with a send_buf, which is there some time
\* before the handshake of the remote has come.
Reached(w) == {ps \in SUBSET {p \in Peer : w.peer[p].st \in {"conn", "up"}} : \A p \in Peer : Connected(w, p) => p \in ps}

\* StoreBlock: src has sent block b, which is as good as d says.  Other requests for it
\* are cancelled, and when its piece has all blocks it is verified and announced.
Stored(w, src, b, d) ==
    LET i == b[1]
        s == [w EXCEPT !.tor.disk[b] = d, !.tor.present[i] = @ \cup {b}]
        v == ValidatePiece(s, i)
    IN  IF s.tor.present[i] # BlocksOf(i) \/ i \in s.tor.have THEN {s}
        ELSE IF i \notin v.tor.have THEN {MarkPieceInvalid(v, src, i)}
        ELSE IF v.tor.have # Piece \/ v.tor.complete THEN {v}
        ELSE ScanPeers([v EXCEPT !.tor.complete = TRUE, !.tor.end_game = FALSE])

StoreBlock(w, src, b, d) == UNION {Stored(CancelBlock(w, ps, b), src, b, d) : ps \in Reached(w)}

\* The same when the block cannot be written.
StoreFails(w, b) == {Shutdown(CancelBlock(w, ps, b)) : ps \in Reached(w)}

-----------------------------------------------------------------------------
(* Metadata.                                                               *)

\* SetMetadata and Startup: what is on disk is validated, and all peers start anew
\* since they have no bitfields.
Startup(w) ==
    RestartPeers([w EXCEPT !.tor.md = "have", !.tor.md_got = <<>>, !.tor.state = "validating", !.tor.index = 1])

\* MetadataDownloaded: a digest that does not match means another try.
MetadataDownloaded(w) ==
    IF \A n \in DOMAIN w.tor.md_got : w.tor.md_got[n] = "good" THEN Startup(w)
    ELSE [w EXCEPT !.tor.md_got = <<>>]

\* SendMetadataRequest: for the next block (<<0, n>> among the requests of blocks)
SendMetadataRequest(w, p) ==
    IF w.peer[p].md /\ w.tor.md = "download"
    THEN SetAsked(w, p, Append(w.asked[p], <<0, Len(w.tor.md_got) + 1>>)) ELSE w

\* UT_METADATA_DATA, block n
HandleMetadata(w, p, n, d) ==
    IF w.tor.md # "download" THEN w
    ELSE LET got == [w EXCEPT !.tor.md_got = Append(@, d)]
             v == IF n # Len(w.tor.md_got) + 1 THEN w
                  ELSE IF n = MetadataLen THEN MetadataDownloaded(got) ELSE got
         IN  IF Connected(v, p) THEN SendMetadataRequest(v, p) ELSE v

-----------------------------------------------------------------------------
(* Packets.                                                                *)

\* HandlePacket: the states after packet m of p.
HandlePacket(w, p, m) ==
    LET r == w.peer[p]
        k == m[1]
        Md == HasMetadata(w)
    IN  CASE k = "choke" -> {ClearAllSent(SetPeer(w, p, [r EXCEPT !.peer_choking = TRUE]), p)}
          [] k = "unchoke" ->
               LET v == SetPeer(w, p, [r EXCEPT !.peer_choking = FALSE])
               IN  IF r.interested THEN SendDataRequests(v, p) ELSE {v}
          [] k = "interested" -> {SetPeer(w, p, [r EXCEPT !.peer_interested = TRUE])}
          [] k = "uninterested" -> {SetPeer(w, p, [r EXCEPT !.peer_interested = FALSE, !.recv = 0])}
          [] k = "have" -> IF Md THEN PieceHaving(w, p, r.has \cup {m[2]}) ELSE {w}
          [] k = "bitfield" -> IF Md THEN PieceHaving(w, p, m[2]) ELSE {w}
          [] k = "allowed_fast" -> {IF Md THEN SetPeer(w, p, [r EXCEPT !.fast = @ \cup {m[2]}]) ELSE w}
          [] k = "reject" ->
               LET i == FindRequest(w, p, m[2]) IN {IF i > 0 THEN ClearSentQueue(w, p, i) ELSE w}
          [] k = "piece" ->
               LET i == FindRequest(w, p, m[2]) IN
               IF ~Md \/ i = 0 THEN {w}
               ELSE UNION {IF u.peer[p].interested /\ (~u.peer[p].peer_choking \/ m[2][1] \in u.peer[p].fast)
                           THEN RequestPiece(u, p, m[2][1]) ELSE {u} :
                           u \in StoreBlock(ClearSentQueue(w, p, i), p, m[2], m[3])}
          [] k = "request" ->
               {IF ~Md \/ r.choking THEN w
                ELSE IF r.recv >= MaxRecv THEN PeerError(w, p)
                ELSE SetPeer(w, p, [r EXCEPT !.recv = @ + 1])}
          [] k = "handshake" ->      \* extended handshake: whether it serves metadata
               {IF ~Md /\ ~m[2] THEN Disconnect(w, {p})
                ELSE SendMetadataRequest(SetPeer(w, p, [r EXCEPT !.md = m[2]]), p)}
          [] k = "metadata" -> {HandleMetadata(w, p, m[2], m[3])}

\* The answers to requests of ours that may arrive; without the Fast Extension in the
\* order of the requests.
Answers(p) ==
    UNION {{<<n, IF asked[p][n][1] = 0 THEN <<"metadata", asked[p][n][2], d>> ELSE <<"piece", asked[p][n], d>>>> : d \in {"good", "bad"}} :
           n \in {k \in DOMAIN asked[p] : p \in Fast \/ \A j \in 1..k-1 : asked[p][j] \notin ToSet(peer[p].sent)}}

\* TorrentPeer::Do, the last part: a packet has come, an answer
PacketAnswer(p) ==
    /\ Connected(W, p)
    /\ \E a \in Answers(p) :
         /\ a[2][3] = "bad" => faults < Faults
         /\ faults' = faults + (IF a[2][3] = "bad" THEN 1 ELSE 0)
         /\ \E w \in HandlePacket(SetAsked(W, p, RemoveAt(asked[p], a[1])), p, a[2]) : SetW(w)

\* ... a refusal, the end of its interest, or a choke, at which a remote without the Fast Extension forgets what
\* it was asked for
PacketRefusal(p) ==
    /\ Connected(W, p) /\ faults < Faults /\ faults' = faults + 1
    /\ \/ \E w \in HandlePacket(IF p \in Fast THEN W ELSE SetAsked(W, p, <<>>), p, <<"choke">>) : SetW(w)
       \/ peer[p].peer_interested /\ \E w \in HandlePacket(W, p, <<"uninterested">>) : SetW(w)
       \/ /\ p \in Fast
          /\ \E n \in {k \in DOMAIN asked[p] : asked[p][k][1] # 0} :
               \E w \in HandlePacket(SetAsked(W, p, RemoveAt(asked[p], n)), p, <<"reject", asked[p][n]>>) : SetW(w)

\* ... what it has, wants or allows: it asks for pieces that we have.
News(p) == LET r == peer[p] IN
    (IF r.peer_choking THEN {<<"unchoke">>} ELSE {})
    \cup (IF r.has = {} THEN {<<"bitfield", Bitfield[p]>>} ELSE {<<"have", i>> : i \in Later[p] \ r.has})
    \cup (IF p \in Fast /\ r.peer_choking THEN {<<"allowed_fast", i>> : i \in AllowedFast \ r.fast} ELSE {})
    \cup (IF p \notin Downloader THEN {}
          ELSE (IF r.peer_interested THEN {} ELSE {<<"interested">>}) \cup (IF tor.have = {} THEN {} ELSE {<<"request">>}))
    \cup (IF HasMetadata(W) \/ asked[p] # <<>> THEN {} ELSE {<<"handshake", md>> : md \in BOOLEAN})

PacketNews(p) ==
    /\ Connected(W, p) /\ \E m \in News(p) : \E w \in HandlePacket(W, p, m) : SetW(w)
    /\ UNCHANGED faults

\* A block arrives that cannot be stored: the whole torrent ends inside HandlePacket.
PacketFails(p) ==
    /\ Connected(W, p) /\ faults < Faults
    /\ \E a \in Answers(p) : LET b == a[2][2]  i == FindRequest(W, p, b)
       IN  /\ a[2][1] = "piece" /\ i > 0
           /\ \E w \in StoreFails(ClearSentQueue(W, p, i), b) : SetW(w)
    /\ faults' = faults + 1

-----------------------------------------------------------------------------
(* TorrentPeer::Do, the other parts.                                       *)

\* A socket is made, but not while validating.
Connect(p) ==
    /\ peer[p].st = "idle" /\ ~peer[p].error /\ ~peer[p].passive /\ tor.state # "validating"
    /\ peer' = [peer EXCEPT ![p].st = "conn"]
    /\ UNCHANGED <<tor, asked, faults>>

ConnectFails(p) ==
    /\ peer[p].st = "conn" /\ faults < Faults
    /\ SetW(PeerError(W, p)) /\ faults' = faults + 1

\* The handshake has come, with what follows it: extensions, our bitfield, and a bitfield for the
\* peer if we know how many pieces there are.
RecvHandshake(p) ==
    /\ peer[p].st = "conn"
    /\ peer' = [peer EXCEPT ![p].st = "up", ![p].bits = HasMetadata(W)]
    /\ UNCHANGED <<tor, asked, faults>>

\* HasNeededPieces.  pieces_needed, the sorted missing pieces that have sources, is left
\* out: it orders the choice among the pieces of a peer, as last_piece does.
HasNeededPieces(w, p) == w.peer[p].bits /\ ~(w.peer[p].has \subseteq w.tor.have)

BecomeInterested(p) ==
    /\ Connected(W, p) /\ ~peer[p].interested /\ HasNeededPieces(W, p) /\ NeedMoreUploaders(W)
    /\ SetW(SetAmInterested(W, p, TRUE)) /\ UNCHANGED faults

SendRequests(p) ==
    /\ Connected(W, p) /\ peer[p].interested /\ Len(peer[p].sent) < MaxQueueLen
    /\ \E w \in SendDataRequests(W, p) : SetW(w)
    /\ UNCHANGED faults

Unchoke(p) ==
    /\ Connected(W, p) /\ peer[p].peer_interested /\ peer[p].choking /\ AllowMoreDownloaders(W)
    /\ SetW(SetAmChoking(W, {p}, FALSE)) /\ UNCHANGED faults

\* SendDataReply: a piece of ours that cannot be read ends the torrent.
SendDataReply(p) ==
    /\ Connected(W, p) /\ peer[p].recv > 0
    /\ LET v == SetPeer(W, p, [peer[p] EXCEPT !.recv = @ - 1]) IN
       \/ SetW(v) /\ UNCHANGED faults
       \/ /\ faults < Faults
          /\ SetW(Shutdown(v)) /\ faults' = faults + 1

\* An error of a buffer, the end of the connection or a timeout
LoseConnection(p) ==
    /\ peer[p].st \in {"conn", "up"} /\ faults < Faults
    /\ SetW(Disconnect(W, {p})) /\ faults' = faults + 1

-----------------------------------------------------------------------------
(* Torrent::Do.                                                            *)

\* A tracker, the DHT or another peer tells of a peer (AddPeer).
AddPeer(p) ==
    /\ peer[p].st = "out" /\ p \notin Incoming /\ tor.state # "shut"
    /\ peer' = [peer EXCEPT ![p] = NewPeer(FALSE)]
    /\ UNCHANGED <<tor, asked, faults>>

\* Accept
Accept(p) ==
    /\ peer[p].st = "out" /\ p \in Incoming /\ tor.state = "active"
    /\ peer' = [peer EXCEPT ![p] = [NewPeer(TRUE) EXCEPT !.st = "conn"]]
    /\ UNCHANGED <<tor, asked, faults>>

\* One piece of what is on disk; after the last one all peers start anew.
Validate ==
    /\ tor.state = "validating"
    /\ LET v == [ValidatePiece(W, tor.index) EXCEPT !.tor.index = @ + 1] IN
       IF tor.index < Len(BlocksInPiece) THEN SetW(v)
       ELSE SetW(RestartPeers([v EXCEPT !.tor.state = "active", !.tor.complete = (v.tor.left = 0)]))
    /\ UNCHANGED faults

Scan == /\ tor.state # "shut" /\ \E w \in ScanPeers(W) : SetW(w)
        /\ UNCHANGED faults

\* OptimisticUnchoke: those who want nothing, and one who does, if their timers allow
OptimisticUnchoke ==
    /\ tor.state = "active" /\ HasMetadata(W)
    /\ LET choked == {p \in Peer : Connected(W, p) /\ peer[p].choking}
           wanting == {p \in choked : peer[p].peer_interested}
       IN  \E ps \in SUBSET (choked \ wanting), one \in {{}} \cup {{p} : p \in wanting} :
             SetW(SetAmChoking(W, ps \cup one, FALSE))
    /\ UNCHANGED faults

\* RebuildPiecesNeeded: the end game begins when every missing piece has a downloader.
RebuildPiecesNeeded ==
    /\ tor.state = "active" /\ HasMetadata(W) /\ ~tor.complete
    /\ LET missing == Piece \ tor.have IN
       tor' = [tor EXCEPT !.end_game = @ \/ \A i \in missing : HasADownloader(W, i)]
    /\ UNCHANGED <<peer, asked, faults>>

\* SeededEnough
Seeded == /\ tor.state = "active" /\ tor.complete /\ SetW(Shutdown(W)) /\ UNCHANGED faults

Next ==
    \/ Validate \/ Scan \/ OptimisticUnchoke \/ RebuildPiecesNeeded \/ Seeded
    \/ \E p \in Peer :
         \/ AddPeer(p) \/ Accept(p) \/ Connect(p) \/ ConnectFails(p)
         \/ RecvHandshake(p) \/ PacketAnswer(p) \/ PacketRefusal(p) \/ PacketNews(p) \/ PacketFails(p) \/ LoseConnection(p)
         \/ BecomeInterested(p) \/ SendRequests(p) \/ Unchoke(p) \/ SendDataReply(p)

Spec == Init /\ [][Next]_vars

-----------------------------------------------------------------------------
(* Properties.                                                             *)

\* The fields of the torrent and of its peers have their types, and the counts that the
\* code keeps unsigned never drop below zero (Torrent.h).
TypeOK ==
    /\ tor.state \in {"active", "validating", "shut"} /\ tor.md \in {"have", "download"}
    /\ tor.have \subseteq Piece
    /\ \A i \in Piece : tor.downloader_count[i] \in 0..BlocksInPiece[i] /\ tor.present[i] \subseteq BlocksOf(i)
    /\ {tor.interested, tor.not_choking, tor.left, tor.complete_pieces} \subseteq Nat
    /\ \A p \in Peer : /\ peer[p].st \in {"out", "black", "idle", "conn", "up"}
                       /\ ToSet(peer[p].sent) \subseteq Block /\ Len(peer[p].sent) <= MaxQueueLen
                       /\ peer[p].recv \in 0..MaxRecv /\ peer[p].has \subseteq Piece

\* What the torrent counts is what its peers and pieces are: sources of each piece,
\* peers we are interested in (never more than allowed) and do not choke, downloaders
\* of each piece, complete pieces and what is left.
CountsExact ==
    /\ TypeOK
    /\ \A i \in Piece : /\ tor.sources[i] = Cardinality({p \in Peer : i \in peer[p].has})
                        /\ tor.downloader_count[i] = Cardinality({b \in BlocksOf(i) : tor.downloader[b] # NoPeer})
    /\ tor.interested = Cardinality({p \in Peer : peer[p].interested}) /\ tor.interested <= MaxUploaders
    /\ tor.not_choking = Cardinality({p \in Peer : ~peer[p].choking})
    /\ tor.complete_pieces = Cardinality(tor.have)
    /\ tor.left = Cardinality(UNION {BlocksOf(i) : i \in Piece \ tor.have})

\* A block that is reserved for a peer without the Fast Extension is waiting in the queue
\* of that peer, over a connection that exists: otherwise nobody would request it again.
ReservedIsRequested ==
    \A b \in Block : LET p == tor.downloader[b] IN
        p \in Peer \ Fast => Connected(W, p) /\ b \in ToSet(peer[p].sent)

\* A piece that we announce is verified, and no late block of another peer overwrites it,
\* unless one of its blocks has been requested twice from the same peer (StoreBlock
\* cancels one request of a peer only, and writes to complete pieces).
HaveIsGood == \A i \in tor.have \ tor.twice : PieceGood(W, i)

\* Nothing is done to a peer through a bitfield or a buffer that a disconnect, a restart
\* or a shutdown in the middle of the handler has taken away.
NoNullUse == ~tor.crash
=============================================================================
