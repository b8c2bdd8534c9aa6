------------------------------ MODULE FtpProofs ------------------------------
(***************************************************************************)
(* For any number of sessions, any connection limit, operations, directory *)
(* names and failures, every reply that an FTP session receives is taken   *)
(* for the reply to the command it answers (Ftp!RepliesMatched).           *)
(*                                                                         *)
(* Ftp.tla composes a step of operators on a state w of one session, its   *)
(* object f and its connection c, as the code composes it of calls.  The   *)
(* inductive invariant Good is likewise said of any such state.  It adds   *)
(* to RepliesMatched what holds before a connection is established: there  *)
(* nothing is on its way (Fresh) and only the greeting will be expected,   *)
(* which CONNECTING_STATE writes down when the connection is there.        *)
(*                                                                         *)
(* Within a call of ReceiveResp the replies q have been taken off the      *)
(* network and n of them handled.  Settled(w, q, n) is the invariant for   *)
(* that moment; Fares(w, v) says that a call that leads from w to v keeps  *)
(* it, whatever q and n are, so that one lemma serves CheckResp, which is  *)
(* called between two replies, and Do, Close and takeover, which are not:  *)
(* Steady(w) is Settled with all replies still to come.  There is one      *)
(* lemma for each operator of the model.                                   *)
(***************************************************************************)
EXTENDS Ftp, SequenceTheorems, NaturalsInduction, FiniteSetTheorems, TLAPS

-----------------------------------------------------------------------------
(* Sequences, of whatever they are, and least numbers.                     *)

IsQueue(q) == Len(q) \in Nat /\ q = [i \in 1..Len(q) |-> q[i]]

\* A sequence over any set is a queue.
LEMMA SeqIsQueue ==
    ASSUME NEW S, NEW q \in Seq(S)
    PROVE  IsQueue(q)
<1>1. Len(q) \in Nat /\ q \in [1..Len(q) -> S]
  BY LenProperties
<1> QED
  BY <1>1 DEF IsQueue

\* A queue is a sequence over the set of its elements.
LEMMA QueueIsSeq ==
    ASSUME NEW q, IsQueue(q)
    PROVE  q \in Seq({q[i] : i \in 1..Len(q)}) /\ DOMAIN q = 1..Len(q)
<1> DEFINE S == {q[i] : i \in 1..Len(q)}
<1>1. q \in [1..Len(q) -> S] /\ Len(q) \in Nat
  BY DEF IsQueue
<1>2. q \in UNION {[1..n -> S] : n \in Nat}
  BY <1>1
<1>3. q \in Seq(S)
  BY <1>2, SeqDef
<1> QED
  BY <1>1, <1>3

\* Append, for a queue of whatever it is.
LEMMA AppendIs ==
    ASSUME NEW q, IsQueue(q), NEW x
    PROVE  LET r == Append(q, x) IN
           /\ IsQueue(r) /\ Len(r) = Len(q) + 1 /\ r[Len(q) + 1] = x
           /\ \A i \in 1..Len(q) : r[i] = q[i]
<1> DEFINE S == {q[i] : i \in 1..Len(q)} \cup {x}  r == Append(q, x)
<1>1. q \in Seq(S)
  <2>1. q \in Seq({q[i] : i \in 1..Len(q)})
    BY QueueIsSeq
  <2> QED
    BY <2>1, SeqMonotonic
<1>2. x \in S
  OBVIOUS
<1> HIDE DEF S
<1>3. /\ r \in Seq(S) /\ Len(r) = Len(q) + 1 /\ r[Len(q) + 1] = x
      /\ \A i \in 1..Len(q) : r[i] = q[i]
  BY <1>1, <1>2, AppendProperties
<1> QED
  BY <1>3, SeqIsQueue

\* Concatenation, for queues.
LEMMA CatIs ==
    ASSUME NEW q, IsQueue(q), NEW p, IsQueue(p), NEW r, r = q \o p
    PROVE  /\ IsQueue(r) /\ Len(r) = Len(q) + Len(p)
           /\ \A i \in 1..Len(q) : r[i] = q[i]
           /\ \A i \in 1..Len(p) : r[Len(q) + i] = p[i]
<1> DEFINE S == {q[i] : i \in 1..Len(q)} \cup {p[i] : i \in 1..Len(p)}
<1>1. q \in Seq(S) /\ p \in Seq(S)
  <2>1. q \in Seq({q[i] : i \in 1..Len(q)}) /\ p \in Seq({p[i] : i \in 1..Len(p)})
    BY QueueIsSeq
  <2> QED
    BY <2>1, SeqMonotonic
<1> HIDE DEF S
<1>2. Len(q) \in Nat /\ Len(p) \in Nat
  BY DEF IsQueue
<1>3. /\ r \in Seq(S) /\ Len(r) = Len(q) + Len(p)
      /\ \A i \in 1 .. Len(q) + Len(p) : r[i] = IF i <= Len(q) THEN q[i] ELSE p[i - Len(q)]
  BY <1>1, ConcatProperties
<1>4. IsQueue(r)
  BY <1>3, SeqIsQueue
<1>5. \A i \in 1..Len(q) : r[i] = q[i]
  BY <1>2, <1>3
<1>6. \A i \in 1..Len(p) : r[Len(q) + i] = p[i]
  <2> SUFFICES ASSUME NEW i \in 1..Len(p) PROVE r[Len(q) + i] = p[i]
    OBVIOUS
  <2>1. Len(q) + i \in 1..Len(q) + Len(p) /\ ~(Len(q) + i <= Len(q)) /\ (Len(q) + i) - Len(q) = i
    BY <1>2
  <2> QED
    BY <2>1, <1>3
<1> QED
  BY <1>3, <1>4, <1>5, <1>6

\* SubSeq, for queues.
LEMMA SubIs ==
    ASSUME NEW q, IsQueue(q), NEW m \in Nat \ {0}, NEW n \in Nat, n <= Len(q)
    PROVE  LET r == SubSeq(q, m, n) IN
           /\ IsQueue(r) /\ Len(r) = IF m <= n THEN n - m + 1 ELSE 0
           /\ \A i \in 1..Len(r) : r[i] = q[m + i - 1]
<1> DEFINE S == {q[i] : i \in 1..Len(q)}  r == SubSeq(q, m, n)
<1>1. Len(q) \in Nat
  BY DEF IsQueue
<1>2. \A i \in m..n : q[i] \in S
  BY <1>1
<1> HIDE DEF S
<1>3. /\ r \in Seq(S) /\ Len(r) = (IF m <= n THEN n - m + 1 ELSE 0)
      /\ \A i \in 1 .. n - m + 1 : r[i] = q[m + i - 1]
  BY <1>2, SubSeqProperties
<1>4. IsQueue(r)
  BY <1>3, SeqIsQueue
<1>6. \A i \in 1..Len(r) : r[i] = q[m + i - 1]
  <2> HIDE DEF r
  <2> QED
    BY <1>3
<1> QED
  BY <1>3, <1>4, <1>6

\* Tail and Head of a queue that is not empty.
LEMMA TailIs ==
    ASSUME NEW q, IsQueue(q), q # <<>>
    PROVE  /\ IsQueue(Tail(q)) /\ Len(q) >= 1 /\ Len(Tail(q)) = Len(q) - 1 /\ Head(q) = q[1]
           /\ \A i \in 1..Len(Tail(q)) : Tail(q)[i] = q[i + 1]
<1> DEFINE S == {q[i] : i \in 1..Len(q)}
<1>1. q \in Seq(S)
  BY QueueIsSeq
<1> HIDE DEF S
<1>2. /\ Tail(q) \in Seq(S) /\ Len(Tail(q)) = Len(q) - 1
      /\ \A i \in 1 .. Len(Tail(q)) : Tail(q)[i] = q[i + 1]
  BY <1>1, HeadTailProperties
<1>3. Len(q) \in Nat \ {0}
  BY <1>1, EmptySeq
<1>4. IsQueue(Tail(q))
  BY <1>2, SeqIsQueue
<1> QED
  BY <1>2, <1>3, <1>4

\* The empty queue is the only one of length 0.
LEMMA NoneIs == IsQueue(<<>>) /\ Len(<<>>) = 0 /\ \A q : IsQueue(q) => (Len(q) = 0 <=> q = <<>>)
<1>1. <<>> \in Seq({}) /\ Len(<<>>) = 0
  BY EmptySeq
<1>2. ASSUME NEW q, IsQueue(q), q # <<>> PROVE Len(q) # 0
  BY <1>2, TailIs DEF IsQueue
<1> QED
  BY <1>1, <1>2, SeqIsQueue

\* A queue of one element.
LEMMA OneIs == \A x : IsQueue(<<x>>) /\ Len(<<x>>) = 1 /\ <<x>>[1] = x
<1> TAKE x
<1>1. <<x>> \in Seq({x})
  OBVIOUS
<1> QED
  BY <1>1, SeqIsQueue

Below == {p \in Nat \X Nat : p[1] < p[2]}

\* A set of numbers that is not empty has a least one.
LEMMA Least ==
    ASSUME NEW S \in SUBSET Nat, S # {}
    PROVE  \E m \in S : \A x \in S : m <= x
<1>1. IsWellFoundedOn(Below, Nat)
  BY NatLessThanWellFounded DEF OpToRel, Below
<1>2. \E m \in S : \A y \in S : ~ (<<y, m>> \in Below)
  BY <1>1, WFMin
<1>3. \A x, y \in S : ~ (<<y, x>> \in Below) => x <= y
  BY DEF Below
<1> QED
  BY <1>2, <1>3

-----------------------------------------------------------------------------
(* The inductive invariant.                                                *)

States == {"INITIAL", "CONNECTING", "CONNECTED", "EOF", "CWD", "PASV", "W150", "DATA", "WAITING"}

\* An expectation, a queue of them, and the parts of a connection and a session that matter.
Expectation(e) == DOMAIN e = DOMAIN Exp("READY") /\ e.kind \in ExpectKinds /\ IsQueue(e.arg)
Expects(q) == IsQueue(q) /\ \A i \in 1..Len(q) : Expectation(q[i])
IsConn(c) ==
    /\ DOMAIN c = DOMAIN NewConn /\ c.on = TRUE
    /\ Expects(c.expect) /\ IsQueue(c.unsent) /\ IsQueue(c.inq) /\ IsQueue(c.out) /\ c.sync_wait \in Int
    /\ DOMAIN c.xfer = DOMAIN NoXfer /\ (c.xfer # NoXfer => c.xfer.op \in Transfers)
IsSession(f) ==
    /\ DOMAIN f = DOMAIN IdleSession(TRUE)
    /\ f.state \in States /\ f.pasv \in {"none", "have", "connecting"}
    /\ IsQueue(f.cwd) /\ IsQueue(f.file) /\ IsQueue(f.rcwd)
World(w) == DOMAIN w = {"f", "c"} /\ IsSession(w.f) /\ (IsConn(w.c) \/ w.c = NoConn)

Matched(e, c, q, n) == c.net = "up" => Lined(e, c.sync_wait, c.xfer, c.inq, c.unsent, q, n)

\* A connection that is not yet established
Fresh(c) == c.sync_wait = 1 /\ c.unsent = <<>> /\ c.inq = <<>> /\ c.out = <<>> /\ c.xfer = NoXfer

Settled(w, q, n) ==
    /\ World(w) /\ w.f.state # "CONNECTING"
    /\ w.c.on => w.c.net # "syn" /\ Matched(w.c.expect, w.c, q, n)
Connecting(w) ==
    /\ ~w.c.quit /\ w.f.error = "OK" /\ ~w.f.eof /\ w.f.mode # "CLOSED"
    /\ w.c.net = "syn" => Fresh(w.c)
    /\ w.c.net # "syn" => Matched(<<Exp("READY")>>, w.c, w.c.out, 0)
Good(w) ==
    /\ World(w)
    /\ w.c.on => IF w.f.state = "CONNECTING" THEN Connecting(w)
                 ELSE w.c.net # "syn" /\ Matched(w.c.expect, w.c, w.c.out, 0)

IInv ==
    /\ DOMAIN ses = Sessions /\ DOMAIN conn = Sessions
    /\ \A s \in Sessions : Good(W(s))

-----------------------------------------------------------------------------
(* Counting replies.                                                       *)

\* How Counted changes when a reply is added at the end, or one is left off at the front.
LEMMA CountedIs ==
    ASSUME NEW q, NEW n \in Nat
    PROVE  /\ Counted(q, n, n) = 0
           /\ \A k \in Nat : k >= n =>
                /\ Counted(q, n, k) \in Nat
                /\ Final(q[k + 1]) => Counted(q, n, k + 1) = Counted(q, n, k) + 1
                /\ ~Final(q[k + 1]) => Counted(q, n, k + 1) = Counted(q, n, k)
           /\ \A k \in Nat : k > n =>
                /\ Final(q[n + 1]) => Counted(q, n, k) = Counted(q, n + 1, k) + 1
                /\ ~Final(q[n + 1]) => Counted(q, n, k) = Counted(q, n + 1, k)
<1> DEFINE T(m, k) == {j \in (m + 1)..k : Final(q[j])}
<1>1. \A m, k \in Nat : IsFiniteSet(T(m, k))
  <2> SUFFICES ASSUME NEW m \in Nat, NEW k \in Nat PROVE IsFiniteSet(T(m, k))
    OBVIOUS
  <2>1. IsFiniteSet((m + 1)..k)
    BY FS_Interval
  <2> QED
    BY <2>1, FS_Subset
<1>2. T(n, n) = {}
  OBVIOUS
<1>3. Counted(q, n, n) = 0
  BY <1>2, FS_EmptySet DEF Counted
<1>4. ASSUME NEW k \in Nat, k >= n
      PROVE  /\ Counted(q, n, k) \in Nat
             /\ Final(q[k + 1]) => Counted(q, n, k + 1) = Counted(q, n, k) + 1
             /\ ~Final(q[k + 1]) => Counted(q, n, k + 1) = Counted(q, n, k)
  <2>1. T(n, k + 1) = IF Final(q[k + 1]) THEN T(n, k) \cup {k + 1} ELSE T(n, k)
    BY <1>4
  <2>2. k + 1 \notin T(n, k)
    OBVIOUS
  <2>3. IsFiniteSet(T(n, k)) /\ Cardinality(T(n, k)) \in Nat
    BY <1>1, FS_CardinalityType
  <2>4. Cardinality(T(n, k) \cup {k + 1}) = Cardinality(T(n, k)) + 1
    BY <2>2, <2>3, FS_AddElement
  <2> HIDE DEF T
  <2>5. /\ Final(q[k + 1]) => Cardinality(T(n, k + 1)) = Cardinality(T(n, k)) + 1
        /\ ~Final(q[k + 1]) => Cardinality(T(n, k + 1)) = Cardinality(T(n, k))
    BY <2>1, <2>4, Zenon
  <2> QED
    BY <2>3, <2>5, Zenon DEF Counted, T
<1>5. ASSUME NEW k \in Nat, k > n
      PROVE  /\ Final(q[n + 1]) => Counted(q, n, k) = Counted(q, n + 1, k) + 1
             /\ ~Final(q[n + 1]) => Counted(q, n, k) = Counted(q, n + 1, k)
  <2>1. T(n, k) = IF Final(q[n + 1]) THEN T(n + 1, k) \cup {n + 1} ELSE T(n + 1, k)
    BY <1>5
  <2>2. n + 1 \notin T(n + 1, k)
    OBVIOUS
  <2>3. IsFiniteSet(T(n + 1, k))
    <3>1. n + 1 \in Nat
      OBVIOUS
    <3> QED
      BY <1>1, <3>1
  <2>4. Cardinality(T(n + 1, k) \cup {n + 1}) = Cardinality(T(n + 1, k)) + 1
    BY <2>2, <2>3, FS_AddElement
  <2> HIDE DEF T
  <2>5. /\ Final(q[n + 1]) => Cardinality(T(n, k)) = Cardinality(T(n + 1, k)) + 1
        /\ ~Final(q[n + 1]) => Cardinality(T(n, k)) = Cardinality(T(n + 1, k))
    BY <2>1, <2>4, Zenon
  <2> QED
    BY <2>5, Zenon DEF Counted, T
<1> QED
  BY <1>3, <1>4, <1>5, Zenon

\* The final replies up to the j-th, if that is final, are at least one and at most those up to the k-th.
LEMMA CountedUpTo ==
    ASSUME NEW q, NEW n \in Nat, NEW k \in Nat
    PROVE  /\ Counted(q, n, k) \in Nat /\ (k <= n => Counted(q, n, k) = 0)
           /\ \A j \in (n + 1)..k : Final(q[j]) => Counted(q, n, j) \in 1..Counted(q, n, k)
<1> DEFINE T(m) == {j \in (n + 1)..m : Final(q[j])}
<1>1. \A m \in Nat : IsFiniteSet(T(m))
  <2> SUFFICES ASSUME NEW m \in Nat PROVE IsFiniteSet(T(m))
    OBVIOUS
  <2>1. IsFiniteSet((n + 1)..m)
    BY FS_Interval
  <2> QED
    BY <2>1, FS_Subset
<1>2. \A m \in Nat : Counted(q, n, m) = Cardinality(T(m)) /\ Cardinality(T(m)) \in Nat
  BY <1>1, FS_CardinalityType DEF Counted
<1>3. k <= n => T(k) = {}
  OBVIOUS
<1>4. k <= n => Counted(q, n, k) = 0
  BY <1>2, <1>3, FS_EmptySet
<1>5. ASSUME NEW j \in (n + 1)..k, Final(q[j]) PROVE Counted(q, n, j) \in 1..Counted(q, n, k)
  <2>1. j \in Nat /\ T(j) \subseteq T(k) /\ j \in T(j)
    BY <1>5
  <2>2. IsFiniteSet(T(j)) /\ IsFiniteSet(T(k))
    BY <1>1, <2>1
  <2>3. Cardinality(T(j)) <= Cardinality(T(k))
    BY <2>1, <2>2, FS_Subset
  <2>4. Cardinality(T(j)) # 0
    BY <2>1, <2>2, FS_EmptySet
  <2>5. Cardinality(T(j)) \in Nat /\ Cardinality(T(k)) \in Nat
    BY <1>2, <2>1
  <2> HIDE DEF T
  <2> QED
    BY <1>2, <2>1, <2>3, <2>4, <2>5
<1> QED
  BY <1>2, <1>4, <1>5

-----------------------------------------------------------------------------
(* What keeps the expectations those of what is outstanding.               *)

\* The places in the queue of expectations of the replies on their way and of the transfer.
LEMMA Places ==
    ASSUME NEW x, NEW q, IsQueue(q), NEW n \in Nat
    PROVE  LET m == Counted(q, n, Len(q)) + Busy(x) IN
           /\ m \in Nat /\ Busy(x) \in {0, 1} /\ (x # NoXfer => m >= 1)
           /\ \A j \in (n + 1)..Len(q) : Final(q[j]) => Counted(q, n, j) \in 1..m
<1>1. Len(q) \in Nat
  BY DEF IsQueue
<1>2. /\ Counted(q, n, Len(q)) \in Nat
      /\ \A j \in (n + 1)..Len(q) : Final(q[j]) => Counted(q, n, j) \in 1..Counted(q, n, Len(q))
  BY <1>1, CountedUpTo
<1>3. Busy(x) \in {0, 1} /\ (x # NoXfer => Busy(x) = 1)
  BY DEF Busy
<1> QED
  BY <1>1, <1>2, <1>3

\* Each of them is expected; g may expect the same or less particular things.
LEMMA LinedStale ==
    ASSUME NEW e, NEW wait, NEW x, NEW I, IsQueue(I), NEW U, IsQueue(U), NEW q, IsQueue(q), NEW n \in Nat,
           Lined(e, wait, x, I, U, q, n),
           NEW g, Len(g) = Len(e), \A i \in 1..Len(e) : Answers(e[i].kind) \subseteq Answers(g[i].kind)
    PROVE  Lined(g, wait, x, I, U, q, n)
<1> DEFINE m == Counted(q, n, Len(q)) + Busy(x)
<1>1. /\ m \in Nat /\ (x # NoXfer => m >= 1) /\ Len(I) \in Nat /\ Len(U) \in Nat
      /\ \A j \in (n + 1)..Len(q) : Final(q[j]) => Counted(q, n, j) \in 1..m
  BY Places DEF IsQueue
<1>2. /\ wait = m + Len(I) /\ Len(e) = m + Len(I) + Len(U)
      /\ \A j \in (n + 1)..Len(q) : Final(q[j]) => q[j].op \in Answers(e[Counted(q, n, j)].kind)
      /\ x # NoXfer => x.op \in Answers(e[m].kind)
      /\ \A j \in 1..Len(I) : I[j].op \in Answers(e[m + j].kind)
      /\ \A j \in 1..Len(U) : U[j].op \in Answers(e[m + Len(I) + j].kind)
  BY DEF Lined
<1> HIDE DEF m
<1>3. \A j \in (n + 1)..Len(q) : Final(q[j]) => q[j].op \in Answers(g[Counted(q, n, j)].kind)
  <2> SUFFICES ASSUME NEW j \in (n + 1)..Len(q), Final(q[j]) PROVE q[j].op \in Answers(g[Counted(q, n, j)].kind)
    OBVIOUS
  <2>1. Counted(q, n, j) \in 1..Len(e)
    BY <1>1, <1>2
  <2>2. q[j].op \in Answers(e[Counted(q, n, j)].kind)
    BY <1>2
  <2> QED
    BY <2>1, <2>2
<1>4. x # NoXfer => x.op \in Answers(g[m].kind)
  <2> SUFFICES ASSUME x # NoXfer PROVE x.op \in Answers(g[m].kind)
    OBVIOUS
  <2>1. m \in 1..Len(e)
    BY <1>1, <1>2
  <2> QED
    BY <2>1, <1>2
<1>5. \A j \in 1..Len(I) : I[j].op \in Answers(g[m + j].kind)
  <2> SUFFICES ASSUME NEW j \in 1..Len(I) PROVE I[j].op \in Answers(g[m + j].kind)
    OBVIOUS
  <2>1. m + j \in 1..Len(e)
    BY <1>1, <1>2
  <2> QED
    BY <2>1, <1>2
<1>6. \A j \in 1..Len(U) : U[j].op \in Answers(g[m + Len(I) + j].kind)
  <2> SUFFICES ASSUME NEW j \in 1..Len(U) PROVE U[j].op \in Answers(g[m + Len(I) + j].kind)
    OBVIOUS
  <2>1. m + Len(I) + j \in 1..Len(e)
    BY <1>1, <1>2
  <2> QED
    BY <2>1, <1>2
<1> QED
  BY <1>2, <1>3, <1>4, <1>5, <1>6 DEF Lined, m

\* Commands are queued with what is expected of each.
LEMMA LinedMore ==
    ASSUME NEW e, IsQueue(e), NEW wait, NEW x, NEW I, IsQueue(I), NEW U, IsQueue(U), NEW q, IsQueue(q), NEW n \in Nat,
           Lined(e, wait, x, I, U, q, n),
           NEW g, IsQueue(g), NEW V, IsQueue(V), Len(g) = Len(V), \A i \in 1..Len(g) : V[i].op \in Answers(g[i].kind)
    PROVE  Lined(e \o g, wait, x, I, U \o V, q, n)
<1> DEFINE m == Counted(q, n, Len(q)) + Busy(x)  d == e \o g  X == U \o V
<1>1. /\ m \in Nat /\ (x # NoXfer => m >= 1) /\ Len(I) \in Nat /\ Len(U) \in Nat /\ Len(g) \in Nat /\ Len(V) \in Nat
      /\ \A j \in (n + 1)..Len(q) : Final(q[j]) => Counted(q, n, j) \in 1..m
  BY Places DEF IsQueue
<1>2. /\ wait = m + Len(I) /\ Len(e) = m + Len(I) + Len(U)
      /\ \A j \in (n + 1)..Len(q) : Final(q[j]) => q[j].op \in Answers(e[Counted(q, n, j)].kind)
      /\ x # NoXfer => x.op \in Answers(e[m].kind)
      /\ \A j \in 1..Len(I) : I[j].op \in Answers(e[m + j].kind)
      /\ \A j \in 1..Len(U) : U[j].op \in Answers(e[m + Len(I) + j].kind)
  BY DEF Lined
<1>21. d = e \o g /\ X = U \o V
  OBVIOUS
<1> HIDE DEF m, d, X
<1>3. /\ Len(d) = Len(e) + Len(g) /\ \A i \in 1..Len(e) : d[i] = e[i]
      /\ \A i \in 1..Len(g) : d[Len(e) + i] = g[i]
  BY <1>21, CatIs
<1>4. /\ Len(X) = Len(U) + Len(V) /\ \A i \in 1..Len(U) : X[i] = U[i]
      /\ \A i \in 1..Len(V) : X[Len(U) + i] = V[i]
  BY <1>21, CatIs
<1>5. \A j \in (n + 1)..Len(q) : Final(q[j]) => q[j].op \in Answers(d[Counted(q, n, j)].kind)
  <2> SUFFICES ASSUME NEW j \in (n + 1)..Len(q), Final(q[j]) PROVE q[j].op \in Answers(d[Counted(q, n, j)].kind)
    OBVIOUS
  <2>1. Counted(q, n, j) \in 1..Len(e)
    BY <1>1, <1>2
  <2>2. q[j].op \in Answers(e[Counted(q, n, j)].kind)
    BY <1>2
  <2> QED
    BY <2>1, <2>2, <1>3
<1>6. x # NoXfer => x.op \in Answers(d[m].kind)
  <2> SUFFICES ASSUME x # NoXfer PROVE x.op \in Answers(d[m].kind)
    OBVIOUS
  <2>1. m \in 1..Len(e)
    BY <1>1, <1>2
  <2> QED
    BY <2>1, <1>2, <1>3
<1>7. \A j \in 1..Len(I) : I[j].op \in Answers(d[m + j].kind)
  <2> SUFFICES ASSUME NEW j \in 1..Len(I) PROVE I[j].op \in Answers(d[m + j].kind)
    OBVIOUS
  <2>1. m + j \in 1..Len(e)
    BY <1>1, <1>2
  <2> QED
    BY <2>1, <1>2, <1>3
<1>8. \A j \in 1..Len(X) : X[j].op \in Answers(d[m + Len(I) + j].kind)
  <2> SUFFICES ASSUME NEW j \in 1..Len(X) PROVE X[j].op \in Answers(d[m + Len(I) + j].kind)
    OBVIOUS
  <2>1. CASE j <= Len(U)
    <3>1. m + Len(I) + j \in 1..Len(e) /\ j \in 1..Len(U)
      BY <2>1, <1>1, <1>2, <1>4
    <3> QED
      BY <3>1, <1>2, <1>3, <1>4
  <2>2. CASE j > Len(U)
    <3> DEFINE i == j - Len(U)
    <3>1. i \in 1..Len(g) /\ j = Len(U) + i /\ m + Len(I) + j = Len(e) + i
      BY <2>2, <1>1, <1>2, <1>4
    <3> HIDE DEF i
    <3>2. X[j] = V[i] /\ d[m + Len(I) + j] = g[i]
      BY <3>1, <1>3, <1>4
    <3> QED
      BY <3>1, <3>2
  <2> QED
    BY <2>1, <2>2, <1>1, <1>4
<1>9. Len(d) = m + Len(I) + Len(X)
  BY <1>1, <1>2, <1>3, <1>4
<1> QED
  BY <1>2, <1>5, <1>6, <1>7, <1>8, <1>9 DEF Lined, m, d, X

\* Commands are sent.
LEMMA LinedFlush ==
    ASSUME NEW e, NEW wait, NEW x, NEW I, IsQueue(I), NEW U, IsQueue(U), NEW q, IsQueue(q), NEW n \in Nat,
           Lined(e, wait, x, I, U, q, n), NEW k \in 0..Len(U)
    PROVE  Lined(e, wait + k, x, I \o SubSeq(U, 1, k), SubSeq(U, k + 1, Len(U)), q, n)
<1> DEFINE m == Counted(q, n, Len(q)) + Busy(x)  S == SubSeq(U, 1, k)  J == I \o S  V == SubSeq(U, k + 1, Len(U))
<1>1. m \in Nat /\ Len(I) \in Nat /\ Len(U) \in Nat /\ k \in Nat /\ k <= Len(U)
  BY Places DEF IsQueue
<1>2. /\ wait = m + Len(I) /\ Len(e) = m + Len(I) + Len(U)
      /\ \A j \in (n + 1)..Len(q) : Final(q[j]) => q[j].op \in Answers(e[Counted(q, n, j)].kind)
      /\ x # NoXfer => x.op \in Answers(e[m].kind)
      /\ \A j \in 1..Len(I) : I[j].op \in Answers(e[m + j].kind)
      /\ \A j \in 1..Len(U) : U[j].op \in Answers(e[m + Len(I) + j].kind)
  BY DEF Lined
<1>3. IsQueue(S) /\ Len(S) = k /\ \A i \in 1..k : S[i] = U[i]
  <2>1. /\ IsQueue(S) /\ Len(S) = IF 1 <= k THEN k - 1 + 1 ELSE 0
        /\ \A i \in 1..Len(S) : S[i] = U[1 + i - 1]
    BY <1>1, SubIs
  <2> HIDE DEF S
  <2>2. Len(S) = k
    BY <2>1, <1>1
  <2> QED
    BY <2>1, <2>2
<1>4. Len(V) = Len(U) - k /\ \A i \in 1..Len(V) : V[i] = U[k + i]
  <2>1. /\ Len(V) = IF k + 1 <= Len(U) THEN Len(U) - (k + 1) + 1 ELSE 0
        /\ \A i \in 1..Len(V) : V[i] = U[(k + 1) + i - 1]
    <3>1. k + 1 \in Nat \ {0}
      BY <1>1
    <3> QED
      BY <3>1, <1>1, SubIs
  <2> HIDE DEF V
  <2>2. Len(V) = Len(U) - k
    BY <2>1, <1>1
  <2> QED
    BY <2>1, <2>2, <1>1
<1>31. J = I \o S
  OBVIOUS
<1> HIDE DEF S, J
<1>5. Len(J) = Len(I) + Len(S) /\ (\A i \in 1..Len(I) : J[i] = I[i]) /\ \A i \in 1..Len(S) : J[Len(I) + i] = S[i]
  BY <1>3, <1>31, CatIs
<1> HIDE DEF m, V
<1>6. \A j \in 1..Len(J) : J[j].op \in Answers(e[m + j].kind)
  <2> SUFFICES ASSUME NEW j \in 1..Len(J) PROVE J[j].op \in Answers(e[m + j].kind)
    OBVIOUS
  <2>1. CASE j <= Len(I)
    BY <2>1, <1>1, <1>2, <1>5
  <2>2. CASE j > Len(I)
    <3> DEFINE i == j - Len(I)
    <3>1. i \in 1..k /\ i \in 1..Len(U) /\ j = Len(I) + i /\ m + j = m + Len(I) + i
      BY <2>2, <1>1, <1>3, <1>5
    <3> HIDE DEF i
    <3>2. J[j] = U[i]
      BY <3>1, <1>3, <1>5
    <3> QED
      BY <3>1, <3>2, <1>2
  <2> QED
    BY <2>1, <2>2, <1>1, <1>3, <1>5
<1>7. \A j \in 1..Len(V) : V[j].op \in Answers(e[m + Len(J) + j].kind)
  <2> SUFFICES ASSUME NEW j \in 1..Len(V) PROVE V[j].op \in Answers(e[m + Len(J) + j].kind)
    OBVIOUS
  <2>1. k + j \in 1..Len(U) /\ m + Len(J) + j = m + Len(I) + (k + j)
    BY <1>1, <1>3, <1>4, <1>5
  <2> QED
    BY <2>1, <1>2, <1>4
<1>8. wait + k = m + Len(J) /\ Len(e) = m + Len(J) + Len(V)
  BY <1>1, <1>2, <1>3, <1>4, <1>5
<1> QED
  BY <1>2, <1>6, <1>7, <1>8 DEF Lined, m, J, V, S

\* A final reply is handled.
LEMMA LinedReply ==
    ASSUME NEW e, IsQueue(e), NEW wait, NEW x, NEW I, IsQueue(I), NEW U, IsQueue(U), NEW q, IsQueue(q), NEW n \in Nat,
           Lined(e, wait, x, I, U, q, n), n < Len(q), Final(q[n + 1])
    PROVE  e # <<>> /\ wait > 0 /\ Lined(Tail(e), wait - 1, x, I, U, q, n + 1)
<1> DEFINE m == Counted(q, n, Len(q)) + Busy(x)  l == Counted(q, n + 1, Len(q)) + Busy(x)  d == Tail(e)
<1>1. /\ m \in Nat /\ Len(I) \in Nat /\ Len(U) \in Nat /\ Len(q) \in Nat
  BY Places DEF IsQueue
<1>2. /\ wait = m + Len(I) /\ Len(e) = m + Len(I) + Len(U)
      /\ \A j \in (n + 1)..Len(q) : Final(q[j]) => q[j].op \in Answers(e[Counted(q, n, j)].kind)
      /\ x # NoXfer => x.op \in Answers(e[m].kind)
      /\ \A j \in 1..Len(I) : I[j].op \in Answers(e[m + j].kind)
      /\ \A j \in 1..Len(U) : U[j].op \in Answers(e[m + Len(I) + j].kind)
  BY DEF Lined
<1>3. /\ l \in Nat /\ (x # NoXfer => l >= 1)
      /\ \A j \in (n + 1 + 1)..Len(q) : Final(q[j]) => Counted(q, n + 1, j) \in 1..l
  <2>1. n + 1 \in Nat
    OBVIOUS
  <2> QED
    BY <2>1, Places
<1>5. \A k \in Nat : k > n => Counted(q, n, k) = Counted(q, n + 1, k) + 1
  BY CountedIs, Zenon
<1>6. m = 1 + l
  <2>1. Counted(q, n, Len(q)) = Counted(q, n + 1, Len(q)) + 1
    BY <1>1, <1>5
  <2>2. Counted(q, n + 1, Len(q)) \in Nat /\ Busy(x) \in {0, 1}
    <3>1. n + 1 \in Nat
      OBVIOUS
    <3> QED
      BY <3>1, <1>1, CountedUpTo, Places
  <2> QED
    BY <2>1, <2>2
<1> HIDE DEF m, l
<1>7. e # <<>>
  <2>1. Len(e) # 0
    BY <1>1, <1>2, <1>3, <1>6
  <2> QED
    BY <2>1, NoneIs
<1>8. Len(d) = Len(e) - 1 /\ \A i \in 1..Len(d) : d[i] = e[i + 1]
  BY <1>7, TailIs
<1> HIDE DEF d
<1>9. Len(e) \in Nat /\ Len(d) \in Nat /\ Len(d) = l + Len(I) + Len(U)
  BY <1>1, <1>2, <1>3, <1>6, <1>8
<1>10. \A i \in 1..Len(d) : d[i].kind = e[i + 1].kind
  BY <1>8
<1>11. \A j \in (n + 1 + 1)..Len(q) : Final(q[j]) => q[j].op \in Answers(d[Counted(q, n + 1, j)].kind)
  <2> SUFFICES ASSUME NEW j \in (n + 1 + 1)..Len(q), Final(q[j])
               PROVE  q[j].op \in Answers(d[Counted(q, n + 1, j)].kind)
    OBVIOUS
  <2> DEFINE i == Counted(q, n + 1, j)
  <2>1. j \in (n + 1)..Len(q) /\ j \in Nat /\ j > n
    BY <1>1
  <2>2. i \in 1..l
    BY <1>3
  <2>3. Counted(q, n, j) = i + 1
    BY <2>1, <1>5
  <2> HIDE DEF i
  <2>4. i \in 1..Len(d)
    BY <2>2, <1>1, <1>3, <1>9
  <2>5. q[j].op \in Answers(e[i + 1].kind)
    BY <2>1, <2>3, <1>2
  <2>6. d[i].kind = e[i + 1].kind
    BY <2>4, <1>10
  <2> QED
    BY <2>5, <2>6 DEF i
<1>12. x # NoXfer => x.op \in Answers(d[l].kind)
  <2> SUFFICES ASSUME x # NoXfer PROVE x.op \in Answers(d[l].kind)
    OBVIOUS
  <2>1. l \in 1..Len(d) /\ m = l + 1
    BY <1>1, <1>3, <1>6, <1>9
  <2> QED
    BY <2>1, <1>2, <1>10
<1>13. \A j \in 1..Len(I) : I[j].op \in Answers(d[l + j].kind)
  <2> SUFFICES ASSUME NEW j \in 1..Len(I) PROVE I[j].op \in Answers(d[l + j].kind)
    OBVIOUS
  <2>1. l + j \in 1..Len(d) /\ m + j = (l + j) + 1
    BY <1>1, <1>3, <1>6, <1>9
  <2> QED
    BY <2>1, <1>2, <1>10
<1>14. \A j \in 1..Len(U) : U[j].op \in Answers(d[l + Len(I) + j].kind)
  <2> SUFFICES ASSUME NEW j \in 1..Len(U) PROVE U[j].op \in Answers(d[l + Len(I) + j].kind)
    OBVIOUS
  <2>1. l + Len(I) + j \in 1..Len(d) /\ m + Len(I) + j = (l + Len(I) + j) + 1
    BY <1>1, <1>3, <1>6, <1>9
  <2> QED
    BY <2>1, <1>2, <1>10
<1>15. wait > 0 /\ wait - 1 = l + Len(I)
  BY <1>1, <1>2, <1>3, <1>6
<1> QED
  BY <1>7, <1>9, <1>11, <1>12, <1>13, <1>14, <1>15 DEF Lined, l, d

\* A preliminary one is.
LEMMA LinedSkip ==
    ASSUME NEW e, NEW wait, NEW x, NEW I, IsQueue(I), NEW U, IsQueue(U), NEW q, IsQueue(q), NEW n \in Nat,
           Lined(e, wait, x, I, U, q, n), n < Len(q), ~Final(q[n + 1])
    PROVE  Lined(e, wait, x, I, U, q, n + 1)
<1>1. Len(q) \in Nat
  BY DEF IsQueue
<1>3. \A k \in Nat : k > n => Counted(q, n, k) = Counted(q, n + 1, k)
  BY CountedIs, Zenon
<1>4. Counted(q, n, Len(q)) = Counted(q, n + 1, Len(q))
  BY <1>1, <1>3
<1>5. \A j \in (n + 1 + 1)..Len(q) : Final(q[j]) => q[j].op \in Answers(e[Counted(q, n + 1, j)].kind)
  <2> SUFFICES ASSUME NEW j \in (n + 1 + 1)..Len(q), Final(q[j])
               PROVE  q[j].op \in Answers(e[Counted(q, n + 1, j)].kind)
    OBVIOUS
  <2>1. j \in (n + 1)..Len(q) /\ j \in Nat /\ j > n
    BY <1>1
  <2>2. Counted(q, n, j) = Counted(q, n + 1, j)
    BY <2>1, <1>3
  <2>3. q[j].op \in Answers(e[Counted(q, n, j)].kind)
    BY <2>1, Zenon DEF Lined
  <2> QED
    BY <2>2, <2>3
<1> QED
  BY <1>4, <1>5, Zenon DEF Lined

\* All of them are.
LEMMA LinedDone ==
    ASSUME NEW e, NEW wait, NEW x, NEW I, NEW U, NEW q, IsQueue(q), Lined(e, wait, x, I, U, q, Len(q))
    PROVE  Lined(e, wait, x, I, U, <<>>, 0)
<1>1. Len(q) \in Nat /\ Len(<<>>) = 0
  BY NoneIs DEF IsQueue
<1>2. Counted(q, Len(q), Len(q)) = 0 /\ Counted(<<>>, 0, Len(<<>>)) = 0
  BY <1>1, CountedIs
<1>3. \A j \in (0 + 1)..Len(<<>>) : FALSE
  BY <1>1
<1> QED
  BY <1>2, <1>3, Zenon DEF Lined

\* A reply has come.
LEMMA LinedAnswered ==
    ASSUME NEW e, NEW wait, NEW x, NEW I, IsQueue(I), NEW U, IsQueue(U), NEW q, IsQueue(q), NEW r,
           NEW y, NEW J, IsQueue(J),
           Lined(e, wait, x, I, U, q, 0),
           \/ ~Final(r) /\ y = x /\ J = I
           \/ ~Final(r) /\ x # NoXfer /\ y # NoXfer /\ y.op = x.op /\ J = I
           \/ Final(r) /\ x # NoXfer /\ y = NoXfer /\ r.op = x.op /\ J = I
           \/ Final(r) /\ x = NoXfer /\ y = NoXfer /\ I # <<>> /\ J = Tail(I) /\ r.op = Head(I).op
    PROVE  Lined(e, wait, y, J, U, Append(q, r), 0)
<1> DEFINE p == Append(q, r)
           k == Counted(q, 0, Len(q))  l == Counted(p, 0, Len(p))
           m == k + Busy(x)
<1>1. Len(q) \in Nat /\ Len(I) \in Nat /\ Len(J) \in Nat /\ Len(U) \in Nat
  BY DEF IsQueue
<1>2. Len(p) = Len(q) + 1 /\ p[Len(q) + 1] = r /\ \A i \in 1..Len(q) : p[i] = q[i]
  BY AppendIs
<1> HIDE DEF p
<1>3. /\ wait = m + Len(I) /\ Len(e) = m + Len(I) + Len(U)
      /\ \A j \in (0 + 1)..Len(q) : Final(q[j]) => q[j].op \in Answers(e[Counted(q, 0, j)].kind)
      /\ x # NoXfer => x.op \in Answers(e[m].kind)
      /\ \A j \in 1..Len(I) : I[j].op \in Answers(e[m + j].kind)
      /\ \A j \in 1..Len(U) : U[j].op \in Answers(e[m + Len(I) + j].kind)
  BY DEF Lined
<1>4. \A j \in 0..Len(q) : Counted(p, 0, j) = Counted(q, 0, j)
  <2> SUFFICES ASSUME NEW j \in 0..Len(q) PROVE Counted(p, 0, j) = Counted(q, 0, j)
    OBVIOUS
  <2>1. \A i \in (0 + 1)..j : p[i] = q[i]
    BY <1>1, <1>2
  <2>2. {i \in (0 + 1)..j : Final(p[i])} = {i \in (0 + 1)..j : Final(q[i])}
    BY <2>1
  <2> QED
    BY <2>2 DEF Counted
<1>5. k \in Nat /\ (Final(r) => l = k + 1) /\ (~Final(r) => l = k)
  <2>1. Len(q) \in Nat /\ Len(q) >= 0 /\ Len(q) \in 0..Len(q) /\ 0 \in Nat
    BY <1>1
  <2>2. Counted(p, 0, Len(q)) = k
    BY <2>1, <1>4
  <2>3. /\ Counted(p, 0, Len(q)) \in Nat
        /\ Final(p[Len(q) + 1]) => Counted(p, 0, Len(q) + 1) = Counted(p, 0, Len(q)) + 1
        /\ ~Final(p[Len(q) + 1]) => Counted(p, 0, Len(q) + 1) = Counted(p, 0, Len(q))
    BY <2>1, CountedIs, Zenon
  <2> HIDE DEF k
  <2>4. l = Counted(p, 0, Len(q) + 1)
    BY <1>2
  <2> QED
    BY <2>2, <2>3, <2>4, <1>2
<1>6. /\ x # NoXfer => Busy(x) = 1
      /\ x = NoXfer => Busy(x) = 0
      /\ y # NoXfer => Busy(y) = 1
      /\ y = NoXfer => Busy(y) = 0
  BY DEF Busy
<1> DEFINE o == l + Busy(y)
<1>7. m = k + Busy(x) /\ o = l + Busy(y)
  OBVIOUS
<1>8. \A j \in (0 + 1)..Len(p) : j # Len(q) + 1 /\ Final(p[j]) => p[j].op \in Answers(e[Counted(p, 0, j)].kind)
  <2> SUFFICES ASSUME NEW j \in (0 + 1)..Len(p), j # Len(q) + 1, Final(p[j])
               PROVE  p[j].op \in Answers(e[Counted(p, 0, j)].kind)
    OBVIOUS
  <2>1. j \in (0 + 1)..Len(q) /\ j \in 1..Len(q) /\ j \in 0..Len(q)
    BY <1>1, <1>2
  <2>2. p[j] = q[j] /\ Counted(p, 0, j) = Counted(q, 0, j)
    BY <2>1, <1>2, <1>4
  <2> QED
    BY <2>1, <2>2, <1>3
<1>9. Counted(p, 0, Len(q) + 1) = l
  BY <1>2
<1>13. SUFFICES /\ wait = o + Len(J) /\ Len(e) = o + Len(J) + Len(U)
                /\ \A j \in (0 + 1)..Len(p) : Final(p[j]) => p[j].op \in Answers(e[Counted(p, 0, j)].kind)
                /\ y # NoXfer => y.op \in Answers(e[o].kind)
                /\ \A j \in 1..Len(J) : J[j].op \in Answers(e[o + j].kind)
                /\ \A j \in 1..Len(U) : U[j].op \in Answers(e[o + Len(J) + j].kind)
  BY Zenon DEF Lined, p
<1> HIDE DEF m, k, l, o
<1>10. CASE ~Final(r)
  <2>1. J = I /\ Busy(y) = Busy(x) /\ (y # NoXfer => x # NoXfer /\ y.op = x.op)
    BY <1>10, <1>6
  <2>2. o = m
    BY <2>1, <1>10, <1>5, <1>7
  <2>3. \A j \in (0 + 1)..Len(p) : Final(p[j]) => p[j].op \in Answers(e[Counted(p, 0, j)].kind)
    BY <1>2, <1>8, <1>10
  <2>4. y # NoXfer => y.op \in Answers(e[m].kind)
    BY <2>1, <1>3
  <2> QED
    BY <2>1, <2>2, <2>3, <2>4, <1>3
<1>11. CASE Final(r) /\ x # NoXfer
  <2>1. J = I /\ y = NoXfer /\ r.op = x.op
    BY <1>11
  <2>2. o = m /\ l = m
    BY <2>1, <1>11, <1>5, <1>6, <1>7
  <2>3. r.op \in Answers(e[Counted(p, 0, Len(q) + 1)].kind)
    BY <2>1, <2>2, <1>3, <1>9, <1>11
  <2>4. \A j \in (0 + 1)..Len(p) : Final(p[j]) => p[j].op \in Answers(e[Counted(p, 0, j)].kind)
    BY <2>3, <1>2, <1>8
  <2> QED
    BY <2>1, <2>2, <2>4, <1>3
<1>12. CASE Final(r) /\ x = NoXfer
  <2>1. y = NoXfer /\ I # <<>> /\ J = Tail(I) /\ r.op = Head(I).op
    BY <1>12
  <2>2. Len(I) >= 1 /\ Len(J) = Len(I) - 1 /\ Head(I) = I[1] /\ \A i \in 1..Len(J) : J[i] = I[i + 1]
    BY <2>1, TailIs
  <2>3. o = m + 1 /\ l = m + 1 /\ m \in Nat
    BY <2>1, <1>12, <1>5, <1>6, <1>7
  <2>4. r.op \in Answers(e[Counted(p, 0, Len(q) + 1)].kind)
    <3>1. 1 \in 1..Len(I)
      BY <1>1, <2>2
    <3>2. I[1].op \in Answers(e[m + 1].kind)
      BY <3>1, <1>3
    <3> QED
      BY <3>2, <2>1, <2>2, <2>3, <1>9
  <2>5. \A j \in (0 + 1)..Len(p) : Final(p[j]) => p[j].op \in Answers(e[Counted(p, 0, j)].kind)
    BY <2>4, <1>2, <1>8
  <2>6. \A j \in 1..Len(J) : J[j].op \in Answers(e[o + j].kind)
    <3> SUFFICES ASSUME NEW j \in 1..Len(J) PROVE J[j].op \in Answers(e[o + j].kind)
      OBVIOUS
    <3>1. j + 1 \in 1..Len(I) /\ m + (j + 1) = o + j
      BY <1>1, <2>2, <2>3
    <3> QED
      BY <3>1, <2>2, <1>3
  <2>7. o + Len(J) = m + Len(I)
    BY <1>1, <2>2, <2>3
  <2> QED
    BY <2>1, <2>5, <2>6, <2>7, <1>3
<1> QED
  BY <1>10, <1>11, <1>12

\* A transfer has been taken up.
LEMMA LinedBegun ==
    ASSUME NEW e, NEW wait, NEW x, NEW I, IsQueue(I), NEW U, IsQueue(U), NEW q, IsQueue(q), NEW n \in Nat,
           Lined(e, wait, x, I, U, q, n), I # <<>>, x = NoXfer, NEW y, y # NoXfer, y.op = Head(I).op
    PROVE  Lined(e, wait, y, Tail(I), U, q, n)
<1> DEFINE k == Counted(q, n, Len(q))  m == k + Busy(x)  o == k + Busy(y)  J == Tail(I)
<1>1. Len(I) \in Nat /\ Len(U) \in Nat /\ m \in Nat
  BY Places DEF IsQueue
<1>2. Len(I) >= 1 /\ Len(J) = Len(I) - 1 /\ Head(I) = I[1] /\ Len(J) \in Nat /\ \A i \in 1..Len(J) : J[i] = I[i + 1]
  BY TailIs DEF IsQueue
<1>3. /\ wait = m + Len(I) /\ Len(e) = m + Len(I) + Len(U)
      /\ \A j \in (n + 1)..Len(q) : Final(q[j]) => q[j].op \in Answers(e[Counted(q, n, j)].kind)
      /\ \A j \in 1..Len(I) : I[j].op \in Answers(e[m + j].kind)
      /\ \A j \in 1..Len(U) : U[j].op \in Answers(e[m + Len(I) + j].kind)
  BY DEF Lined
<1>4. o = m + 1
  <2>1. Busy(x) = 0 /\ Busy(y) = 1
    BY DEF Busy
  <2>2. k \in Nat
    <3>1. Len(q) \in Nat
      BY DEF IsQueue
    <3> QED
      BY <3>1, CountedUpTo
  <2> QED
    BY <2>1, <2>2
<1> HIDE DEF m, o, J
<1>5. \A j \in 1..Len(J) : J[j].op \in Answers(e[o + j].kind)
  <2> SUFFICES ASSUME NEW j \in 1..Len(J) PROVE J[j].op \in Answers(e[o + j].kind)
    OBVIOUS
  <2>1. j + 1 \in 1..Len(I) /\ m + (j + 1) = o + j
    BY <1>1, <1>2, <1>4
  <2> QED
    BY <2>1, <1>2, <1>3
<1>6. o + Len(J) = m + Len(I)
  BY <1>1, <1>2, <1>4
<1>7. y.op \in Answers(e[o].kind)
  <2>1. 1 \in 1..Len(I)
    BY <1>1, <1>2
  <2> QED
    BY <2>1, <1>2, <1>3, <1>4
<1> QED
  BY <1>3, <1>5, <1>6, <1>7, Zenon DEF Lined, o, J

\* d is c, with the same replies and commands.
SameQueues(c, d) ==
    /\ DOMAIN d = DOMAIN c /\ d.on = c.on /\ d.expect = c.expect /\ d.sync_wait = c.sync_wait
    /\ d.unsent = c.unsent /\ d.inq = c.inq /\ d.out = c.out /\ d.xfer = c.xfer /\ d.net = c.net
\* What the client leaves alone
Kept(w, v) == v.c.on => w.c.on /\ v.c.out = w.c.out /\ v.c.net = w.c.net

\* A session without a connection is not on.
LEMMA NoConnIs == NoConn.on = FALSE
  BY DEF NoConn

\* A connection with the same queues is one.
LEMMA SameIsConn ==
    ASSUME NEW c, IsConn(c), NEW d, SameQueues(c, d)
    PROVE  IsConn(d)
  BY DEF IsConn, SameQueues

\* A change to neither the queues nor the state CONNECTING keeps a settled state so.
LEMMA Tweaked ==
    ASSUME NEW w, NEW q, NEW n, Settled(w, q, n), w.c.on,
           NEW v, DOMAIN v = {"f", "c"}, IsSession(v.f), v.f.state # "CONNECTING", SameQueues(w.c, v.c)
    PROVE  Settled(v, q, n) /\ Kept(w, v) /\ v.c.on
<1>1. IsConn(w.c)
  BY NoConnIs DEF Settled, World
<1>2. IsConn(v.c)
  BY <1>1, SameIsConn
<1>3. Matched(w.c.expect, w.c, q, n) /\ w.c.net # "syn"
  BY DEF Settled
<1>4. Matched(v.c.expect, v.c, q, n) /\ v.c.net # "syn"
  BY <1>3, Zenon DEF Matched, SameQueues
<1> QED
  BY <1>2, <1>4, Zenon DEF Settled, World, Kept, SameQueues

\* A state without a connection is settled.
LEMMA Gone ==
    ASSUME NEW w, NEW v, DOMAIN v = {"f", "c"}, IsSession(v.f), v.f.state # "CONNECTING", v.c = NoConn, NEW q, NEW n
    PROVE  Settled(v, q, n) /\ Kept(w, v) /\ ~v.c.on
  BY NoConnIs DEF Settled, World, Kept

\* To append is to concatenate a queue of one.
LEMMA AppendCat ==
    ASSUME NEW q, IsQueue(q), NEW x
    PROVE  Append(q, x) = q \o <<x>>
<1> DEFINE r == Append(q, x)  o == <<x>>  p == q \o o
<1>1. IsQueue(r) /\ Len(r) = Len(q) + 1 /\ r[Len(q) + 1] = x /\ \A i \in 1..Len(q) : r[i] = q[i]
  BY AppendIs
<1>2. IsQueue(o) /\ Len(o) = 1 /\ o[1] = x
  BY OneIs
<1>20. IsQueue(o) /\ p = q \o o
  BY OneIs
<1> HIDE DEF o, p
<1>30. IsQueue(p)
  BY <1>20, CatIs
<1>3. /\ Len(p) = Len(q) + Len(o) /\ (\A i \in 1..Len(q) : p[i] = q[i])
      /\ \A i \in 1..Len(o) : p[Len(q) + i] = o[i]
  BY <1>20, CatIs
<1>4. p[Len(q) + 1] = x
  BY <1>2, <1>3
<1>5. Len(q) \in Nat
  BY DEF IsQueue
<1> HIDE DEF r
<1>6. \A i \in 1..Len(r) : r[i] = p[i]
  BY <1>1, <1>3, <1>4, <1>5
<1>7. Len(r) = Len(p)
  BY <1>1, <1>2, <1>3
<1>8. r = p
  BY <1>1, <1>3, <1>30, <1>6, <1>7 DEF IsQueue
<1> QED
  BY <1>8 DEF r, p, o

\* A command and its expectation are added together (SendCmd and Push).
LEMMA CommandSettled ==
    ASSUME NEW w, NEW q, IsQueue(q), NEW n \in Nat, Settled(w, q, n), w.c.on,
           NEW cmd, NEW e, Expectation(e), cmd.op \in Answers(e.kind),
           NEW v, v = Command(w, cmd, e)
    PROVE  Settled(v, q, n) /\ Kept(w, v) /\ v.f = w.f /\ v.c.on
<1>1. IsConn(w.c) /\ DOMAIN w = {"f", "c"} /\ IsSession(w.f) /\ w.f.state # "CONNECTING" /\ w.c.net # "syn"
  BY NoConnIs DEF Settled, World
<1>2. /\ DOMAIN v = {"f", "c"} /\ v.f = w.f /\ DOMAIN v.c = DOMAIN w.c
      /\ v.c.unsent = Append(w.c.unsent, cmd) /\ v.c.expect = Append(w.c.expect, e)
      /\ v.c.on = w.c.on /\ v.c.sync_wait = w.c.sync_wait /\ v.c.inq = w.c.inq /\ v.c.out = w.c.out
      /\ v.c.xfer = w.c.xfer /\ v.c.net = w.c.net
  BY <1>1 DEF Command, IsConn, NewConn
<1> DEFINE E == w.c.expect  U == w.c.unsent  x == w.c.xfer  I == w.c.inq  wait == w.c.sync_wait
<1>3. Expects(E) /\ IsQueue(E) /\ IsQueue(U) /\ IsQueue(I) /\ IsQueue(w.c.out)
  BY <1>1 DEF IsConn, Expects
<1>4. IsQueue(Append(U, cmd)) /\ Expects(Append(E, e))
  <2> HIDE DEF U, E
  <2>1. IsQueue(Append(U, cmd)) /\ IsQueue(Append(E, e))
    BY <1>3, AppendIs
  <2>2. Len(Append(E, e)) = Len(E) + 1 /\ Append(E, e)[Len(E) + 1] = e /\ \A i \in 1..Len(E) : Append(E, e)[i] = E[i]
    BY <1>3, AppendIs
  <2> DEFINE g == Append(E, e)
  <2>3. Len(E) \in Nat
    BY <1>3 DEF IsQueue
  <2> HIDE DEF g
  <2>4. \A i \in 1..Len(g) : Expectation(g[i])
    BY <1>3, <2>2, <2>3 DEF Expects, g
  <2> QED
    BY <2>1, <2>4 DEF Expects, g
<1>5. IsConn(v.c)
  <2> HIDE DEF U, E
  <2>1. DOMAIN v.c = DOMAIN NewConn /\ v.c.on = TRUE /\ IsQueue(v.c.inq) /\ IsQueue(v.c.out) /\ v.c.sync_wait \in Int
        /\ DOMAIN v.c.xfer = DOMAIN NoXfer /\ (v.c.xfer # NoXfer => v.c.xfer.op \in Transfers)
    BY <1>1, <1>2, Zenon DEF IsConn
  <2> QED
    BY <2>1, <1>2, <1>4, Zenon DEF IsConn, U, E
<1>6. w.c.net = "up" => Lined(E, wait, x, I, U, q, n)
  BY DEF Settled, Matched
<1>7. Append(U, cmd) = U \o <<cmd>> /\ Append(E, e) = E \o <<e>>
  <2> HIDE DEF U, E
  <2> QED
    BY <1>3, AppendCat
<1>8. w.c.net = "up" => Lined(Append(E, e), wait, x, I, Append(U, cmd), q, n)
  <2> HIDE DEF U, E, x, I, wait
  <2> SUFFICES ASSUME w.c.net = "up" PROVE Lined(E \o <<e>>, wait, x, I, U \o <<cmd>>, q, n)
    BY <1>7, Zenon
  <2>1. /\ IsQueue(<<e>>) /\ IsQueue(<<cmd>>) /\ Len(<<e>>) = Len(<<cmd>>)
        /\ \A i \in 1..Len(<<e>>) : <<cmd>>[i].op \in Answers(<<e>>[i].kind)
    BY OneIs
  <2> QED
    BY <1>3, <1>6, <2>1, LinedMore
<1>9. v.c.net = "up" => Lined(v.c.expect, v.c.sync_wait, v.c.xfer, v.c.inq, v.c.unsent, q, n)
  BY <1>2, <1>8, Zenon
<1> QED
  BY <1>1, <1>2, <1>5, <1>9, Zenon DEF Settled, World, Matched, Kept

\* From w the client goes to v, whatever replies remain to be handled.
Fares(w, v) ==
    \A q, n : IsQueue(q) /\ n \in Nat /\ Settled(w, q, n) => Settled(v, q, n) /\ Kept(w, v)

\* Calls that keep a state settled may follow each other.
LEMMA FaresOn ==
    ASSUME NEW w, NEW v, NEW u, Fares(w, v), Fares(v, u)
    PROVE  Fares(w, u)
<1> SUFFICES ASSUME NEW q, NEW n, IsQueue(q), n \in Nat, Settled(w, q, n) PROVE Settled(u, q, n) /\ Kept(w, u)
  BY Zenon DEF Fares
<1>1. Settled(v, q, n) /\ Kept(w, v)
  BY Zenon DEF Fares
<1>2. Settled(u, q, n) /\ Kept(v, u)
  BY <1>1, Zenon DEF Fares
<1>3. Kept(w, u)
  BY <1>1, <1>2 DEF Kept
<1> QED
  BY <1>2, <1>3

\* What does nothing keeps it.
LEMMA FaresSame == \A w : Fares(w, w)
  BY Zenon DEF Fares, Kept

\* SendCmd and Push of the expectation keep a state settled.
LEMMA CommandFares ==
    ASSUME NEW w, w.c.on, NEW cmd, NEW e, Expectation(e), cmd.op \in Answers(e.kind)
    PROVE  Fares(w, Command(w, cmd, e)) /\ (World(w) => Command(w, cmd, e).c.on /\ Command(w, cmd, e).f = w.f)
<1>1. Fares(w, Command(w, cmd, e))
  BY CommandSettled, Zenon DEF Fares
<1>2. ASSUME World(w) PROVE Command(w, cmd, e).c.on /\ Command(w, cmd, e).f = w.f
  <2>1. IsConn(w.c) /\ DOMAIN w = {"f", "c"}
    BY <1>2, NoConnIs DEF World
  <2> QED
    BY <2>1 DEF Command, IsConn, NewConn
<1> QED
  BY <1>1, <1>2

\* FlushSendQueue: what is sent is then awaited.
LEMMA FlushFares == \A w : \A all \in BOOLEAN : Fares(w, Flush(w, all)) /\ (World(w) => Flush(w, all).c.on = w.c.on /\ Flush(w, all).f = w.f)
<1> SUFFICES ASSUME NEW w, NEW all \in BOOLEAN
             PROVE  Fares(w, Flush(w, all)) /\ (World(w) => Flush(w, all).c.on = w.c.on /\ Flush(w, all).f = w.f)
  OBVIOUS
<1> DEFINE U == w.c.unsent  I == w.c.inq
           k == IF all \/ ~w.f.sync THEN Len(U) ELSE IF w.c.sync_wait <= 0 /\ U # <<>> THEN 1 ELSE 0
           v == Flush(w, all)
<1>1. v = IF ~w.c.on \/ k = 0 THEN w
          ELSE [w EXCEPT !.c.unsent = SubSeq(@, k + 1, Len(@)), !.c.sync_wait = @ + k,
                      !.c.inq = IF w.c.net = "up" THEN @ \o SubSeq(U, 1, k) ELSE @]
  BY DEF Flush
<1>2. CASE ~w.c.on \/ k = 0
  BY <1>1, <1>2, FaresSame
<1>3. CASE w.c.on /\ ~(k = 0)
  <2>1. ASSUME World(w)
        PROVE  /\ IsConn(w.c) /\ DOMAIN w = {"f", "c"} /\ IsSession(w.f)
               /\ DOMAIN v = {"f", "c"} /\ v.f = w.f /\ DOMAIN v.c = DOMAIN w.c
               /\ v.c.unsent = SubSeq(U, k + 1, Len(U)) /\ v.c.sync_wait = w.c.sync_wait + k
               /\ v.c.inq = (IF w.c.net = "up" THEN I \o SubSeq(U, 1, k) ELSE I)
               /\ v.c.on = w.c.on /\ v.c.expect = w.c.expect /\ v.c.out = w.c.out
               /\ v.c.xfer = w.c.xfer /\ v.c.net = w.c.net
    <3>1. IsConn(w.c) /\ DOMAIN w = {"f", "c"} /\ IsSession(w.f)
      BY <2>1, <1>3, NoConnIs DEF World
    <3>2. v = [w EXCEPT !.c.unsent = SubSeq(@, k + 1, Len(@)), !.c.sync_wait = @ + k,
                      !.c.inq = IF w.c.net = "up" THEN @ \o SubSeq(U, 1, k) ELSE @]
      BY <1>1, <1>3
    <3> HIDE DEF v, k
    <3> QED
      BY <3>1, <3>2 DEF IsConn, NewConn
  <2>2. ASSUME World(w), IsConn(w.c) PROVE k \in 0..Len(U)
    <3>1. IsQueue(U)
      BY <2>2 DEF IsConn
    <3> HIDE DEF U
    <3>2. Len(U) \in Nat /\ (U # <<>> => Len(U) # 0)
      BY <3>1, NoneIs DEF IsQueue
    <3> QED
      BY <3>2
  <2>3. ASSUME NEW q, IsQueue(q), NEW n \in Nat, Settled(w, q, n)
        PROVE  Settled(v, q, n) /\ Kept(w, v)
    <3>1. World(w) /\ w.f.state # "CONNECTING" /\ w.c.net # "syn" /\ Matched(w.c.expect, w.c, q, n)
      BY <2>3, <1>3 DEF Settled
    <3>2. IsConn(w.c) /\ k \in 0..Len(U)
      BY <3>1, <2>1, <2>2
    <3> DEFINE S == SubSeq(U, 1, k)  V == SubSeq(U, k + 1, Len(U))  J == I \o S
    <3>3. IsQueue(U) /\ IsQueue(I) /\ w.c.sync_wait \in Int
      BY <3>2 DEF IsConn
    <3> HIDE DEF k, v
    <3>4. IsQueue(S) /\ IsQueue(V) /\ IsQueue(J)
      <4> HIDE DEF U, I
      <4>1. Len(U) \in Nat /\ k \in Nat /\ k <= Len(U)
        BY <3>2, <3>3 DEF IsQueue
      <4>2. IsQueue(S)
        BY <4>1, <3>3, SubIs
      <4>3. k + 1 \in Nat \ {0}
        BY <4>1
      <4>4. IsQueue(V)
        BY <4>1, <4>3, <3>3, SubIs
      <4>5. J = I \o S
        OBVIOUS
      <4> HIDE DEF S, J
      <4> QED
        BY <4>2, <4>4, <4>5, <3>3, CatIs
    <3>5. w.c.net = "up" => Lined(w.c.expect, w.c.sync_wait, w.c.xfer, I, U, q, n)
      BY <3>1 DEF Matched
    <3>6. w.c.net = "up" => Lined(w.c.expect, w.c.sync_wait + k, w.c.xfer, J, V, q, n)
      BY <3>2, <3>3, <3>5, <2>3, LinedFlush, Zenon
    <3> HIDE DEF U, I, S, V, J
    <3>7. w.c.net = "up" => Lined(v.c.expect, v.c.sync_wait, v.c.xfer, v.c.inq, v.c.unsent, q, n)
      BY <3>1, <3>6, <2>1, Zenon DEF J, V, S
    <3>8. v.c.sync_wait \in Int
      <4>1. k \in Int
        BY <3>2
      <4>2. v.c.sync_wait = w.c.sync_wait + k
        BY <3>1, <2>1
      <4> QED
        BY <4>1, <4>2, <3>3
    <3>9. IsQueue(v.c.unsent) /\ IsQueue(v.c.inq)
      BY <3>1, <3>3, <3>4, <2>1, Zenon DEF J, V, S
    <3>10. IsConn(v.c)
      BY <3>1, <3>2, <3>8, <3>9, <2>1, Zenon DEF IsConn
    <3> QED
      BY <3>1, <3>7, <3>10, <2>1, Zenon DEF Settled, World, Matched, Kept
  <2> HIDE DEF v, k
  <2>4. World(w) => v.c.on = w.c.on /\ v.f = w.f
    BY <2>1
  <2> QED
    BY <2>3, <2>4 DEF Fares, v
<1> QED
  BY <1>2, <1>3

\* A function on 1..n is a queue of length n.
LEMMA FunIs ==
    ASSUME NEW r, NEW n \in Nat, DOMAIN r = 1..n, r = [i \in 1..n |-> r[i]]
    PROVE  IsQueue(r) /\ Len(r) = n
<1> DEFINE S == {r[i] : i \in 1..n}
<1>1. r \in [1..n -> S]
  OBVIOUS
<1>2. r \in UNION {[1..m -> S] : m \in Nat}
  BY <1>1
<1>3. r \in Seq(S)
  BY <1>2, SeqDef
<1> HIDE DEF S
<1>4. Len(r) \in Nat /\ DOMAIN r = 1..Len(r)
  BY <1>3, LenProperties
<1>5. Len(r) = n
  BY <1>4
<1> QED
  BY <1>3, <1>5, SeqIsQueue

\* A change to neither the queues nor the state CONNECTING, as a call.
LEMMA TweakFares ==
    ASSUME NEW w, NEW v, w.c.on,
           World(w) => /\ DOMAIN v = {"f", "c"} /\ IsSession(v.f) /\ SameQueues(w.c, v.c)
                       /\ w.f.state # "CONNECTING" => v.f.state # "CONNECTING"
    PROVE  Fares(w, v)
<1> SUFFICES ASSUME NEW q, NEW n, IsQueue(q), n \in Nat, Settled(w, q, n) PROVE Settled(v, q, n) /\ Kept(w, v)
  BY Zenon DEF Fares
<1>1. World(w) /\ w.f.state # "CONNECTING"
  BY DEF Settled
<1> QED
  BY <1>1, Tweaked, Zenon

\* A session that is on has a connection.
LEMMA WorldOn == \A w : World(w) /\ w.c.on => IsConn(w.c)
  BY NoConnIs DEF World

\* Closing a data connection, and putting it aside
LEMMA DataSame ==
    ASSUME NEW c, IsConn(c)
    PROVE  SameQueues(c, CloseData(c)) /\ SameQueues(c, CloseAborted(c)) /\ SameQueues(c, AbortData(c))
<1>1. \A d : IsConn(d) => SameQueues(d, CloseData(d))
  BY DEF IsConn, NewConn, SameQueues, CloseData
<1>2. \A d : IsConn(d) => SameQueues(d, CloseAborted(d))
  BY DEF IsConn, NewConn, SameQueues, CloseAborted
<1>3. SameQueues(c, AbortData(c))
  <2> DEFINE d == CloseAborted(c)
  <2>1. IsConn(d) /\ SameQueues(c, d)
    BY <1>2, SameIsConn
  <2>2. AbortData(c) = [d EXCEPT !.aborted = c.data, !.data = "none", !.iob = NoBuf, !.rx = NoRx,
                                 !.dsock = IF @ = "data" THEN "aborted" ELSE @]
    BY DEF AbortData
  <2> HIDE DEF d
  <2>3. SameQueues(d, AbortData(c))
    BY <2>1, <2>2 DEF IsConn, NewConn, SameQueues
  <2> QED
    BY <2>1, <2>3 DEF SameQueues
<1> QED
  BY <1>1, <1>2, <1>3

\* Any other state makes a session of a session.
LEMMA SessionState ==
    ASSUME NEW f, IsSession(f), NEW st \in States
    PROVE  IsSession([f EXCEPT !.state = st]) /\ [f EXCEPT !.state = st].state = st
  BY DEF IsSession, IdleSession

\* DataClose touches no queue.
LEMMA DataCloseFares == \A w : Fares(w, DataClose(w)) /\ (World(w) => DataClose(w).c.on = w.c.on)
<1> SUFFICES ASSUME NEW w PROVE Fares(w, DataClose(w)) /\ (World(w) => DataClose(w).c.on = w.c.on)
  OBVIOUS
<1>1. CASE ~w.c.on
  BY <1>1, FaresSame DEF DataClose
<1>2. CASE w.c.on
  <2> DEFINE st == IF w.f.state \in {"DATA", "PASV"} THEN "WAITING" ELSE w.f.state
             v == DataClose(w)
  <2>1. v = [w EXCEPT !.c = CloseData(@), !.f.state = st]
    BY <1>2 DEF DataClose
  <2> HIDE DEF v
  <2>2. ASSUME World(w)
        PROVE  /\ DOMAIN v = {"f", "c"} /\ IsSession(v.f) /\ SameQueues(w.c, v.c)
               /\ w.f.state # "CONNECTING" => v.f.state # "CONNECTING"
    <3>1. IsConn(w.c) /\ DOMAIN w = {"f", "c"} /\ IsSession(w.f)
      BY <1>2, <2>2, WorldOn DEF World
    <3>2. SameQueues(w.c, CloseData(w.c)) /\ st \in States
      BY <3>1, DataSame DEF IsSession, States
    <3>3. DOMAIN v = {"f", "c"} /\ v.f = [w.f EXCEPT !.state = st] /\ v.c = CloseData(w.c)
      BY <2>1, <3>1
    <3>4. IsSession(v.f) /\ v.f.state = st
      BY <3>1, <3>2, <3>3, SessionState
    <3> QED
      BY <3>2, <3>3, <3>4
  <2>3. Fares(w, v)
    BY <1>2, <2>2, TweakFares
  <2> QED
    BY <2>2, <2>3 DEF SameQueues, v
<1> QED
  BY <1>1, <1>2

\* A call after which there is no connection.
LEMMA GoneFares ==
    ASSUME NEW w, NEW v, v.c = NoConn,
           World(w) => DOMAIN v = {"f", "c"} /\ IsSession(v.f) /\ v.f.state # "CONNECTING"
    PROVE  Fares(w, v)
<1> SUFFICES ASSUME NEW q, NEW n, IsQueue(q), n \in Nat, Settled(w, q, n) PROVE Settled(v, q, n) /\ Kept(w, v)
  BY Zenon DEF Fares
<1> QED
  BY Gone, Zenon DEF Settled

\* DisconnectNow leaves a session without a connection.
LEMMA DisconnectNowFares ==
    ASSUME NEW w
    PROVE  /\ Fares(w, DisconnectNow(w)) /\ DisconnectNow(w).c = NoConn /\ DOMAIN DisconnectNow(w) = {"f", "c"}
           /\ World(w) => World(DisconnectNow(w)) /\ DisconnectNow(w).f.state = "INITIAL"
<1> DEFINE v == DisconnectNow(w)
<1>1. v.c = NoConn /\ DOMAIN v = {"f", "c"}
  BY DEF DisconnectNow
<1>2. World(w) => IsSession(v.f) /\ v.f.state = "INITIAL"
  BY DEF DisconnectNow, World, IsSession, IdleSession, States
<1> HIDE DEF v
<1>3. Fares(w, v)
  BY <1>1, <1>2, GoneFares
<1> QED
  BY <1>1, <1>2, <1>3 DEF World, v

\* Giving up what is expected
LEMMA StaleIs ==
    ASSUME NEW e, Expectation(e)
    PROVE  Expectation(Stale(e)) /\ Answers(e.kind) \subseteq Answers(Stale(e).kind)
<1>1. /\ DOMAIN Stale(e) = DOMAIN e /\ Stale(e).arg = e.arg
      /\ e.kind \in {"CWD", "CWD_CURR"} => Stale(e).kind = "CWD_STALE"
      /\ e.kind \in {"REST", "FILE_ACCESS"} => Stale(e).kind = "IGNORE"
      /\ e.kind = "TRANSFER" => Stale(e).kind = "TRANSFER_CLOSED"
      /\ e.kind \notin {"CWD", "CWD_CURR", "REST", "FILE_ACCESS", "TRANSFER"} => Stale(e) = e
  BY DEF Stale, Expectation, Exp
<1>2. Stale(e).kind \in ExpectKinds
  BY <1>1 DEF Expectation, ExpectKinds
<1>3. Answers(e.kind) \subseteq Answers(Stale(e).kind)
  <2>1. Answers("CWD") = Answers("CWD_STALE") /\ Answers("CWD_CURR") = Answers("CWD_STALE")
    BY DEF Answers, CwdKinds
  <2>2. Answers("REST") \subseteq Answers("IGNORE") /\ Answers("FILE_ACCESS") \subseteq Answers("IGNORE")
    BY DEF Answers, CwdKinds
  <2>3. Answers("TRANSFER") = Answers("TRANSFER_CLOSED")
    BY DEF Answers, CwdKinds
  <2> QED
    BY <1>1, <2>1, <2>2, <2>3
<1> QED
  BY <1>1, <1>2, <1>3, Zenon DEF Expectation

\* ExpectQueue::Close makes every expectation one that the same replies, or more, answer.
LEMMA CloseExpectIs ==
    ASSUME NEW c, IsConn(c)
    PROVE  LET d == CloseExpect(c) IN
           /\ IsConn(d) /\ SameQueues(c, [d EXCEPT !.expect = c.expect]) /\ Len(d.expect) = Len(c.expect)
           /\ \A i \in 1..Len(c.expect) : d.expect[i] = Stale(c.expect[i])
           /\ \A x, I, U, q, n, wait :
                 IsQueue(I) /\ IsQueue(U) /\ IsQueue(q) /\ n \in Nat /\ Lined(c.expect, wait, x, I, U, q, n)
                    => Lined(d.expect, wait, x, I, U, q, n)
<1> DEFINE d == CloseExpect(c)  E == c.expect  D == [i \in DOMAIN E |-> Stale(E[i])]
<1>1. Expects(E) /\ IsQueue(E)
  BY DEF IsConn, Expects
<1>2. /\ DOMAIN d = DOMAIN c /\ d.expect = D /\ d.on = c.on /\ d.sync_wait = c.sync_wait
      /\ d.unsent = c.unsent /\ d.inq = c.inq /\ d.out = c.out /\ d.xfer = c.xfer /\ d.net = c.net
  BY DEF CloseExpect, IsConn, NewConn
<1>3. SameQueues(c, [d EXCEPT !.expect = c.expect])
  BY <1>2 DEF SameQueues, IsConn, NewConn
<1> HIDE DEF E, d
<1>4. IsQueue(D) /\ Len(D) = Len(E) /\ \A i \in 1..Len(E) : D[i] = Stale(E[i])
  <2>1. DOMAIN E = 1..Len(E) /\ Len(E) \in Nat
    BY <1>1, QueueIsSeq DEF IsQueue
  <2>2. DOMAIN D = 1..Len(E) /\ D = [i \in 1..Len(E) |-> D[i]] /\ \A i \in 1..Len(E) : D[i] = Stale(E[i])
    BY <2>1
  <2> HIDE DEF D
  <2> QED
    BY <2>1, <2>2, FunIs
<1> HIDE DEF D
<1>5. \A i \in 1..Len(E) : Expectation(D[i]) /\ Answers(E[i].kind) \subseteq Answers(D[i].kind)
  BY <1>1, <1>4, StaleIs DEF Expects
<1>6. Expects(D)
  BY <1>4, <1>5 DEF Expects
<1>7. IsConn(d)
  BY <1>2, <1>6, Zenon DEF IsConn
<1>8. ASSUME NEW x, NEW I, NEW U, NEW q, NEW n, NEW wait,
             IsQueue(I), IsQueue(U), IsQueue(q), n \in Nat, Lined(E, wait, x, I, U, q, n)
      PROVE  Lined(D, wait, x, I, U, q, n)
  BY <1>4, <1>5, <1>8, LinedStale
<1> QED
  BY <1>2, <1>3, <1>4, <1>7, <1>8, Zenon DEF E, d

\* ExpectQueue::Close, as a call.
LEMMA CloseExpectFares ==
    ASSUME NEW w, w.c.on, NEW v, v = [w EXCEPT !.c = CloseExpect(@)]
    PROVE  Fares(w, v) /\ (World(w) => World(v) /\ v.c.on /\ v.f = w.f)
<1>1. ASSUME World(w)
      PROVE  /\ IsConn(w.c) /\ DOMAIN v = {"f", "c"} /\ v.f = w.f /\ v.c = CloseExpect(w.c)
             /\ IsSession(w.f) /\ IsConn(v.c) /\ v.c.on
  <2>1. IsConn(w.c) /\ DOMAIN w = {"f", "c"} /\ IsSession(w.f)
    BY <1>1, WorldOn DEF World
  <2>2. DOMAIN v = {"f", "c"} /\ v.f = w.f /\ v.c = CloseExpect(w.c)
    BY <2>1
  <2>3. IsConn(v.c)
    BY <2>1, <2>2, CloseExpectIs
  <2>4. v.c.on
    BY <2>3 DEF IsConn
  <2> QED
    BY <2>1, <2>2, <2>3, <2>4
<1>2. ASSUME NEW q, NEW n, IsQueue(q), n \in Nat, Settled(w, q, n) PROVE Settled(v, q, n) /\ Kept(w, v)
  <2>1. World(w) /\ w.f.state # "CONNECTING" /\ w.c.net # "syn"
        /\ (w.c.net = "up" => Lined(w.c.expect, w.c.sync_wait, w.c.xfer, w.c.inq, w.c.unsent, q, n))
    BY <1>2 DEF Settled, Matched
  <2>2. IsConn(w.c) /\ IsQueue(w.c.inq) /\ IsQueue(w.c.unsent)
    BY <1>1, <2>1 DEF IsConn
  <2>3. w.c.net = "up" => Lined(v.c.expect, w.c.sync_wait, w.c.xfer, w.c.inq, w.c.unsent, q, n)
    BY <1>1, <1>2, <2>1, <2>2, CloseExpectIs, Zenon
  <2>4. /\ v.c.on = w.c.on /\ v.c.sync_wait = w.c.sync_wait
        /\ v.c.unsent = w.c.unsent /\ v.c.inq = w.c.inq /\ v.c.out = w.c.out /\ v.c.xfer = w.c.xfer /\ v.c.net = w.c.net
    BY <1>1, <2>1, <2>2 DEF CloseExpect, IsConn, NewConn
  <2>5. Matched(v.c.expect, v.c, q, n)
    BY <2>3, <2>4, Zenon DEF Matched
  <2> QED
    BY <1>1, <2>1, <2>4, <2>5, Zenon DEF Settled, World, Kept
<1> QED
  BY <1>1, <1>2, Zenon DEF Fares, World

\* What two calls leave alone, both together do.
LEMMA KeptOn == \A w, v, u : Kept(w, v) /\ Kept(v, u) => Kept(w, u)
  BY DEF Kept

\* What is put aside, or only changes what is not about commands and replies
LEMMA AbortDataFares ==
    ASSUME NEW w, w.c.on, NEW v, v = [w EXCEPT !.c = AbortData(@)] \/ v = [w EXCEPT !.c = CloseAborted(@)]
    PROVE  Fares(w, v)
<1>1. ASSUME World(w)
      PROVE  /\ DOMAIN v = {"f", "c"} /\ IsSession(v.f) /\ SameQueues(w.c, v.c)
             /\ w.f.state # "CONNECTING" => v.f.state # "CONNECTING"
  <2>1. IsConn(w.c) /\ DOMAIN w = {"f", "c"} /\ IsSession(w.f)
    BY <1>1, WorldOn DEF World
  <2>2. SameQueues(w.c, AbortData(w.c)) /\ SameQueues(w.c, CloseAborted(w.c))
    BY <2>1, DataSame
  <2>3. DOMAIN v = {"f", "c"} /\ v.f = w.f /\ (v.c = AbortData(w.c) \/ v.c = CloseAborted(w.c))
    BY <2>1
  <2> QED
    BY <2>1, <2>2, <2>3
<1> QED
  BY <1>1, TweakFares

\* Whether QUIT was sent is not about the queues.
LEMMA QuitFares ==
    ASSUME NEW w, w.c.on, NEW b, NEW v, v = [w EXCEPT !.c.quit = b]
    PROVE  Fares(w, v)
<1>1. ASSUME World(w)
      PROVE  /\ DOMAIN v = {"f", "c"} /\ IsSession(v.f) /\ SameQueues(w.c, v.c)
             /\ w.f.state # "CONNECTING" => v.f.state # "CONNECTING"
  <2>1. IsConn(w.c) /\ DOMAIN w = {"f", "c"} /\ IsSession(w.f)
    BY <1>1, WorldOn DEF World
  <2>2. DOMAIN v = {"f", "c"} /\ v.f = w.f /\ v.c = [w.c EXCEPT !.quit = b]
    BY <2>1
  <2>3. SameQueues(w.c, v.c)
    BY <2>1, <2>2 DEF SameQueues, IsConn, NewConn
  <2> QED
    BY <2>1, <2>2, <2>3
<1> QED
  BY <1>1, TweakFares

\* What is pushed is an expectation.
LEMMA ExpIs ==
    /\ \A k \in ExpectKinds : Expectation(Exp(k)) /\ Exp(k).kind = k
    /\ \A k \in ExpectKinds : \A d : IsQueue(d) => Expectation(ExpDir(k, d)) /\ ExpDir(k, d).kind = k
  BY NoneIs DEF Expectation, Exp, ExpDir

\* The interruption of a transfer, by closing, by disconnecting or by ABOR.
LEMMA InterruptFares ==
    ASSUME NEW w, w.c.on
    PROVE  Fares(w, Interrupt(w))
<1> DEFINE cmd == Cmd("ABOR", <<>>, <<>>)  e == Exp("ABOR")
           v == Command(w, cmd, e)  u == Flush(v, TRUE)  x == [u EXCEPT !.c = AbortData(@)]
<1>1. \/ Interrupt(w) = DisconnectNow(w) \/ Interrupt(w) = DataClose(w) \/ Interrupt(w) = x
  BY DEF Interrupt
<1>2. Fares(w, DisconnectNow(w)) /\ Fares(w, DataClose(w))
  BY DisconnectNowFares, DataCloseFares
<1>3. Fares(w, x)
  <2> SUFFICES ASSUME NEW q, NEW n, IsQueue(q), n \in Nat, Settled(w, q, n) PROVE Settled(x, q, n) /\ Kept(w, x)
    BY Zenon DEF Fares
  <2>1. Expectation(e) /\ cmd.op \in Answers(e.kind)
    <3>1. "ABOR" \in ExpectKinds
      BY DEF ExpectKinds
    <3>2. cmd.op = "ABOR" /\ "ABOR" \in Answers("ABOR")
      BY DEF Cmd, Answers, CwdKinds
    <3> QED
      BY <3>1, <3>2, ExpIs
  <2> HIDE DEF cmd, e
  <2>2. Settled(v, q, n) /\ Kept(w, v) /\ v.c.on
    BY <2>1, CommandSettled
  <2> HIDE DEF v
  <2>3. World(v)
    BY <2>2 DEF Settled
  <2>4. Settled(u, q, n) /\ Kept(v, u) /\ u.c.on
    BY <2>2, <2>3, FlushFares DEF Fares
  <2> HIDE DEF u
  <2>5. Fares(u, x)
    BY <2>4, AbortDataFares
  <2> HIDE DEF x
  <2>6. Settled(x, q, n) /\ Kept(u, x)
    BY <2>4, <2>5, Zenon DEF Fares
  <2> QED
    BY <2>2, <2>4, <2>6, KeptOn
<1> HIDE DEF x
<1> QED
  BY <1>1, <1>2, <1>3

\* DataAbort, which does nothing while the connection is being established.
LEMMA DataAbortFares == \A w : Fares(w, DataAbort(w)) /\ (w.f.state = "CONNECTING" => DataAbort(w) = w)
<1> SUFFICES ASSUME NEW w PROVE Fares(w, DataAbort(w)) /\ (w.f.state = "CONNECTING" => DataAbort(w) = w)
  OBVIOUS
<1> DEFINE v == [w EXCEPT !.c = CloseExpect(@)]
<1>1. DataAbort(w) = IF ~w.c.on \/ w.f.state = "CONNECTING" \/ w.c.quit \/ w.c.data = "none" \/ w.c.expect = <<>>
                     THEN w ELSE Interrupt(v)
  BY DEF DataAbort
<1>2. w.c.on => Fares(w, v) /\ (World(w) => v.c.on)
  BY CloseExpectFares
<1> HIDE DEF v
<1>3. ASSUME w.c.on PROVE Fares(w, Interrupt(v))
  <2> SUFFICES ASSUME NEW q, NEW n, IsQueue(q), n \in Nat, Settled(w, q, n)
               PROVE  Settled(Interrupt(v), q, n) /\ Kept(w, Interrupt(v))
    BY Zenon DEF Fares
  <2>1. Settled(v, q, n) /\ Kept(w, v) /\ v.c.on
    BY <1>2, <1>3 DEF Fares, Settled
  <2>2. Settled(Interrupt(v), q, n) /\ Kept(v, Interrupt(v))
    BY <2>1, InterruptFares, Zenon DEF Fares
  <2> QED
    BY <2>1, <2>2, KeptOn
<1> QED
  BY <1>1, <1>3, FaresSame

\* The end of DisconnectLL, with QUIT or at once.
LEMMA LeaveFares == \A w : Fares(w, Leave(w))
<1> SUFFICES ASSUME NEW w PROVE Fares(w, Leave(w))
  OBVIOUS
<1> DEFINE cmd == Cmd("QUIT", <<>>, <<>>)  e == Exp("IGNORE")
           v == Command(w, cmd, e)  u == [v EXCEPT !.c.quit = TRUE]
<1>1. Leave(w) = DisconnectNow(w) \/ (w.c.on /\ Leave(w) = u)
  BY DEF Leave
<1>2. Fares(w, DisconnectNow(w))
  BY DisconnectNowFares
<1>3. ASSUME w.c.on PROVE Fares(w, u)
  <2> SUFFICES ASSUME NEW q, NEW n, IsQueue(q), n \in Nat, Settled(w, q, n) PROVE Settled(u, q, n) /\ Kept(w, u)
    BY Zenon DEF Fares
  <2>1. Expectation(e) /\ cmd.op \in Answers(e.kind)
    <3>1. "IGNORE" \in ExpectKinds
      BY DEF ExpectKinds
    <3>2. cmd.op = "QUIT" /\ "QUIT" \in Answers("IGNORE")
      BY DEF Cmd, Answers, CwdKinds
    <3> QED
      BY <3>1, <3>2, ExpIs
  <2> HIDE DEF cmd, e
  <2>2. Settled(v, q, n) /\ Kept(w, v) /\ v.c.on
    BY <1>3, <2>1, CommandSettled
  <2> HIDE DEF v
  <2>3. Fares(v, u)
    BY <2>2, QuitFares
  <2> HIDE DEF u
  <2>4. Settled(u, q, n) /\ Kept(v, u)
    BY <2>2, <2>3, Zenon DEF Fares
  <2> QED
    BY <2>2, <2>4, KeptOn
<1> HIDE DEF u
<1> QED
  BY <1>1, <1>2, <1>3

\* DisconnectLL; a connection that is not yet established is closed at once.
LEMMA DisconnectFares ==
    \A w : Fares(w, Disconnect(w)) /\ (World(w) /\ w.f.state = "CONNECTING" /\ ~w.c.quit /\ w.c.on =>
                                         World(Disconnect(w)) /\ Disconnect(w).c = NoConn /\ Disconnect(w).f.state = "INITIAL")
<1> SUFFICES ASSUME NEW w PROVE
       Fares(w, Disconnect(w)) /\ (World(w) /\ w.f.state = "CONNECTING" /\ ~w.c.quit /\ w.c.on =>
                                         World(Disconnect(w)) /\ Disconnect(w).c = NoConn /\ Disconnect(w).f.state = "INITIAL")
  OBVIOUS
<1> DEFINE v == [w EXCEPT !.c = CloseExpect(@)]  u == DataAbort(v)  x == DataClose(u)
<1>1. Disconnect(w) = IF ~w.c.on \/ w.c.quit THEN w ELSE Leave(x)
  BY DEF Disconnect
<1>2. w.c.on => Fares(w, v) /\ (World(w) => World(v) /\ v.c.on /\ v.f = w.f)
  BY CloseExpectFares
<1> HIDE DEF v
<1>3. ASSUME w.c.on PROVE Fares(w, Leave(x))
  <2>1. Fares(w, v) /\ Fares(v, u) /\ Fares(u, x) /\ Fares(x, Leave(x))
    BY <1>2, <1>3, DataAbortFares, DataCloseFares, LeaveFares
  <2> HIDE DEF u, x
  <2> QED
    BY <2>1, FaresOn
<1>4. ASSUME w.c.on, World(w), w.f.state = "CONNECTING", ~w.c.quit
      PROVE  World(Disconnect(w)) /\ Disconnect(w).c = NoConn /\ Disconnect(w).f.state = "INITIAL"
  <2>1. World(v) /\ v.c.on /\ v.f.state = "CONNECTING" /\ u = v
    BY <1>2, <1>4, DataAbortFares
  <2>2. World(x) /\ x.f.state = "CONNECTING"
    <3>1. DOMAIN v = {"f", "c"} /\ IsConn(v.c) /\ IsSession(v.f)
      BY <2>1, WorldOn DEF World
    <3>2. x = [v EXCEPT !.c = CloseData(@), !.f.state = v.f.state]
      BY <2>1 DEF DataClose
    <3> HIDE DEF x
    <3>3. DOMAIN x = {"f", "c"} /\ x.f = [v.f EXCEPT !.state = v.f.state] /\ x.c = CloseData(v.c)
      BY <3>1, <3>2
    <3>4. IsSession(x.f) /\ x.f.state = v.f.state
      <4>1. v.f.state \in States
        BY <3>1 DEF IsSession
      <4> QED
        BY <3>1, <3>3, <4>1, SessionState
    <3>5. IsConn(x.c)
      BY <3>1, <3>3, DataSame, SameIsConn
    <3> QED
      BY <2>1, <3>3, <3>4, <3>5 DEF World
  <2> HIDE DEF u, x
  <2>3. Disconnect(w) = DisconnectNow(x)
    BY <1>1, <1>4, <2>2 DEF Leave
  <2> QED
    BY <2>2, <2>3, DisconnectNowFares
<1> QED
  BY <1>1, <1>3, <1>4, FaresSame

\* A call that changes the session only.
LEMMA SessionFares ==
    ASSUME NEW w, NEW v,
           World(w) => /\ DOMAIN v = {"f", "c"} /\ IsSession(v.f) /\ v.c = w.c
                       /\ w.f.state # "CONNECTING" => v.f.state # "CONNECTING"
    PROVE  Fares(w, v)
<1> SUFFICES ASSUME NEW q, NEW n, IsQueue(q), n \in Nat, Settled(w, q, n) PROVE Settled(v, q, n) /\ Kept(w, v)
  BY Zenon DEF Fares
<1>1. World(w) /\ w.f.state # "CONNECTING" /\ (w.c.on => w.c.net # "syn" /\ Matched(w.c.expect, w.c, q, n))
  BY DEF Settled
<1> QED
  BY <1>1, Zenon DEF Settled, World, Kept

\* The changes of single fields of a session.
LEMMA FieldFares ==
    ASSUME NEW w
    PROVE  /\ \A e : Fares(w, SetError(w, e))
           /\ \A b : Fares(w, [w EXCEPT !.f.eof = b])
           /\ Fares(w, NoRest(w))
           /\ \A st \in States \ {"CONNECTING"} : Fares(w, To(w, st)) /\ Fares(w, [w EXCEPT !.f.state = st, !.f.eof = FALSE])
                                                  /\ Fares(w, [w EXCEPT !.f.state = st, !.f.eof = TRUE])
           /\ \A d : IsQueue(d) => Fares(w, [w EXCEPT !.f.rcwd = d])
           /\ \A d, g : IsQueue(d) /\ IsQueue(g) => Fares(w, [w EXCEPT !.f.rcwd = d, !.f.cwd = g])
<1> DEFINE Is(v) == World(w) => /\ DOMAIN v = {"f", "c"} /\ IsSession(v.f) /\ v.c = w.c
                                /\ w.f.state # "CONNECTING" => v.f.state # "CONNECTING"
<1>0. \A v : Is(v) => Fares(w, v)
  BY SessionFares
<1>1. \A e : Is(SetError(w, e))
  BY DEF SetError, World, IsSession, IdleSession
<1>2. \A b : Is([w EXCEPT !.f.eof = b])
  BY DEF World, IsSession, IdleSession
<1>3. Is(NoRest(w))
  BY DEF NoRest, World, IsSession, IdleSession
<1>4. \A st \in States \ {"CONNECTING"} : Is(To(w, st))
  BY DEF To, World, IsSession, IdleSession
<1>5. \A st \in States \ {"CONNECTING"} : Is([w EXCEPT !.f.state = st, !.f.eof = FALSE])
  BY DEF World, IsSession, IdleSession
<1>6. \A st \in States \ {"CONNECTING"} : Is([w EXCEPT !.f.state = st, !.f.eof = TRUE])
  BY DEF World, IsSession, IdleSession
<1>7. \A d : IsQueue(d) => Is([w EXCEPT !.f.rcwd = d])
  BY DEF World, IsSession, IdleSession
<1>8. \A d, g : IsQueue(d) /\ IsQueue(g) => Is([w EXCEPT !.f.rcwd = d, !.f.cwd = g])
  BY DEF World, IsSession, IdleSession
<1> HIDE DEF Is
<1> QED
  BY <1>0, <1>1, <1>2, <1>3, <1>4, <1>5, <1>6, <1>7, <1>8

\* The assignments of RestCheck.
LEMMA RestFares ==
    ASSUME NEW w, w.c.on, NEW v, v = [w EXCEPT !.f.real = w.c.rest_pos, !.c.last_rest = w.c.rest_pos]
    PROVE  Fares(w, v)
<1>1. ASSUME World(w)
      PROVE  /\ DOMAIN v = {"f", "c"} /\ IsSession(v.f) /\ SameQueues(w.c, v.c)
             /\ w.f.state # "CONNECTING" => v.f.state # "CONNECTING"
  <2>1. IsConn(w.c) /\ DOMAIN w = {"f", "c"} /\ IsSession(w.f)
    BY <1>1, WorldOn DEF World
  <2>2. DOMAIN v = {"f", "c"} /\ v.f = [w.f EXCEPT !.real = w.c.rest_pos] /\ v.c = [w.c EXCEPT !.last_rest = w.c.rest_pos]
    BY <2>1
  <2>3. SameQueues(w.c, v.c)
    BY <2>1, <2>2 DEF SameQueues, IsConn, NewConn
  <2>4. IsSession(v.f) /\ v.f.state = w.f.state
    BY <2>1, <2>2 DEF IsSession, IdleSession
  <2> QED
    BY <2>2, <2>3, <2>4
<1> QED
  BY <1>1, TweakFares

\* RestCheck keeps a state settled, whatever the code.
LEMMA RestCheckFares ==
    ASSUME NEW w, w.c.on, NEW code
    PROVE  Fares(w, RestCheck(w, code))
<1> DEFINE v == [w EXCEPT !.f.real = 0]
<1>1. \/ RestCheck(w, code) = [w EXCEPT !.f.real = w.c.rest_pos, !.c.last_rest = w.c.rest_pos]
      \/ RestCheck(w, code) = v \/ RestCheck(w, code) = NoRest(v) \/ RestCheck(w, code) = Disconnect(v)
  BY DEF RestCheck
<1>2. Fares(w, v)
  <2>1. World(w) => /\ DOMAIN v = {"f", "c"} /\ IsSession(v.f) /\ v.c = w.c
                    /\ w.f.state # "CONNECTING" => v.f.state # "CONNECTING"
    BY DEF World, IsSession, IdleSession
  <2> HIDE DEF v
  <2> QED
    BY <2>1, SessionFares
<1> HIDE DEF v
<1>3. Fares(v, NoRest(v)) /\ Fares(v, Disconnect(v))
  BY FieldFares, DisconnectFares
<1>4. Fares(w, NoRest(v)) /\ Fares(w, Disconnect(v))
  BY <1>2, <1>3, FaresOn
<1> QED
  BY <1>1, <1>2, <1>4, RestFares

\* The ways back to EOF_STATE.
LEMMA RetryFares == \A w : Fares(w, Retry(w)) /\ Fares(w, To(DataClose(w), "EOF"))
                           /\ Fares(w, [NoRest(DataClose(w)) EXCEPT !.f.state = "EOF"])
                           /\ Fares(w, [DataClose(w) EXCEPT !.f.state = "EOF", !.f.eof = TRUE])
<1> TAKE w
<1> DEFINE v == DataClose(w)
<1>1. Fares(w, v)
  BY DataCloseFares
<1>2. Retry(w) = [v EXCEPT !.f.state = "EOF", !.f.eof = FALSE]
  BY DEF Retry
<1> HIDE DEF v
<1>3. "EOF" \in States \ {"CONNECTING"}
  BY DEF States
<1>4. Fares(v, [v EXCEPT !.f.state = "EOF", !.f.eof = FALSE]) /\ Fares(v, To(v, "EOF")) /\ Fares(v, NoRest(v))
      /\ Fares(v, [v EXCEPT !.f.state = "EOF", !.f.eof = TRUE])
  BY <1>3, FieldFares, Zenon
<1>5. Fares(NoRest(v), To(NoRest(v), "EOF")) /\ To(NoRest(v), "EOF") = [NoRest(v) EXCEPT !.f.state = "EOF"]
  BY <1>3, FieldFares, Zenon DEF To
<1>6. Fares(w, [v EXCEPT !.f.state = "EOF", !.f.eof = FALSE]) /\ Fares(w, To(v, "EOF"))
      /\ Fares(w, [v EXCEPT !.f.state = "EOF", !.f.eof = TRUE])
  BY <1>1, <1>4, FaresOn, Zenon
<1>7. Fares(w, [NoRest(v) EXCEPT !.f.state = "EOF"])
  BY <1>1, <1>4, <1>5, FaresOn, Zenon
<1> QED
  BY <1>2, <1>6, <1>7, Zenon DEF v

\* NoFileCheck keeps a state settled, whatever the code.
LEMMA NoFileCheckFares == \A w, code : Fares(w, NoFileCheck(w, code))
<1> TAKE w, code
<1>1. \/ NoFileCheck(w, code) = w \/ NoFileCheck(w, code) = [NoRest(DataClose(w)) EXCEPT !.f.state = "EOF"]
      \/ NoFileCheck(w, code) = SetError(w, "NO_FILE") \/ NoFileCheck(w, code) = SetError(Retry(w), "STORE_FAILED")
      \/ NoFileCheck(w, code) = Retry(w)
  BY DEF NoFileCheck
<1>2. Fares(w, Retry(w)) /\ Fares(Retry(w), SetError(Retry(w), "STORE_FAILED")) /\ Fares(w, SetError(w, "NO_FILE"))
  BY RetryFares, FieldFares
<1>3. Fares(w, SetError(Retry(w), "STORE_FAILED"))
  BY <1>2, FaresOn
<1> QED
  BY <1>1, <1>2, <1>3, RetryFares, FaresSame, Zenon

\* TransferCheck keeps a state settled, whatever the code.
LEMMA TransferCheckFares ==
    ASSUME NEW w, w.c.on, NEW code
    PROVE  Fares(w, TransferCheck(w, code))
<1> DEFINE a == [w EXCEPT !.c = CloseAborted(@)]
           v == IF code = 2 THEN a ELSE w
           d == [DataClose(v) EXCEPT !.f.state = "EOF"]
           u == IF code = 426 /\ w.f.mode = "STORE" THEN SetError(d, "FATAL")
                ELSE IF code = 2 /\ w.c.data = "none" THEN [v EXCEPT !.f.eof = TRUE] ELSE v
           x == [DataClose(v) EXCEPT !.f.state = "EOF", !.f.eof = TRUE]
<1>1. TransferCheck(w, code) = x \/ TransferCheck(w, code) = NoFileCheck(u, code)
  BY DEF TransferCheck
<1>2. Fares(w, v)
  <2>1. Fares(w, a)
    BY AbortDataFares
  <2> HIDE DEF a
  <2> QED
    BY <2>1, FaresSame
<1> HIDE DEF v
<1>3. Fares(v, x) /\ Fares(v, d)
  BY RetryFares, Zenon DEF To
<1>4. Fares(v, u)
  <2>1. Fares(d, SetError(d, "FATAL")) /\ Fares(v, [v EXCEPT !.f.eof = TRUE])
    BY FieldFares
  <2> HIDE DEF d
  <2>2. Fares(v, SetError(d, "FATAL"))
    BY <1>3, <2>1, FaresOn
  <2> QED
    BY <2>1, <2>2, FaresSame
<1> HIDE DEF u, x
<1>5. Fares(w, x) /\ Fares(w, u)
  BY <1>2, <1>3, <1>4, FaresOn
<1>6. Fares(w, NoFileCheck(u, code))
  BY <1>5, NoFileCheckFares, FaresOn
<1> QED
  BY <1>1, <1>5, <1>6

\* CheckResp keeps a state settled, whatever was expected and came.
LEMMA ExpectedFares ==
    ASSUME NEW w, w.c.on, NEW e, Expectation(e), NEW code
    PROVE  Fares(w, Expected(w, e, code))
<1> DEFINE v == Expected(w, e, code)  ok == Class(code) = 2
           have == [w EXCEPT !.f.pasv = "have", !.c.aborted = IF @ = "unbound" THEN "connecting" ELSE @]
<1>1. Fares(w, w) /\ Fares(w, Disconnect(w)) /\ Fares(w, SetError(w, "LOGIN_FAILED")) /\ Fares(w, SetError(w, "NO_FILE"))
      /\ Fares(w, RestCheck(w, code)) /\ Fares(w, NoFileCheck(w, code)) /\ Fares(w, TransferCheck(w, code))
      /\ Fares(w, [w EXCEPT !.c = CloseAborted(@)])
  BY FaresSame, DisconnectFares, FieldFares, RestCheckFares, NoFileCheckFares, TransferCheckFares, AbortDataFares
<1>2. Fares(w, [w EXCEPT !.f.rcwd = e.arg])
  BY FieldFares DEF Expectation
<1>3. Fares(w, [w EXCEPT !.f.rcwd = e.arg, !.f.cwd = w.f.file])
  <2> DEFINE u == [w EXCEPT !.f.rcwd = e.arg, !.f.cwd = w.f.file]
  <2>1. World(w) => IsQueue(w.f.file) /\ IsQueue(e.arg)
    BY DEF World, IsSession, Expectation
  <2>2. IsQueue(w.f.file) /\ IsQueue(e.arg) => Fares(w, u)
    BY FieldFares
  <2> HIDE DEF u
  <2>3. ASSUME NEW q, NEW n, IsQueue(q), n \in Nat, Settled(w, q, n) PROVE Settled(u, q, n) /\ Kept(w, u)
    BY <2>1, <2>2, <2>3, Zenon DEF Fares, Settled
  <2> QED
    BY <2>3, Zenon DEF Fares, u
<1>4. Fares(w, [w EXCEPT !.f.rcwd = e.arg, !.f.cwd = w.f.cwd])
  <2> DEFINE u == [w EXCEPT !.f.rcwd = e.arg, !.f.cwd = w.f.cwd]
  <2>1. World(w) => IsQueue(w.f.cwd) /\ IsQueue(e.arg)
    BY DEF World, IsSession, Expectation
  <2>2. IsQueue(w.f.cwd) /\ IsQueue(e.arg) => Fares(w, u)
    BY FieldFares
  <2> HIDE DEF u
  <2>3. ASSUME NEW q, NEW n, IsQueue(q), n \in Nat, Settled(w, q, n) PROVE Settled(u, q, n) /\ Kept(w, u)
    BY <2>1, <2>2, <2>3, Zenon DEF Fares, Settled
  <2> QED
    BY <2>3, Zenon DEF Fares, u
<1>5. Fares(w, have)
  <2>1. ASSUME World(w)
        PROVE  /\ DOMAIN have = {"f", "c"} /\ IsSession(have.f) /\ SameQueues(w.c, have.c)
               /\ w.f.state # "CONNECTING" => have.f.state # "CONNECTING"
    <3>1. IsConn(w.c) /\ DOMAIN w = {"f", "c"} /\ IsSession(w.f)
      BY <2>1, WorldOn DEF World
    <3>2. /\ DOMAIN have = {"f", "c"} /\ have.f = [w.f EXCEPT !.pasv = "have"]
          /\ have.c = [w.c EXCEPT !.aborted = IF @ = "unbound" THEN "connecting" ELSE @]
      BY <3>1
    <3> HIDE DEF have
    <3>3. SameQueues(w.c, have.c)
      BY <3>1, <3>2 DEF SameQueues, IsConn, NewConn
    <3>4. IsSession(have.f) /\ have.f.state = w.f.state
      BY <3>1, <3>2 DEF IsSession, IdleSession
    <3> QED
      BY <3>2, <3>3, <3>4
  <2> HIDE DEF have
  <2> QED
    BY <2>1, TweakFares
<1>6. e.kind \in ExpectKinds
  BY DEF Expectation
<1>7. \/ v = w \/ v = Disconnect(w) \/ v = SetError(w, "LOGIN_FAILED") \/ v = SetError(w, "NO_FILE")
      \/ v = RestCheck(w, code) \/ v = NoFileCheck(w, code) \/ v = TransferCheck(w, code)
      \/ v = [w EXCEPT !.c = CloseAborted(@)] \/ v = [w EXCEPT !.f.rcwd = e.arg]
      \/ v = [w EXCEPT !.f.rcwd = e.arg, !.f.cwd = w.f.file] \/ v = [w EXCEPT !.f.rcwd = e.arg, !.f.cwd = w.f.cwd] \/ v = have
  <2>1. CASE e.kind \in {"IGNORE", "TRANSFER_CLOSED", "READY", "PASS", "REST"}
    BY <2>1 DEF Expected
  <2>2. CASE e.kind = "CWD_STALE"
    BY <2>2 DEF Expected
  <2>3. CASE e.kind = "CWD"
    BY <2>3 DEF Expected
  <2>4. CASE e.kind = "CWD_CURR"
    BY <2>4 DEF Expected
  <2>5. CASE e.kind \in {"ABOR", "FILE_ACCESS", "TRANSFER"}
    BY <2>5 DEF Expected
  <2>6. CASE e.kind = "PASV"
    BY <2>6 DEF Expected
  <2> QED
    BY <1>6, <2>1, <2>2, <2>3, <2>4, <2>5, <2>6 DEF ExpectKinds
<1> HIDE DEF v, have
<1>8. Fares(w, v)
  BY <1>1, <1>2, <1>3, <1>4, <1>5, <1>7
<1> QED
  BY <1>8 DEF v

\* Only the queues of a settled state change, and they still belong together.
LEMMA Rearranged ==
    ASSUME NEW w, NEW q, NEW n, NEW m, Settled(w, q, n), w.c.on,
           NEW v, DOMAIN v = {"f", "c"}, v.f = w.f, IsConn(v.c), v.c.net = w.c.net, v.c.out = w.c.out,
           w.c.net = "up" => Lined(v.c.expect, v.c.sync_wait, v.c.xfer, v.c.inq, v.c.unsent, q, m)
    PROVE  Settled(v, q, m) /\ Kept(w, v) /\ v.c.on
<1>1. World(w) /\ w.f.state # "CONNECTING" /\ w.c.net # "syn"
  BY DEF Settled
<1>2. Matched(v.c.expect, v.c, q, m)
  BY Zenon DEF Matched
<1>3. v.c.on
  BY DEF IsConn
<1> QED
  BY <1>1, <1>2, <1>3, Zenon DEF Settled, World, Kept

\* A preliminary reply
LEMMA PreliminarySettled ==
    ASSUME NEW w, NEW q, IsQueue(q), NEW n \in Nat, Settled(w, q, n), w.c.on, n < Len(q), ~Final(q[n + 1])
    PROVE  Settled(CheckResp(w, 1), q, n + 1) /\ Kept(w, CheckResp(w, 1))
<1> DEFINE c == w.c  d == CloseAborted(c)  v == [w EXCEPT !.c = [d EXCEPT !.got150 = @ \/ First(c, "TRANSFER")]]
<1>1. CheckResp(w, 1) = v
  BY DEF CheckResp
<1>2. DOMAIN w = {"f", "c"} /\ IsConn(c) /\ (c.net = "up" => Lined(c.expect, c.sync_wait, c.xfer, c.inq, c.unsent, q, n))
  BY WorldOn DEF Settled, World, Matched
<1>3. SameQueues(c, d) /\ IsConn(d)
  BY <1>2, DataSame, SameIsConn
<1> HIDE DEF d, c
<1>4. DOMAIN v = {"f", "c"} /\ v.f = w.f /\ v.c = [d EXCEPT !.got150 = @ \/ First(c, "TRANSFER")]
  BY <1>2
<1> HIDE DEF v
<1>5. SameQueues(d, v.c)
  BY <1>3, <1>4 DEF SameQueues, IsConn, NewConn
<1>6. IsConn(v.c) /\ SameQueues(c, v.c)
  BY <1>3, <1>5, SameIsConn DEF SameQueues
<1>7. c.net = "up" => Lined(c.expect, c.sync_wait, c.xfer, c.inq, c.unsent, q, n + 1)
  <2>1. IsQueue(c.inq) /\ IsQueue(c.unsent)
    BY <1>2 DEF IsConn
  <2> QED
    BY <1>2, <2>1, LinedSkip, Zenon
<1>8. c.net = "up" => Lined(v.c.expect, v.c.sync_wait, v.c.xfer, v.c.inq, v.c.unsent, q, n + 1)
  BY <1>6, <1>7, Zenon DEF SameQueues
<1> QED
  BY <1>1, <1>4, <1>6, <1>8, Rearranged, Zenon DEF SameQueues, c

\* An expectation is taken off the queue.
LEMMA ExpectsTail ==
    ASSUME NEW E, Expects(E), E # <<>>
    PROVE  Expects(Tail(E)) /\ Expectation(Head(E))
<1>1. IsQueue(E) /\ Len(E) \in Nat
  BY DEF Expects, IsQueue
<1>2. /\ IsQueue(Tail(E)) /\ Len(E) >= 1 /\ Len(Tail(E)) = Len(E) - 1 /\ Head(E) = E[1]
      /\ \A i \in 1..Len(Tail(E)) : Tail(E)[i] = E[i + 1]
  BY <1>1, TailIs
<1> DEFINE T == Tail(E)
<1> HIDE DEF T
<1>3. \A i \in 1..Len(T) : Expectation(T[i])
  BY <1>1, <1>2 DEF Expects, T
<1>4. Expectation(E[1])
  <2>1. 1 \in 1..Len(E)
    BY <1>1, <1>2
  <2> QED
    BY <2>1 DEF Expects
<1> QED
  BY <1>2, <1>3, <1>4 DEF Expects, T

\* A reply, whether it is expected, comes too early or is the end
LEMMA ReplySettled ==
    ASSUME NEW w, NEW q, IsQueue(q), NEW n \in Nat, Settled(w, q, n), n < Len(q)
    PROVE  Settled(Reply(w, q[n + 1]), q, n + 1) /\ Kept(w, Reply(w, q[n + 1]))
<1> DEFINE r == q[n + 1]  code == r.code  c == w.c
           answers == code # 1 /\ c.sync_wait > 0
           wait == IF answers THEN c.sync_wait - 1 ELSE c.sync_wait
           u == [w EXCEPT !.c.sync_wait = wait]
           v == [u EXCEPT !.c.quit = @ \/ code = 421]
           x == [v EXCEPT !.c.expect = Tail(@)]
<1>1. Reply(w, r) = IF w.c.on /\ (answers \/ code \in {1, 421}) THEN CheckResp(u, code) ELSE w
  BY DEF Reply
<1>2. CASE ~w.c.on
  <2>1. Settled(w, q, n + 1)
    BY <1>2, Zenon DEF Settled
  <2> QED
    BY <1>1, <1>2, <2>1 DEF Kept
<1>3. CASE w.c.on
  <2>1. /\ DOMAIN w = {"f", "c"} /\ IsConn(c) /\ IsSession(w.f) /\ w.f.state # "CONNECTING" /\ c.net # "syn"
        /\ c.net = "up" => Lined(c.expect, c.sync_wait, c.xfer, c.inq, c.unsent, q, n)
    BY <1>3, WorldOn DEF Settled, World, Matched
  <2>2. IsQueue(c.inq) /\ IsQueue(c.unsent) /\ IsQueue(c.expect) /\ Expects(c.expect) /\ c.sync_wait \in Int
    BY <2>1 DEF IsConn, Expects
  <2>3. wait \in Int
    BY <2>2
  <2> HIDE DEF wait
  <2>4. /\ DOMAIN u = {"f", "c"} /\ u.f = w.f /\ DOMAIN u.c = DOMAIN c /\ u.c.on = c.on /\ u.c.sync_wait = wait
        /\ u.c.expect = c.expect /\ u.c.unsent = c.unsent /\ u.c.inq = c.inq /\ u.c.out = c.out /\ u.c.xfer = c.xfer
        /\ u.c.net = c.net
    BY <2>1 DEF IsConn, NewConn
  <2>5. IsConn(u.c)
    BY <2>1, <2>3, <2>4, Zenon DEF IsConn
  <2> HIDE DEF u
  <2>6. /\ DOMAIN v = {"f", "c"} /\ v.f = w.f /\ DOMAIN v.c = DOMAIN c /\ v.c.on = c.on /\ v.c.sync_wait = wait
        /\ v.c.expect = c.expect /\ v.c.unsent = c.unsent /\ v.c.inq = c.inq /\ v.c.out = c.out /\ v.c.xfer = c.xfer
        /\ v.c.net = c.net
    BY <2>4, <2>5 DEF IsConn, NewConn
  <2>7. IsConn(v.c)
    BY <2>1, <2>3, <2>6, Zenon DEF IsConn
  <2> HIDE DEF v
  <2>8. /\ DOMAIN x = {"f", "c"} /\ x.f = w.f /\ DOMAIN x.c = DOMAIN c /\ x.c.on = c.on /\ x.c.sync_wait = wait
        /\ x.c.expect = Tail(c.expect) /\ x.c.unsent = c.unsent /\ x.c.inq = c.inq /\ x.c.out = c.out /\ x.c.xfer = c.xfer
        /\ x.c.net = c.net
    BY <2>6, <2>7 DEF IsConn, NewConn
  <2>9. c.expect # <<>> => IsConn(x.c)
    <3>1. c.expect # <<>> => Expects(Tail(c.expect))
      BY <2>2, ExpectsTail
    <3> QED
      BY <2>1, <2>3, <2>8, <3>1, Zenon DEF IsConn
  <2> HIDE DEF x
  <2>10. CASE code = 1
    <3>1. ~Final(q[n + 1]) /\ ~answers
      BY <2>10 DEF Final
    <3>2. wait = c.sync_wait
      BY <3>1 DEF wait
    <3> HIDE DEF answers
    <3>3. SameQueues(c, u.c)
      BY <2>4, <3>2, Zenon DEF SameQueues
    <3>4. Settled(u, q, n) /\ Kept(w, u) /\ u.c.on
      BY <1>3, <2>1, <2>4, <3>3, Tweaked
    <3>5. Settled(CheckResp(u, 1), q, n + 1) /\ Kept(u, CheckResp(u, 1))
      BY <3>1, <3>4, PreliminarySettled
    <3>6. Reply(w, r) = CheckResp(u, 1)
      BY <1>1, <1>3, <2>10
    <3> QED
      BY <3>4, <3>5, <3>6, KeptOn
  <2>11. CASE code # 1
    <3>1. Final(q[n + 1])
      BY <2>11 DEF Final
    <3>2. c.net = "up" => /\ c.expect # <<>> /\ c.sync_wait > 0
                          /\ Lined(Tail(c.expect), c.sync_wait - 1, c.xfer, c.inq, c.unsent, q, n + 1)
      BY <2>1, <2>2, <3>1, LinedReply, Zenon
    <3>3. CASE ~answers /\ code # 421
      <4>1. Reply(w, r) = w /\ c.net # "up"
        BY <1>1, <2>11, <3>2, <3>3
      <4> QED
        BY <4>1, <1>3, <2>1, Rearranged
    <3>4. CASE answers \/ code = 421
      <4>1. Reply(w, r) = CheckResp(u, code)
        BY <1>1, <1>3, <3>4
      <4>2. CheckResp(u, code) = IF c.expect = <<>> THEN IF code = 2 THEN v ELSE Disconnect(v)
                                 ELSE Expected(x, Head(c.expect), code)
        BY <2>4, <2>6, <2>11 DEF CheckResp, v, x
      <4>3. CASE c.expect = <<>>
        <5>1. Settled(v, q, n + 1) /\ Kept(w, v)
          BY <1>3, <2>1, <2>6, <2>7, <3>2, <4>3, Rearranged
        <5>2. Settled(Disconnect(v), q, n + 1) /\ Kept(v, Disconnect(v))
          <6>1. n + 1 \in Nat
            OBVIOUS
          <6> QED
            BY <5>1, <6>1, DisconnectFares, Zenon DEF Fares
        <5>3. Kept(w, Disconnect(v))
          BY <5>1, <5>2, KeptOn
        <5> QED
          BY <4>1, <4>2, <4>3, <5>1, <5>2, <5>3
      <4>4. CASE c.expect # <<>>
        <5>1. c.net = "up" => wait = c.sync_wait - 1
          BY <2>11, <3>2 DEF wait
        <5>2. c.net = "up" => Lined(x.c.expect, x.c.sync_wait, x.c.xfer, x.c.inq, x.c.unsent, q, n + 1)
          BY <2>8, <3>2, <5>1, Zenon
        <5>3. Settled(x, q, n + 1) /\ Kept(w, x) /\ x.c.on
          BY <1>3, <2>1, <2>8, <2>9, <4>4, <5>2, Rearranged
        <5>4. Expectation(Head(c.expect))
          BY <2>2, <4>4, ExpectsTail
        <5> DEFINE y == Expected(x, Head(c.expect), code)
        <5>5. Fares(x, y)
          BY <5>3, <5>4, ExpectedFares
        <5> HIDE DEF y
        <5>6. Settled(y, q, n + 1) /\ Kept(x, y)
          <6>1. n + 1 \in Nat
            OBVIOUS
          <6> QED
            BY <5>3, <5>5, <6>1, Zenon DEF Fares
        <5>7. Kept(w, y)
          BY <5>3, <5>6, KeptOn
        <5> QED
          BY <4>1, <4>2, <4>4, <5>6, <5>7 DEF y
      <4> QED
        BY <4>3, <4>4
    <3> QED
      BY <3>3, <3>4
  <2> QED
    BY <2>10, <2>11
<1> QED
  BY <1>2, <1>3

\* A session and its connection, between two calls
Steady(w) == Settled(w, w.c.out, 0)

\* A call that keeps any settled state so keeps a steady one so.
LEMMA SteadyFares ==
    ASSUME NEW w, Steady(w), NEW v, Fares(w, v)
    PROVE  Steady(v)
<1>1. CASE w.c.on
  <2>1. IsQueue(w.c.out)
    BY <1>1, WorldOn DEF Steady, Settled, IsConn
  <2>2. Settled(v, w.c.out, 0) /\ Kept(w, v)
    BY <2>1 DEF Steady, Fares
  <2>3. v.c.on => v.c.out = w.c.out
    BY <2>2 DEF Kept
  <2> QED
    BY <2>2, <2>3, Zenon DEF Steady, Settled
<1>2. CASE ~w.c.on
  <2>1. Settled(w, <<>>, 0)
    BY <1>2, Zenon DEF Steady, Settled
  <2>2. Settled(v, <<>>, 0) /\ Kept(w, v)
    BY <2>1, NoneIs DEF Fares
  <2> QED
    BY <1>2, <2>2, Zenon DEF Steady, Settled, Kept
<1> QED
  BY <1>1, <1>2

\* The replies r handled one after the other, beginning with u
Handles(g, u, r) == g = [n \in 0..Len(r) |-> IF n = 0 THEN u ELSE Reply(g[n - 1], r[n])]

\* The function that handles the replies one by one exists.
LEMMA HandlesExists ==
    ASSUME NEW u, NEW r, IsQueue(r)
    PROVE  \E g : Handles(g, u, r)
<1> DEFINE P(k) == \E g : g = [n \in 0..k |-> IF n = 0 THEN u ELSE Reply(g[n - 1], r[n])]
           S == {k \in Nat : ~P(k)}
<1>1. SUFFICES S = {}
  <2>1. Len(r) \in Nat
    BY DEF IsQueue
  <2> HIDE DEF P
  <2>2. P(Len(r))
    BY <1>1, <2>1
  <2> QED
    BY <2>2 DEF P, Handles
<1>2. SUFFICES ASSUME S # {} PROVE FALSE
  OBVIOUS
<1>3. PICK m \in S : \A x \in S : m <= x
  BY <1>2, Least
<1>4. CASE m = 0
  <2> DEFINE g == [n \in 0..0 |-> u]
  <2>1. g = [n \in 0..0 |-> IF n = 0 THEN u ELSE Reply(g[n - 1], r[n])]
    OBVIOUS
  <2> HIDE DEF g
  <2>2. P(0)
    BY <2>1
  <2> QED
    BY <1>3, <1>4, <2>2
<1>5. CASE m # 0
  <2>1. m \in Nat /\ m - 1 \in Nat /\ ~(m <= m - 1)
    BY <1>5
  <2>2. P(m - 1)
    <3> HIDE DEF P
    <3>1. m - 1 \notin S
      BY <1>3, <2>1
    <3> QED
      BY <2>1, <3>1
  <2>3. PICK g : g = [n \in 0..m - 1 |-> IF n = 0 THEN u ELSE Reply(g[n - 1], r[n])]
    BY <2>2
  <2> DEFINE h == [n \in 0..m |-> IF n = m THEN Reply(g[m - 1], r[m]) ELSE g[n]]
  <2>4. \A n \in 0..m : h[n] = IF n = 0 THEN u ELSE Reply(h[n - 1], r[n])
    <3> SUFFICES ASSUME NEW n \in 0..m PROVE h[n] = IF n = 0 THEN u ELSE Reply(h[n - 1], r[n])
      OBVIOUS
    <3>1. CASE n = m
      <4>1. n - 1 \in 0..m /\ n - 1 # m /\ n # 0
        BY <2>1, <3>1, <1>5
      <4>2. h[n - 1] = g[m - 1]
        BY <3>1, <4>1
      <4>3. h[n] = Reply(g[m - 1], r[m])
        BY <3>1
      <4> HIDE DEF h
      <4> QED
        BY <3>1, <4>1, <4>2, <4>3
    <3>2. CASE n # m
      <4>1. n \in 0..m - 1
        BY <2>1, <3>2
      <4>2. h[n] = g[n]
        BY <3>2
      <4>3. g[n] = IF n = 0 THEN u ELSE Reply(g[n - 1], r[n])
        BY <2>3, <4>1
      <4>4. n # 0 => h[n - 1] = g[n - 1]
        <5>1. n # 0 => n - 1 \in 0..m /\ n - 1 # m
          BY <2>1, <3>2
        <5> QED
          BY <5>1
      <4> HIDE DEF h
      <4> QED
        BY <4>2, <4>3, <4>4
    <3> QED
      BY <3>1, <3>2
  <2>5. h = [n \in 0..m |-> h[n]]
    OBVIOUS
  <2> HIDE DEF h
  <2>6. h = [n \in 0..m |-> IF n = 0 THEN u ELSE Reply(h[n - 1], r[n])]
    BY <2>4, <2>5
  <2>7. P(m)
    BY <2>6
  <2> HIDE DEF P
  <2> QED
    BY <1>3, <2>7
<1> QED
  BY <1>4, <1>5

\* After the k-th reply the rest of the replies belong to the rest of the expectations.
LEMMA HandlesSettled ==
    ASSUME NEW r, IsQueue(r), NEW u, Settled(u, r, 0), NEW g, Handles(g, u, r), NEW k \in 0..Len(r)
    PROVE  Settled(g[k], r, k) /\ Kept(u, g[k])
<1> DEFINE P(n) == Settled(g[n], r, n) /\ Kept(u, g[n])  S == {n \in 0..Len(r) : ~P(n)}
<1>1. Len(r) \in Nat
  BY DEF IsQueue
<1>2. SUFFICES ASSUME S # {} PROVE FALSE
  OBVIOUS
<1>3. PICK m \in S : \A x \in S : m <= x
  <2>1. S \in SUBSET Nat
    BY <1>1
  <2> HIDE DEF S
  <2> QED
    BY <1>2, <2>1, Least
<1>31. \A n \in 0..Len(r) : g[n] = IF n = 0 THEN u ELSE Reply(g[n - 1], r[n])
  BY DEF Handles
<1>4. CASE m = 0
  <2>1. g[0] = u
    BY <1>1, <1>31
  <2>2. P(0)
    BY <2>1 DEF Kept
  <2> QED
    BY <1>3, <1>4, <2>2
<1>5. CASE m # 0
  <2>1. m \in Nat /\ m - 1 \in Nat /\ m - 1 \in 0..Len(r) /\ ~(m <= m - 1) /\ m - 1 < Len(r) /\ (m - 1) + 1 = m
    BY <1>1, <1>3, <1>5
  <2>2. P(m - 1)
    <3> HIDE DEF P
    <3>1. m - 1 \notin S
      BY <1>3, <2>1
    <3> QED
      BY <2>1, <3>1
  <2>3. g[m] = Reply(g[m - 1], r[m])
    BY <1>3, <1>5, <1>31
  <2>4. Settled(Reply(g[m - 1], r[(m - 1) + 1]), r, (m - 1) + 1) /\ Kept(g[m - 1], Reply(g[m - 1], r[(m - 1) + 1]))
    BY <2>1, <2>2, ReplySettled
  <2>5. Settled(g[m], r, m) /\ Kept(g[m - 1], g[m])
    BY <2>1, <2>3, <2>4
  <2>6. P(m)
    BY <2>2, <2>5, KeptOn
  <2> HIDE DEF P
  <2> QED
    BY <1>3, <2>6
<1> QED
  BY <1>4, <1>5

\* The end of the connection, in ReceiveResp.
LEMMA HangUpSteady == \A w : Steady(w) => Steady(HangUp(w))
<1> SUFFICES ASSUME NEW w, Steady(w) PROVE Steady(HangUp(w))
  OBVIOUS
<1>1. Steady(DisconnectNow(w))
  BY DisconnectNowFares, SteadyFares
<1> QED
  BY <1>1 DEF HangUp

\* ReceiveResp has taken all replies and each for the right command.
LEMMA ReceiveRespSteady ==
    ASSUME NEW w, Steady(w)
    PROVE  Steady(ReceiveResp(w))
<1> DEFINE r == w.c.out  u == [w EXCEPT !.c.out = <<>>]  after == CHOOSE g : Handles(g, u, r)  v == after[Len(r)]
<1>1. ReceiveResp(w) = IF ~w.c.on \/ w.c.net = "syn" THEN w ELSE HangUp(v)
  BY DEF ReceiveResp, Handles
<1>2. CASE ~w.c.on \/ w.c.net = "syn"
  BY <1>1, <1>2
<1>3. CASE w.c.on
  <2>1. DOMAIN w = {"f", "c"} /\ IsConn(w.c) /\ Settled(w, r, 0)
    BY <1>3, WorldOn DEF Steady, Settled, World
  <2>2. IsQueue(r) /\ Len(r) \in Nat /\ Len(r) \in 0..Len(r)
    BY <2>1 DEF IsConn, IsQueue
  <2>3. /\ DOMAIN u = {"f", "c"} /\ u.f = w.f /\ DOMAIN u.c = DOMAIN w.c /\ u.c.on = w.c.on /\ u.c.sync_wait = w.c.sync_wait
        /\ u.c.expect = w.c.expect /\ u.c.unsent = w.c.unsent /\ u.c.inq = w.c.inq /\ u.c.out = <<>> /\ u.c.xfer = w.c.xfer
        /\ u.c.net = w.c.net
    BY <2>1 DEF IsConn, NewConn
  <2> HIDE DEF u
  <2>4. IsConn(u.c)
    BY <2>1, <2>3, NoneIs, Zenon DEF IsConn
  <2>5. Settled(u, r, 0) /\ u.c.on
    BY <1>3, <2>1, <2>3, <2>4, Zenon DEF Settled, World, Matched
  <2>6. Handles(after, u, r)
    BY <2>2, HandlesExists, Zenon
  <2> HIDE DEF after
  <2>7. Settled(v, r, Len(r)) /\ Kept(u, v)
    BY <2>2, <2>5, <2>6, HandlesSettled
  <2> HIDE DEF v
  <2>8. Steady(v)
    <3>1. CASE ~v.c.on
      BY <2>7, <3>1, Zenon DEF Steady, Settled
    <3>2. CASE v.c.on
      <4>1. v.c.out = <<>>
        BY <2>3, <2>7, <3>2 DEF Kept
      <4>2. v.c.net = "up" => Lined(v.c.expect, v.c.sync_wait, v.c.xfer, v.c.inq, v.c.unsent, r, Len(r))
        BY <2>7, <3>2 DEF Settled, Matched
      <4>3. v.c.net = "up" => Lined(v.c.expect, v.c.sync_wait, v.c.xfer, v.c.inq, v.c.unsent, <<>>, 0)
        BY <2>2, <4>2, LinedDone
      <4> QED
        BY <2>7, <3>2, <4>1, <4>3, Zenon DEF Steady, Settled, Matched
    <3> QED
      BY <3>1, <3>2
  <2> QED
    BY <1>1, <1>3, <2>8, HangUpSteady
<1> QED
  BY <1>2, <1>3

\* The beginning of every state of Do.
LEMMA ExchangeSteady == \A w : Steady(w) => Steady(Exchange(w))
<1> SUFFICES ASSUME NEW w, Steady(w) PROVE Steady(Exchange(w))
  OBVIOUS
<1>1. Steady(Flush(w, FALSE))
  BY FlushFares, SteadyFares
<1>2. Exchange(w) = ReceiveResp(w) \/ Exchange(w) = ReceiveResp(Flush(w, FALSE))
  BY DEF Exchange
<1> QED
  BY <1>1, <1>2, ReceiveRespSteady

-----------------------------------------------------------------------------
(* Changing the directory                                                  *)

\* FindLastCWD finds an expectation of CWD.
LEMMA LastCWDIs ==
    ASSUME NEW c, IsConn(c), HasCWD(c)
    PROVE  LastCWD(c) \in 1..Len(c.expect) /\ c.expect[LastCWD(c)].kind \in CwdKinds
<1> DEFINE E == c.expect  n == Len(E)
           T == {i \in DOMAIN E : E[i].kind \in CwdKinds}  S == {n - i : i \in T}
<1>1. IsQueue(E)
  BY DEF IsConn, Expects
<1>2. DOMAIN E = 1..n /\ n \in Nat
  BY <1>1, QueueIsSeq DEF IsQueue
<1>3. T # {}
  BY DEF HasCWD
<1> HIDE DEF E
<1>4. S \in SUBSET Nat /\ S # {} /\ \A i \in T : i \in 1..n
  BY <1>2, <1>3
<1> HIDE DEF n
<1>5. PICK m \in S : \A x \in S : m <= x
  <2> HIDE DEF S
  <2> QED
    BY <1>4, Least
<1>6. PICK i \in T : m = n - i
  BY <1>5
<1>7. \A j \in T : j <= i
  <2> SUFFICES ASSUME NEW j \in T PROVE j <= i
    OBVIOUS
  <2>1. n - i <= n - j
    BY <1>5, <1>6
  <2> QED
    BY <2>1, <1>2, <1>4
<1>8. \E k \in DOMAIN E : E[k].kind \in CwdKinds /\ \A j \in DOMAIN E : E[j].kind \in CwdKinds => j <= k
  BY <1>7
<1>9. LastCWD(c) \in DOMAIN E /\ E[LastCWD(c)].kind \in CwdKinds
  <2> DEFINE Q(k) == E[k].kind \in CwdKinds /\ \A j \in DOMAIN E : E[j].kind \in CwdKinds => j <= k
  <2>1. LastCWD(c) = CHOOSE k \in DOMAIN E : Q(k)
    BY Zenon DEF LastCWD, E
  <2>2. \E k \in DOMAIN E : Q(k)
    BY <1>8
  <2> HIDE DEF Q
  <2>3. LastCWD(c) \in DOMAIN E /\ Q(LastCWD(c))
    BY <2>1, <2>2, Zenon
  <2> QED
    BY <2>3 DEF Q
<1> QED
  BY <1>2, <1>9 DEF E, n

\* What one CWD is for may change.
LEMMA KindFares ==
    ASSUME NEW w, w.c.on, HasCWD(w.c), NEW kind \in CwdKinds,
           NEW v, v = [w EXCEPT !.c.expect[LastCWD(w.c)].kind = kind]
    PROVE  Fares(w, v)
<1> DEFINE c == w.c  E == c.expect  l == LastCWD(c)  D == [E EXCEPT ![l].kind = kind]
<1> SUFFICES ASSUME NEW q, NEW n, IsQueue(q), n \in Nat, Settled(w, q, n) PROVE Settled(v, q, n) /\ Kept(w, v)
  BY Zenon DEF Fares
<1>1. DOMAIN w = {"f", "c"} /\ IsConn(c) /\ (c.net = "up" => Lined(E, c.sync_wait, c.xfer, c.inq, c.unsent, q, n))
  BY WorldOn DEF Settled, World, Matched
<1>2. l \in 1..Len(E) /\ E[l].kind \in CwdKinds
  BY <1>1, LastCWDIs
<1> HIDE DEF l
<1>3. /\ DOMAIN v = {"f", "c"} /\ v.f = w.f /\ DOMAIN v.c = DOMAIN c /\ v.c.on = c.on /\ v.c.sync_wait = c.sync_wait
      /\ v.c.expect = D /\ v.c.unsent = c.unsent /\ v.c.inq = c.inq /\ v.c.out = c.out /\ v.c.xfer = c.xfer
      /\ v.c.net = c.net
  BY <1>1 DEF IsConn, NewConn, l
<1>4. Expects(E) /\ IsQueue(E) /\ Len(E) \in Nat
  BY <1>1 DEF IsConn, Expects, IsQueue
<1> HIDE DEF E
<1>5. /\ DOMAIN E = 1..Len(E) /\ E = [i \in 1..Len(E) |-> E[i]]
  BY <1>4, QueueIsSeq DEF IsQueue
<1>6. /\ DOMAIN D = 1..Len(E) /\ D = [i \in 1..Len(E) |-> D[i]]
      /\ D[l] = [E[l] EXCEPT !.kind = kind] /\ \A i \in 1..Len(E) : i # l => D[i] = E[i]
  BY <1>2, <1>5
<1> HIDE DEF D
<1>7. IsQueue(D) /\ Len(D) = Len(E)
  BY <1>4, <1>6, FunIs
<1>8. Expectation(D[l]) /\ D[l].kind = kind
  <2>1. Expectation(E[l])
    BY <1>2, <1>4 DEF Expects
  <2>2. kind \in ExpectKinds
    BY DEF ExpectKinds, CwdKinds
  <2> QED
    BY <2>1, <2>2, <1>6 DEF Expectation, Exp
<1>9. Expects(D)
  <2>1. \A i \in 1..Len(E) : Expectation(D[i])
    BY <1>4, <1>6, <1>8 DEF Expects
  <2> QED
    BY <1>7, <2>1 DEF Expects
<1>10. \A i \in 1..Len(E) : Answers(E[i].kind) \subseteq Answers(D[i].kind)
  <2>1. \A k \in CwdKinds : Answers(k) = {"CWD", "CWD rel"}
    BY DEF Answers, CwdKinds
  <2>2. Answers(E[l].kind) = Answers(D[l].kind)
    BY <2>1, <1>2, <1>8
  <2> QED
    BY <2>2, <1>6
<1>11. IsConn(v.c)
  BY <1>1, <1>3, <1>9, Zenon DEF IsConn
<1>12. c.net = "up" => Lined(D, c.sync_wait, c.xfer, c.inq, c.unsent, q, n)
  <2>1. IsQueue(c.inq) /\ IsQueue(c.unsent)
    BY <1>1 DEF IsConn
  <2> QED
    BY <1>1, <1>7, <1>10, <2>1, LinedStale, Zenon
<1> QED
  BY <1>1, <1>3, <1>11, <1>12, Rearranged, Zenon

\* The part of a path that is not sent name by name is a part of it.
LEMMA CwdBaseIs ==
    ASSUME NEW path, IsQueue(path), NEW rcwd, IsQueue(rcwd)
    PROVE  LET base == CwdBase(path, rcwd) IN IsQueue(base) /\ Len(path) - Len(base) \in Nat
<1> DEFINE base == CwdBase(path, rcwd)  one == SubSeq(path, 1, 1)
<1>1. Len(path) \in Nat /\ Len(rcwd) \in Nat
  BY DEF IsQueue
<1>2. CASE rcwd \notin {Unknown, <<>>} /\ IsStrictPrefix(rcwd, path)
  <2>1. base = rcwd
    BY <1>2 DEF CwdBase
  <2>2. Len(rcwd) <= Len(path)
    BY <1>2 DEF IsStrictPrefix, IsPrefix
  <2> HIDE DEF base
  <2> QED
    BY <1>1, <2>1, <2>2 DEF base
<1>3. CASE ~(rcwd \notin {Unknown, <<>>} /\ IsStrictPrefix(rcwd, path)) /\ (rcwd = <<>> \/ path = <<>>)
  <2>1. base = <<>>
    BY <1>3 DEF CwdBase
  <2> HIDE DEF base
  <2> QED
    BY <1>1, <2>1, NoneIs DEF base
<1>4. CASE ~(rcwd \notin {Unknown, <<>>} /\ IsStrictPrefix(rcwd, path)) /\ ~(rcwd = <<>> \/ path = <<>>)
  <2>1. base = one
    BY <1>4 DEF CwdBase
  <2>2. Len(path) >= 1
    BY <1>1, <1>4, NoneIs
  <2>3. IsQueue(one) /\ Len(one) = 1
    <3>1. IsQueue(one) /\ Len(one) = IF 1 <= 1 THEN 1 - 1 + 1 ELSE 0
      BY <1>1, <2>2, SubIs
    <3> HIDE DEF one
    <3> QED
      BY <3>1
  <2> HIDE DEF base, one
  <2> QED
    BY <1>1, <2>1, <2>2, <2>3 DEF base
<1> QED
  BY <1>2, <1>3, <1>4

\* SendCWD sends CWD commands only, to paths.
LEMMA CwdStepsIs ==
    ASSUME NEW path, IsQueue(path), NEW rcwd, IsQueue(rcwd)
    PROVE  LET steps == CwdSteps(path, rcwd) IN
           /\ IsQueue(steps)
           /\ \A i \in 1..Len(steps) : steps[i].op \in {"CWD", "CWD rel"} /\ IsQueue(steps[i].to)
<1> DEFINE steps == CwdSteps(path, rcwd)  base == CwdBase(path, rcwd)
           one == <<[op |-> "CWD", path |-> base, to |-> base]>>
           all == <<[op |-> "CWD", path |-> path, to |-> path]>>
           first == IF base = rcwd THEN <<>> ELSE one
           k == Len(path) - Len(base)
           more == [i \in 1..k |->
                        [op |-> "CWD rel", path |-> <<path[Len(base) + i]>>, to |-> SubSeq(path, 1, Len(base) + i)]]
           cat == first \o more
           Leads(q) == IsQueue(q) /\ \A i \in 1..Len(q) : q[i].op \in {"CWD", "CWD rel"} /\ IsQueue(q[i].to)
<1>1. IsQueue(base) /\ k \in Nat
  BY CwdBaseIs
<1>2. Leads(all) /\ Leads(one)
  <2>1. \A r : r.op = "CWD" /\ IsQueue(r.to) => Leads(<<r>>)
    <3> SUFFICES ASSUME NEW r, r.op = "CWD" /\ IsQueue(r.to) PROVE Leads(<<r>>)
      OBVIOUS
    <3> DEFINE o == <<r>>
    <3>1. IsQueue(o) /\ Len(o) = 1 /\ o[1] = r
      BY OneIs
    <3> HIDE DEF o
    <3>2. \A i \in 1..Len(o) : o[i] = r
      BY <3>1
    <3>3. Leads(o)
      BY <3>1, <3>2
    <3> QED
      BY <3>3 DEF o
  <2> HIDE DEF Leads
  <2> QED
    BY <2>1, <1>1
<1>3. Leads(<<>>)
  BY NoneIs
<1>4. Leads(more)
  <2>1. IsQueue(more) /\ Len(more) = k
    <3>1. DOMAIN more = 1..k /\ more = [i \in 1..k |-> more[i]]
      OBVIOUS
    <3> HIDE DEF more, k
    <3> QED
      BY <3>1, <1>1, FunIs
  <2>2. \A i \in 1..k : more[i].op = "CWD rel" /\ more[i].to = SubSeq(path, 1, Len(base) + i)
    OBVIOUS
  <2>3. Len(path) \in Nat /\ Len(base) \in Nat
    BY <1>1 DEF IsQueue
  <2> DEFINE m == Len(base)
  <2>4. k = Len(path) - m /\ m \in Nat
    BY <2>3
  <2> HIDE DEF base, m
  <2>5. \A i \in 1..k : m + i \in Nat /\ m + i <= Len(path)
    BY <2>3, <2>4
  <2>6. \A i \in 1..k : IsQueue(SubSeq(path, 1, m + i))
    BY <2>5, SubIs
  <2> HIDE DEF more, k
  <2>7. \A i \in 1..Len(more) : more[i].op = "CWD rel" /\ IsQueue(more[i].to)
    BY <2>1, <2>2, <2>6 DEF m
  <2> QED
    BY <2>1, <2>7
<1> HIDE DEF more, base, one, all
<1>5. Leads(first)
  <2> HIDE DEF Leads
  <2> QED
    BY <1>2, <1>3
<1> HIDE DEF first
<1>6. Leads(cat)
  <2>1. cat = first \o more
    OBVIOUS
  <2> HIDE DEF cat
  <2>2. IsQueue(first) /\ IsQueue(more) /\ Len(first) \in Nat /\ Len(more) \in Nat
    BY <1>4, <1>5 DEF IsQueue
  <2>3. IsQueue(cat)
    BY <2>1, <2>2, CatIs
  <2>4. Len(cat) = Len(first) + Len(more) /\ (\A i \in 1..Len(first) : cat[i] = first[i])
        /\ \A i \in 1..Len(more) : cat[Len(first) + i] = more[i]
    BY <2>1, <2>2, CatIs
  <2>5. \A i \in 1..Len(cat) : (\E j \in 1..Len(first) : cat[i] = first[j]) \/ (\E j \in 1..Len(more) : cat[i] = more[j])
    <3> SUFFICES ASSUME NEW i \in 1..Len(cat)
                 PROVE  (\E j \in 1..Len(first) : cat[i] = first[j]) \/ (\E j \in 1..Len(more) : cat[i] = more[j])
      OBVIOUS
    <3>1. CASE i <= Len(first)
      <4>1. i \in 1..Len(first)
        BY <2>2, <2>4, <3>1
      <4> QED
        BY <2>4, <4>1
    <3>2. CASE i > Len(first)
      <4> DEFINE j == i - Len(first)
      <4>1. j \in 1..Len(more) /\ i = Len(first) + j
        BY <2>2, <2>4, <3>2
      <4> HIDE DEF j
      <4>2. cat[i] = more[j]
        BY <2>4, <4>1
      <4> QED
        BY <4>1, <4>2
    <3>3. i \in Int /\ Len(first) \in Int
      BY <2>2
    <3> QED
      BY <3>1, <3>2, <3>3
  <2>6. \A i \in 1..Len(cat) : cat[i].op \in {"CWD", "CWD rel"} /\ IsQueue(cat[i].to)
    BY <1>4, <1>5, <2>5, Zenon
  <2> QED
    BY <2>3, <2>6
<1>7. steps = all \/ steps = cat
  BY Zenon DEF CwdSteps, all, cat, first, more, base, one, k
<1> HIDE DEF cat, steps
<1>8. Leads(steps)
  <2> HIDE DEF Leads
  <2> QED
    BY <1>2, <1>6, <1>7
<1> QED
  BY <1>8 DEF steps

\* Queues of expectations are joined.
LEMMA ExpectsCat ==
    ASSUME NEW E, Expects(E), NEW g, Expects(g)
    PROVE  Expects(E \o g)
<1> DEFINE D == E \o g
<1>1. IsQueue(E) /\ IsQueue(g) /\ Len(E) \in Nat /\ Len(g) \in Nat /\ D = E \o g
  BY DEF Expects, IsQueue
<1> HIDE DEF D
<1>2. IsQueue(D)
  BY <1>1, CatIs
<1>3. /\ Len(D) = Len(E) + Len(g) /\ \A i \in 1..Len(E) : D[i] = E[i]
      /\ \A i \in 1..Len(g) : D[Len(E) + i] = g[i]
  BY <1>1, CatIs
<1>4. ASSUME NEW i \in 1..Len(D) PROVE Expectation(D[i])
  <2>1. CASE i <= Len(E)
    <3>1. i \in 1..Len(E)
      BY <1>1, <1>3, <2>1
    <3> QED
      BY <3>1, <1>3 DEF Expects
  <2>2. CASE i > Len(E)
    <3> DEFINE j == i - Len(E)
    <3>1. j \in 1..Len(g) /\ i = Len(E) + j
      BY <1>1, <1>3, <2>2
    <3> HIDE DEF j
    <3>2. D[i] = g[j]
      BY <1>3, <3>1
    <3> QED
      BY <3>1, <3>2 DEF Expects
  <2>3. i \in Int /\ Len(E) \in Int
    BY <1>1
  <2> QED
    BY <2>1, <2>2, <2>3
<1> QED
  BY <1>2, <1>4 DEF Expects, D

\* SendCWD pushes one expectation for each command.
LEMMA SendCWDSettled ==
    ASSUME NEW w, NEW q, IsQueue(q), NEW n \in Nat, Settled(w, q, n), w.c.on, NEW path, IsQueue(path), NEW kind \in CwdKinds
    PROVE  Settled(SendCWD(w, path, kind), q, n) /\ Kept(w, SendCWD(w, path, kind)) /\ SendCWD(w, path, kind).c.on
<1> DEFINE c == w.c
           steps == CwdSteps(path, w.f.rcwd)
           V == [i \in DOMAIN steps |-> Cmd(steps[i].op, steps[i].path, <<>>)]
           g == [i \in DOMAIN steps |-> ExpDir("CWD_CURR", steps[i].to)]
           v == [w EXCEPT !.c.unsent = @ \o V, !.c.expect = @ \o g]
           u == [v EXCEPT !.c.expect[LastCWD(v.c)].kind = kind]
<1>1. SendCWD(w, path, kind) = IF HasCWD(v.c) THEN u ELSE v
  BY DEF SendCWD
<1>2. /\ DOMAIN w = {"f", "c"} /\ IsConn(c) /\ IsSession(w.f)
      /\ c.net = "up" => Lined(c.expect, c.sync_wait, c.xfer, c.inq, c.unsent, q, n)
  BY WorldOn DEF Settled, World, Matched
<1>3. IsQueue(steps) /\ (\A i \in 1..Len(steps) : steps[i].op \in {"CWD", "CWD rel"} /\ IsQueue(steps[i].to))
  BY <1>2, CwdStepsIs DEF IsSession
<1> HIDE DEF steps
<1>4. DOMAIN steps = 1..Len(steps) /\ Len(steps) \in Nat
  BY <1>3, QueueIsSeq DEF IsQueue
<1>5. /\ DOMAIN V = 1..Len(steps) /\ V = [i \in 1..Len(steps) |-> V[i]]
      /\ \A i \in 1..Len(steps) : V[i].op \in {"CWD", "CWD rel"}
  BY <1>3, <1>4 DEF Cmd
<1>6. /\ DOMAIN g = 1..Len(steps) /\ g = [i \in 1..Len(steps) |-> g[i]]
      /\ \A i \in 1..Len(steps) : g[i] = ExpDir("CWD_CURR", steps[i].to)
  BY <1>4
<1> HIDE DEF V, g
<1>7. IsQueue(V) /\ Len(V) = Len(steps) /\ IsQueue(g) /\ Len(g) = Len(steps)
  BY <1>4, <1>5, <1>6, FunIs
<1>8. \A i \in 1..Len(steps) : Expectation(g[i]) /\ V[i].op \in Answers(g[i].kind)
  <2>1. "CWD_CURR" \in ExpectKinds /\ Answers("CWD_CURR") = {"CWD", "CWD rel"}
    BY DEF ExpectKinds, Answers, CwdKinds
  <2>2. \A i \in 1..Len(steps) : Expectation(g[i]) /\ g[i].kind = "CWD_CURR"
      <3>1. \A i \in 1..Len(steps) : g[i] = ExpDir("CWD_CURR", steps[i].to) /\ IsQueue(steps[i].to)
      BY <1>3, <1>6
    <3>2. \A d : IsQueue(d) => Expectation(ExpDir("CWD_CURR", d)) /\ ExpDir("CWD_CURR", d).kind = "CWD_CURR"
      BY <2>1, ExpIs, Zenon
    <3> QED
      BY <3>1, <3>2, Zenon
  <2> QED
    BY <2>1, <2>2, <1>5
<1>9. Expects(g)
  BY <1>7, <1>8 DEF Expects
<1> DEFINE E == c.expect  U == c.unsent  D == E \o g  X == U \o V
<1>10. IsQueue(c.inq) /\ IsQueue(U) /\ IsQueue(E) /\ Expects(E)
  BY <1>2 DEF IsConn, Expects
<1>11. /\ DOMAIN v = {"f", "c"} /\ v.f = w.f /\ DOMAIN v.c = DOMAIN c /\ v.c.on = c.on /\ v.c.sync_wait = c.sync_wait
       /\ v.c.expect = D /\ v.c.unsent = X /\ v.c.inq = c.inq /\ v.c.out = c.out /\ v.c.xfer = c.xfer
       /\ v.c.net = c.net
  BY <1>2 DEF IsConn, NewConn
<1> HIDE DEF v
<1>12. Expects(D) /\ IsQueue(X)
  <2>1. X = U \o V
    OBVIOUS
  <2> HIDE DEF E, U, X
  <2>2. Expects(D)
    BY <1>9, <1>10, ExpectsCat
  <2>3. IsQueue(X)
    BY <2>1, <1>7, <1>10, CatIs
  <2> QED
    BY <2>2, <2>3
<1>13. c.net = "up" => Lined(D, c.sync_wait, c.xfer, c.inq, X, q, n)
  <2> SUFFICES ASSUME c.net = "up" PROVE Lined(D, c.sync_wait, c.xfer, c.inq, X, q, n)
    OBVIOUS
  <2>1. Lined(E, c.sync_wait, c.xfer, c.inq, U, q, n)
    BY <1>2
  <2> HIDE DEF E, U
  <2>2. Len(g) = Len(V) /\ \A i \in 1..Len(g) : V[i].op \in Answers(g[i].kind)
    BY <1>7, <1>8
  <2> QED
    BY <2>1, <2>2, <1>7, <1>10, LinedMore
<1> HIDE DEF D, X, E, U
<1>14. IsConn(v.c)
  BY <1>2, <1>11, <1>12, Zenon DEF IsConn
<1>15. Settled(v, q, n) /\ Kept(w, v) /\ v.c.on
  BY <1>11, <1>13, <1>14, Rearranged, Zenon
<1>16. ASSUME HasCWD(v.c) PROVE Settled(u, q, n) /\ Kept(w, u) /\ u.c.on
  <2>1. Fares(v, u)
    BY <1>15, <1>16, KindFares
  <2>2. u.c.on
    <3>1. DOMAIN v = {"f", "c"} /\ DOMAIN v.c = DOMAIN NewConn
      BY <1>11, <1>2 DEF IsConn
    <3> QED
      BY <3>1, <1>15 DEF NewConn
  <2> HIDE DEF u
  <2>3. Settled(u, q, n) /\ Kept(v, u)
    BY <2>1, <1>15, Zenon DEF Fares
  <2> QED
    BY <2>2, <2>3, <1>15, KeptOn
<1> HIDE DEF u
<1> QED
  BY <1>1, <1>15, <1>16

\* The decision of EOF_STATE whether to send CWD.
LEMMA EnsureCWDFares ==
    ASSUME NEW w, w.c.on
    PROVE  Fares(w, EnsureCWD(w))
<1> SUFFICES ASSUME NEW q, NEW n, IsQueue(q), n \in Nat, Settled(w, q, n)
             PROVE  Settled(EnsureCWD(w), q, n) /\ Kept(w, EnsureCWD(w))
  BY Zenon DEF Fares
<1> DEFINE v == SendCWD(w, w.f.cwd, "CWD_CURR")  u == [w EXCEPT !.c.expect[LastCWD(w.c)].kind = "CWD_CURR"]
<1>1. EnsureCWD(w) = w \/ EnsureCWD(w) = v \/ (HasCWD(w.c) /\ EnsureCWD(w) = u)
  BY DEF EnsureCWD
<1>2. Settled(v, q, n) /\ Kept(w, v)
  <2>1. IsQueue(w.f.cwd) /\ "CWD_CURR" \in CwdKinds
    BY DEF Settled, World, IsSession, CwdKinds
  <2> QED
    BY <2>1, SendCWDSettled
<1>3. HasCWD(w.c) => Settled(u, q, n) /\ Kept(w, u)
  <2>1. HasCWD(w.c) => Fares(w, u)
    <3>1. "CWD_CURR" \in CwdKinds
      BY DEF CwdKinds
    <3> QED
      BY <3>1, KindFares
  <2> HIDE DEF u
  <2> QED
    BY <2>1, Zenon DEF Fares
<1>4. Settled(w, q, n) /\ Kept(w, w)
  BY DEF Kept
<1> HIDE DEF u, v
<1> QED
  BY <1>1, <1>2, <1>3, <1>4

-----------------------------------------------------------------------------
(* Do                                                                      *)

\* Details of a connection that are not about its queues.
LEMMA DetailSame ==
    ASSUME NEW c, IsConn(c), NEW x, NEW d,
           \/ d = [c EXCEPT !.data = x] \/ d = [c EXCEPT !.got150 = x] \/ d = [c EXCEPT !.rest_pos = x]
           \/ d = [c EXCEPT !.iob = x]
    PROVE  SameQueues(c, d)
  BY DEF SameQueues, IsConn, NewConn

\* PASV, REST and the transfer, each with its expectation.
LEMMA SendTransferSettled ==
    ASSUME NEW w, NEW q, IsQueue(q), NEW n \in Nat, Settled(w, q, n), w.c.on
    PROVE  Settled(SendTransfer(w), q, n) /\ Kept(w, SendTransfer(w))
<1> DEFINE op == IF w.f.mode = "STORE" THEN "STOR" ELSE "RETR"
           at == IF w.f.real # -1 THEN w.f.real ELSE w.f.pos
           a == [w EXCEPT !.f.pasv = "none", !.c.data = "unbound"]
           pasv == Command(a, Cmd("PASV", <<>>, <<>>), Exp("PASV"))
           r == Command(pasv, [Cmd("REST", <<>>, <<>>) EXCEPT !.path = <<at>>], Exp("REST"))
           r2 == [r EXCEPT !.c.rest_pos = at, !.f.real = -1]
           rest == IF w.f.real = -1 \/ w.c.last_rest # w.f.real THEN r2 ELSE pasv
           t == Command(rest, Cmd(op, <<>>, w.f.cwd), Exp("TRANSFER"))
<1>1. SendTransfer(w) = To(t, "PASV")
  BY DEF SendTransfer
<1>2. Expectation(Exp("PASV")) /\ Expectation(Exp("REST")) /\ Expectation(Exp("TRANSFER"))
      /\ Exp("PASV").kind = "PASV" /\ Exp("REST").kind = "REST" /\ Exp("TRANSFER").kind = "TRANSFER"
  <2>1. "PASV" \in ExpectKinds /\ "REST" \in ExpectKinds /\ "TRANSFER" \in ExpectKinds
    BY DEF ExpectKinds
  <2> QED
    BY <2>1, ExpIs
<1>3. /\ Cmd("PASV", <<>>, <<>>).op \in Answers("PASV") /\ Cmd(op, <<>>, w.f.cwd).op \in Answers("TRANSFER")
      /\ [Cmd("REST", <<>>, <<>>) EXCEPT !.path = <<at>>].op \in Answers("REST")
  BY DEF Cmd, Answers, CwdKinds
<1>4. Settled(a, q, n) /\ Kept(w, a) /\ a.c.on
  <2>1. IsConn(w.c) /\ DOMAIN w = {"f", "c"} /\ IsSession(w.f) /\ w.f.state # "CONNECTING"
    BY WorldOn DEF Settled, World
  <2>2. DOMAIN a = {"f", "c"} /\ a.f = [w.f EXCEPT !.pasv = "none"] /\ a.c = [w.c EXCEPT !.data = "unbound"]
    BY <2>1
  <2> HIDE DEF a
  <2>3. SameQueues(w.c, a.c)
    BY <2>1, <2>2, DetailSame
  <2>4. IsSession(a.f) /\ a.f.state # "CONNECTING"
    BY <2>1, <2>2 DEF IsSession, IdleSession
  <2> QED
    BY <2>2, <2>3, <2>4, Tweaked
<1> HIDE DEF a
<1>5. Settled(pasv, q, n) /\ Kept(a, pasv) /\ pasv.c.on
  BY <1>2, <1>3, <1>4, CommandSettled
<1> HIDE DEF pasv
<1>6. Settled(r, q, n) /\ Kept(pasv, r) /\ r.c.on
  BY <1>2, <1>3, <1>5, CommandSettled
<1> HIDE DEF r
<1>7. Settled(r2, q, n) /\ Kept(r, r2) /\ r2.c.on
  <2>1. IsConn(r.c) /\ DOMAIN r = {"f", "c"} /\ IsSession(r.f) /\ r.f.state # "CONNECTING"
    BY <1>6, WorldOn DEF Settled, World
  <2>2. DOMAIN r2 = {"f", "c"} /\ r2.f = [r.f EXCEPT !.real = -1] /\ r2.c = [r.c EXCEPT !.rest_pos = at]
    BY <2>1
  <2> HIDE DEF r2
  <2>3. SameQueues(r.c, r2.c)
    BY <2>1, <2>2, DetailSame
  <2>4. IsSession(r2.f) /\ r2.f.state # "CONNECTING"
    BY <2>1, <2>2 DEF IsSession, IdleSession
  <2> QED
    BY <1>6, <2>2, <2>3, <2>4, Tweaked
<1> HIDE DEF r2
<1>8. Settled(rest, q, n) /\ Kept(pasv, rest) /\ rest.c.on
  <2>1. Kept(pasv, r2) /\ Kept(pasv, pasv)
    BY <1>6, <1>7, KeptOn DEF Kept
  <2> QED
    BY <1>5, <1>7, <2>1
<1> HIDE DEF rest
<1>9. Settled(t, q, n) /\ Kept(rest, t)
  BY <1>2, <1>3, <1>8, CommandSettled
<1> HIDE DEF t
<1>10. Settled(To(t, "PASV"), q, n) /\ Kept(t, To(t, "PASV"))
  <2>1. Fares(t, To(t, "PASV"))
    <3>1. "PASV" \in States \ {"CONNECTING"}
      BY DEF States
    <3> QED
      BY <3>1, FieldFares
  <2> QED
    BY <1>9, <2>1, Zenon DEF Fares
<1>11. Kept(w, pasv)
  BY <1>4, <1>5, KeptOn
<1>12. Kept(pasv, To(t, "PASV"))
  <2>1. Kept(pasv, t)
    BY <1>8, <1>9, KeptOn
  <2> QED
    BY <2>1, <1>10, KeptOn
<1> QED
  BY <1>1, <1>10, <1>11, <1>12, KeptOn

\* CWD of CHANGE_DIR.
LEMMA ChangeDirSettled ==
    ASSUME NEW w, NEW q, IsQueue(q), NEW n \in Nat, Settled(w, q, n), w.c.on
    PROVE  Settled(ChangeDir(w), q, n) /\ Kept(w, ChangeDir(w))
<1> DEFINE cd == SendCWD(w, w.f.file, "CWD")  there == [w EXCEPT !.f.cwd = w.f.file]  went == [cd EXCEPT !.f.cwd = w.f.file]
<1>1. ChangeDir(w) \in {there, went, cd}
  BY DEF ChangeDir
<1>2. World(w) /\ IsQueue(w.f.file) /\ "CWD" \in CwdKinds
  BY DEF Settled, World, IsSession, CwdKinds
<1>3. Settled(cd, q, n) /\ Kept(w, cd)
  BY <1>2, SendCWDSettled
<1>4. \A u : Fares(u, [u EXCEPT !.f.cwd = w.f.file])
  <2> TAKE u
  <2> DEFINE v == [u EXCEPT !.f.cwd = w.f.file]
  <2>1. World(u) => /\ DOMAIN v = {"f", "c"} /\ IsSession(v.f) /\ v.c = u.c
                    /\ u.f.state # "CONNECTING" => v.f.state # "CONNECTING"
    BY <1>2 DEF World, IsSession, IdleSession
  <2> HIDE DEF v
  <2>2. Fares(u, v)
    BY <2>1, SessionFares
  <2> QED
    BY <2>2 DEF v
<1> HIDE DEF cd
<1>5. Settled(there, q, n) /\ Kept(w, there)
  BY <1>4, Zenon DEF Fares
<1>6. Settled(went, q, n) /\ Kept(cd, went)
  BY <1>3, <1>4, Zenon DEF Fares
<1> HIDE DEF there, went
<1> QED
  BY <1>1, <1>3, <1>5, <1>6, KeptOn

\* CWD_CWD_WAITING_STATE sends the commands of any operation with their expectations.
LEMMA RequestFares ==
    ASSUME NEW w, w.c.on
    PROVE  Fares(w, Request(w))
<1> DEFINE v == [w EXCEPT !.f.pos = IF w.f.mode = "STORE" /\ w.f.norest THEN 0 ELSE @,
                          !.f.io = FALSE, !.c.got150 = FALSE]
           u == [v EXCEPT !.f.real = IF v.f.norest \/ v.f.pos = 0 THEN 0 ELSE -1]
           x == [u EXCEPT !.f.asserts = @ /\ u.c.data = "none"]
           dele == Command(u, Cmd("DELE", <<>>, u.f.cwd), Exp("FILE_ACCESS"))
<1> SUFFICES ASSUME NEW q, NEW n, IsQueue(q), n \in Nat, Settled(w, q, n)
             PROVE  Settled(Request(w), q, n) /\ Kept(w, Request(w))
  BY Zenon DEF Fares
<1>1. Request(w) \in {To(ChangeDir(u), "WAITING"), To(dele, "WAITING"), SendTransfer(x)}
  BY Zenon DEF Request, u, v, x, dele
<1>2. Settled(v, q, n) /\ Kept(w, v) /\ v.c.on
  <2>1. IsConn(w.c) /\ DOMAIN w = {"f", "c"} /\ IsSession(w.f) /\ w.f.state # "CONNECTING"
    BY WorldOn DEF Settled, World
  <2>2. DOMAIN v = {"f", "c"} /\ v.c = [w.c EXCEPT !.got150 = FALSE]
        /\ v.f = [w.f EXCEPT !.pos = IF w.f.mode = "STORE" /\ w.f.norest THEN 0 ELSE @, !.io = FALSE]
    BY <2>1
  <2> HIDE DEF v
  <2>3. SameQueues(w.c, v.c)
    BY <2>1, <2>2, DetailSame
  <2>4. IsSession(v.f) /\ v.f.state # "CONNECTING"
    BY <2>1, <2>2 DEF IsSession, IdleSession
  <2> QED
    BY <2>2, <2>3, <2>4, Tweaked
<1> HIDE DEF v
<1>3. \A y : Fares(y, [y EXCEPT !.f.real = IF y.f.norest \/ y.f.pos = 0 THEN 0 ELSE -1])
             /\ Fares(y, [y EXCEPT !.f.asserts = @ /\ y.c.data = "none"])
  <2> TAKE y
  <2> DEFINE y1 == [y EXCEPT !.f.real = IF y.f.norest \/ y.f.pos = 0 THEN 0 ELSE -1]
             y2 == [y EXCEPT !.f.asserts = @ /\ y.c.data = "none"]
  <2>1. World(y) => /\ DOMAIN y1 = {"f", "c"} /\ IsSession(y1.f) /\ y1.c = y.c
                    /\ y.f.state # "CONNECTING" => y1.f.state # "CONNECTING"
    BY DEF World, IsSession, IdleSession
  <2>2. World(y) => /\ DOMAIN y2 = {"f", "c"} /\ IsSession(y2.f) /\ y2.c = y.c
                    /\ y.f.state # "CONNECTING" => y2.f.state # "CONNECTING"
    BY DEF World, IsSession, IdleSession
  <2> HIDE DEF y1, y2
  <2>3. Fares(y, y1) /\ Fares(y, y2)
    BY <2>1, <2>2, SessionFares
  <2> QED
    BY <2>3 DEF y1, y2
<1>4. Settled(u, q, n) /\ Kept(v, u) /\ u.c.on
  <2>1. Settled(u, q, n) /\ Kept(v, u)
    BY <1>2, <1>3, Zenon DEF Fares
  <2>2. u.c = v.c
    BY <1>2 DEF Settled, World
  <2> QED
    BY <1>2, <2>1, <2>2
<1> HIDE DEF u
<1>5. Settled(x, q, n) /\ Kept(u, x) /\ x.c.on
  <2>1. Settled(x, q, n) /\ Kept(u, x)
    BY <1>3, <1>4, Zenon DEF Fares
  <2>2. x.c = u.c
    BY <1>4 DEF Settled, World
  <2> QED
    BY <1>4, <2>1, <2>2
<1> HIDE DEF x
<1>6. Settled(SendTransfer(x), q, n) /\ Kept(x, SendTransfer(x))
  BY <1>5, SendTransferSettled
<1>7. Settled(ChangeDir(u), q, n) /\ Kept(u, ChangeDir(u))
  BY <1>4, ChangeDirSettled
<1>8. Settled(dele, q, n) /\ Kept(u, dele)
  <2>1. Cmd("DELE", <<>>, u.f.cwd).op \in Answers("FILE_ACCESS") /\ "FILE_ACCESS" \in ExpectKinds
    BY DEF Cmd, Answers, CwdKinds, ExpectKinds
  <2>2. Expectation(Exp("FILE_ACCESS")) /\ Exp("FILE_ACCESS").kind = "FILE_ACCESS"
    BY <2>1, ExpIs
  <2> QED
    BY <2>1, <2>2, <1>4, CommandSettled
<1> HIDE DEF dele
<1>9. \A y : Settled(y, q, n) /\ Kept(u, y) => Settled(To(y, "WAITING"), q, n) /\ Kept(u, To(y, "WAITING"))
  <2> SUFFICES ASSUME NEW y, Settled(y, q, n), Kept(u, y) PROVE Settled(To(y, "WAITING"), q, n) /\ Kept(u, To(y, "WAITING"))
    OBVIOUS
  <2>1. "WAITING" \in States \ {"CONNECTING"}
    BY DEF States
  <2>2. Fares(y, To(y, "WAITING"))
    BY <2>1, FieldFares
  <2>3. Settled(To(y, "WAITING"), q, n) /\ Kept(y, To(y, "WAITING"))
    BY <2>2, Zenon DEF Fares
  <2> QED
    BY <2>3, KeptOn
<1>10. Kept(u, SendTransfer(x))
  BY <1>5, <1>6, KeptOn
<1>11. Settled(Request(w), q, n) /\ Kept(u, Request(w))
  BY <1>1, <1>6, <1>7, <1>8, <1>9, <1>10
<1>12. Kept(w, u)
  BY <1>2, <1>4, KeptOn
<1> QED
  BY <1>11, <1>12, KeptOn

\* A change to neither the queues nor the state CONNECTING keeps a steady state so.
LEMMA SteadyTweak ==
    ASSUME NEW w, Steady(w), w.c.on,
           NEW v, DOMAIN v = {"f", "c"}, IsSession(v.f), v.f.state # "CONNECTING", SameQueues(w.c, v.c)
    PROVE  Steady(v) /\ v.c.on
<1>1. Settled(v, w.c.out, 0) /\ Kept(w, v) /\ v.c.on
  BY Tweaked DEF Steady
<1> QED
  BY <1>1 DEF Steady, Kept

\* The types in a steady state.
LEMMA SteadyIs ==
    ASSUME NEW w, Steady(w)
    PROVE  /\ World(w) /\ DOMAIN w = {"f", "c"} /\ IsSession(w.f) /\ w.f.state # "CONNECTING"
           /\ w.c.on => IsConn(w.c) /\ w.c.net # "syn"
  BY WorldOn DEF Steady, Settled, World

\* Any state but CONNECTING may follow.
LEMMA SteadyState ==
    ASSUME NEW w, Steady(w), NEW st \in States \ {"CONNECTING"}
    PROVE  Steady(To(w, st)) /\ To(w, st).c = w.c
<1>1. Steady(To(w, st))
  BY FieldFares, SteadyFares
<1>2. To(w, st).c = w.c
  BY SteadyIs DEF To
<1> QED
  BY <1>1, <1>2

\* WAITING_STATE.
LEMMA Do_WAITINGSteady == \A w : Steady(w) => Steady(Do_WAITING(w))
<1> SUFFICES ASSUME NEW w, Steady(w) PROVE Steady(Do_WAITING(w))
  OBVIOUS
<1>1. Steady([w EXCEPT !.f.eof = TRUE])
  BY FieldFares, SteadyFares
<1> QED
  BY <1>1 DEF Do_WAITING

\* DATA_OPEN_STATE.
LEMMA Do_DATASteady == \A w : Steady(w) => Steady(Do_DATA(w))
<1> SUFFICES ASSUME NEW w, Steady(w) PROVE Steady(Do_DATA(w))
  OBVIOUS
<1> DEFINE b == w.c.iob
           closed == [w EXCEPT !.c = [CloseData(@) EXCEPT !.iob = b]]
           u == IF b.err /\ w.c.data # "none" THEN closed ELSE w
           again == To(DataClose(u), "EOF")
           over == [DataClose(u) EXCEPT !.f.state = "WAITING", !.f.eof = w.c.expect = <<>>]
<1>1. Do_DATA(w) = w \/ (w.c.on /\ Do_DATA(w) \in {DisconnectNow(u), SetError(again, "STORE_FAILED"), again, over, u})
  BY DEF Do_DATA, Undisturbed
<1>2. SUFFICES ASSUME w.c.on
               PROVE  \A x \in {DisconnectNow(u), SetError(again, "STORE_FAILED"), again, over, u} : Steady(x)
  BY <1>1
<1>3. Steady(u)
  <2>1. Steady(closed)
    <3>1. DOMAIN w = {"f", "c"} /\ IsSession(w.f) /\ w.f.state # "CONNECTING" /\ IsConn(w.c)
      BY <1>2, SteadyIs
    <3> DEFINE d == CloseData(w.c)  g == [d EXCEPT !.iob = b]
    <3>2. SameQueues(w.c, d) /\ IsConn(d)
      BY <3>1, DataSame, SameIsConn
    <3>3. SameQueues(d, g)
      <4> HIDE DEF d
      <4> QED
        BY <3>2, DetailSame
    <3>4. SameQueues(w.c, g)
      <4> HIDE DEF d, g
      <4> QED
        BY <3>2, <3>3 DEF SameQueues
    <3>5. DOMAIN closed = {"f", "c"} /\ closed.f = w.f /\ closed.c = g
      BY <3>1
    <3> HIDE DEF closed, g
    <3> QED
      BY <1>2, <3>1, <3>4, <3>5, SteadyTweak
  <2> HIDE DEF closed
  <2> QED
    BY <2>1
<1> HIDE DEF u
<1>4. Steady(DisconnectNow(u)) /\ Steady(DataClose(u)) /\ Steady(again)
  BY <1>3, DisconnectNowFares, DataCloseFares, RetryFares, SteadyFares
<1>5. Steady(SetError(again, "STORE_FAILED"))
  <2> HIDE DEF again
  <2> QED
    BY <1>4, FieldFares, SteadyFares
<1>6. Steady(over)
  <2> DEFINE d == DataClose(u)
  <2>1. Steady(To(d, "WAITING"))
    <3>1. "WAITING" \in States \ {"CONNECTING"}
      BY DEF States
    <3> QED
      BY <1>4, <3>1, SteadyState
  <2> DEFINE t == To(d, "WAITING")
  <2> HIDE DEF t
  <2>2. Steady([t EXCEPT !.f.eof = w.c.expect = <<>>])
    BY <2>1, FieldFares, SteadyFares DEF t
  <2>3. over = [t EXCEPT !.f.eof = w.c.expect = <<>>]
    BY DEF t, To
  <2> QED
    BY <2>2, <2>3
<1> HIDE DEF again, over
<1> QED
  BY <1>3, <1>4, <1>5, <1>6

\* WAITING_150_STATE, and what it falls through to.
LEMMA Do_W150Steady == \A w, timeout : Steady(w) => Steady(Do_W150(w, timeout))
<1> SUFFICES ASSUME NEW w, NEW timeout, Steady(w) PROVE Steady(Do_W150(w, timeout))
  OBVIOUS
<1> DEFINE dir == IF w.f.mode = "STORE" THEN "PUT" ELSE "GET"
           ready == [w EXCEPT !.f.state = "DATA",
                              !.c.iob = IF @.dir = dir THEN @ ELSE [NoBuf EXCEPT !.dir = dir]]
<1>1. Do_W150(w, timeout) = w \/ (w.c.on /\ Do_W150(w, timeout) = Do_DATA(Exchange(ready)))
  BY DEF Do_W150, Undisturbed
<1>2. w.c.on => Steady(ready)
  <2> SUFFICES ASSUME w.c.on PROVE Steady(ready)
    OBVIOUS
  <2> DEFINE iob == IF w.c.iob.dir = dir THEN w.c.iob ELSE [NoBuf EXCEPT !.dir = dir]
  <2>1. DOMAIN w = {"f", "c"} /\ IsSession(w.f) /\ IsConn(w.c)
    BY SteadyIs
  <2>2. DOMAIN ready = {"f", "c"} /\ ready.f = [w.f EXCEPT !.state = "DATA"] /\ ready.c = [w.c EXCEPT !.iob = iob]
    BY <2>1
  <2> HIDE DEF ready, iob
  <2>3. IsSession(ready.f) /\ ready.f.state = "DATA"
    <3>1. "DATA" \in States
      BY DEF States
    <3> QED
      BY <2>1, <2>2, <3>1, SessionState
  <2>4. SameQueues(w.c, ready.c)
    BY <2>1, <2>2, DetailSame
  <2> QED
    BY <2>2, <2>3, <2>4, SteadyTweak
<1> HIDE DEF ready
<1>3. w.c.on => Steady(Do_DATA(Exchange(ready)))
  BY <1>2, ExchangeSteady, Do_DATASteady
<1> QED
  BY <1>1, <1>3

\* DATASOCKET_CONNECTING_STATE, and what it falls through to.
LEMMA Do_PASVSteady == \A w, timeout : Steady(w) => Steady(Do_PASV(w, timeout))
<1> SUFFICES ASSUME NEW w, NEW timeout, Steady(w) PROVE Steady(Do_PASV(w, timeout))
  OBVIOUS
<1> DEFINE go == [w EXCEPT !.f.pasv = "connecting", !.c.data = "connecting"]
<1>1. \/ Do_PASV(w, timeout) = w
      \/ w.c.on /\ Do_PASV(w, timeout) \in {go, Disconnect(w), Do_W150(Exchange(To(w, "W150")), timeout)}
  <2>1. CASE ~Undisturbed(w, "PASV")
    BY <2>1 DEF Do_PASV
  <2>2. CASE Undisturbed(w, "PASV")
    <3>1. w.c.on /\ w.f.pasv \in {"none", "have", "connecting"}
      BY <2>2, SteadyIs DEF Undisturbed, IsSession
    <3>2. CASE w.f.pasv = "none"
      BY <2>2, <3>2 DEF Do_PASV
    <3>3. CASE w.f.pasv = "have"
      BY <2>2, <3>1, <3>3 DEF Do_PASV
    <3>4. CASE w.f.pasv = "connecting"
      BY <2>2, <3>1, <3>4 DEF Do_PASV
    <3> QED
      BY <3>1, <3>2, <3>3, <3>4
  <2> QED
    BY <2>1, <2>2
<1>2. w.c.on => Steady(go)
  <2> SUFFICES ASSUME w.c.on PROVE Steady(go)
    OBVIOUS
  <2>1. DOMAIN w = {"f", "c"} /\ IsSession(w.f) /\ IsConn(w.c) /\ w.f.state # "CONNECTING"
    BY SteadyIs
  <2>2. DOMAIN go = {"f", "c"} /\ go.f = [w.f EXCEPT !.pasv = "connecting"] /\ go.c = [w.c EXCEPT !.data = "connecting"]
    BY <2>1
  <2> HIDE DEF go
  <2>3. IsSession(go.f) /\ go.f.state = w.f.state
    BY <2>1, <2>2 DEF IsSession, IdleSession
  <2>4. SameQueues(w.c, go.c)
    BY <2>1, <2>2, DetailSame
  <2> QED
    BY <2>1, <2>2, <2>3, <2>4, SteadyTweak
<1> HIDE DEF go
<1>3. Steady(Disconnect(w))
  BY DisconnectFares, SteadyFares
<1>4. Steady(Do_W150(Exchange(To(w, "W150")), timeout))
  <2>1. "W150" \in States \ {"CONNECTING"}
    BY DEF States
  <2>2. Steady(To(w, "W150"))
    BY <2>1, SteadyState
  <2> QED
    BY <2>2, ExchangeSteady, Do_W150Steady
<1> QED
  BY <1>1, <1>2, <1>3, <1>4

\* CWD_CWD_WAITING_STATE, and what it falls through to.
LEMMA Do_CWDSteady == \A w, timeout : Steady(w) => Steady(Do_CWD(w, timeout))
<1> SUFFICES ASSUME NEW w, NEW timeout, Steady(w) PROVE Steady(Do_CWD(w, timeout))
  OBVIOUS
<1> DEFINE x == Exchange(Request(w))
<1>1. Do_CWD(w, timeout) = w \/ (w.c.on /\ Do_CWD(w, timeout) \in {Do_PASV(x, timeout), Do_WAITING(x)})
  BY DEF Do_CWD, Undisturbed
<1>2. w.c.on => Steady(Request(w))
  BY RequestFares, SteadyFares
<1>3. w.c.on => Steady(x)
  BY <1>2, ExchangeSteady
<1> HIDE DEF x
<1>4. w.c.on => Steady(Do_PASV(x, timeout)) /\ Steady(Do_WAITING(x))
  BY <1>3, Do_PASVSteady, Do_WAITINGSteady
<1> QED
  BY <1>1, <1>4

\* EOF_STATE, and what it falls through to.
LEMMA Do_EOFSteady == \A w, timeout : Steady(w) => Steady(Do_EOF(w, timeout))
<1> SUFFICES ASSUME NEW w, NEW timeout, Steady(w) PROVE Steady(Do_EOF(w, timeout))
  OBVIOUS
<1> DEFINE home == IF w.f.rcwd = Unknown THEN <<>> ELSE w.f.rcwd
           v == [w EXCEPT !.f.rcwd = home]
           x == To(EnsureCWD(v), "CWD")
<1>1. Do_EOF(w, timeout) = w \/ (w.c.on /\ Do_EOF(w, timeout) = Do_CWD(Exchange(x), timeout))
  BY DEF Do_EOF, Undisturbed
<1>2. IsQueue(home)
  BY SteadyIs, NoneIs DEF IsSession
<1> HIDE DEF home
<1>3. Steady(v)
  BY <1>2, FieldFares, SteadyFares
<1>4. v.c = w.c
  BY SteadyIs
<1> HIDE DEF v
<1>5. w.c.on => Steady(EnsureCWD(v))
  BY <1>3, <1>4, EnsureCWDFares, SteadyFares
<1>6. w.c.on => Steady(x)
  <2>1. "CWD" \in States \ {"CONNECTING"}
    BY DEF States
  <2> QED
    BY <1>5, <2>1, SteadyState
<1> HIDE DEF x
<1>7. w.c.on => Steady(Do_CWD(Exchange(x), timeout))
  BY <1>6, ExchangeSteady, Do_CWDSteady
<1> QED
  BY <1>1, <1>7

\* CONNECTED_STATE, the login, and what it falls through to.
LEMMA Do_CONNECTEDSteady == \A w, timeout : Steady(w) => Steady(Do_CONNECTED(w, timeout))
<1> SUFFICES ASSUME NEW w, NEW timeout, Steady(w) PROVE Steady(Do_CONNECTED(w, timeout))
  OBVIOUS
<1> DEFINE v == [w EXCEPT !.f.rcwd = Unknown]
           cmd == Cmd("LOGIN", <<>>, <<>>)  e == Exp("PASS")
           login == Command(v, cmd, e)
           x == To(login, "EOF")
<1>1. Do_CONNECTED(w, timeout) = w \/ (w.c.on /\ Do_CONNECTED(w, timeout) = Do_EOF(Exchange(x), timeout))
  BY DEF Do_CONNECTED, Undisturbed
<1>2. Steady(v)
  <2>1. IsQueue(Unknown)
    BY OneIs DEF Unknown
  <2> QED
    BY <2>1, FieldFares, SteadyFares
<1>3. v.c = w.c
  BY SteadyIs
<1> HIDE DEF v
<1>4. w.c.on => Steady(login)
  <2>1. Expectation(e) /\ cmd.op \in Answers(e.kind)
    <3>1. "PASS" \in ExpectKinds
      BY DEF ExpectKinds
    <3>2. cmd.op \in Answers("PASS")
      BY DEF Cmd, Answers, CwdKinds
    <3> QED
      BY <3>1, <3>2, ExpIs
  <2> HIDE DEF cmd, e
  <2> QED
    BY <1>2, <1>3, <2>1, CommandFares, SteadyFares
<1> HIDE DEF login
<1>5. w.c.on => Steady(x)
  <2>1. "EOF" \in States \ {"CONNECTING"}
    BY DEF States
  <2> QED
    BY <1>4, <2>1, SteadyState
<1> HIDE DEF x
<1>6. w.c.on => Steady(Do_EOF(Exchange(x), timeout))
  BY <1>5, ExchangeSteady, Do_EOFSteady
<1> QED
  BY <1>1, <1>6

\* Where the connection is established, steady is what the invariant says.
LEMMA SteadyIsGood == \A w : World(w) /\ w.f.state # "CONNECTING" => (Steady(w) <=> Good(w))
  BY Zenon DEF Steady, Settled, Good

\* A steady state satisfies the invariant.
LEMMA SteadyGood == \A w : Steady(w) => Good(w)
  BY Zenon DEF Steady, Settled, Good

\* CONNECTING_STATE expects the greeting before anything is received.
LEMMA Do_CONNECTINGGood ==
    ASSUME NEW w, Good(w), w.c.on, w.f.state = "CONNECTING", NEW timeout
    PROVE  Good(Do_CONNECTING(w, timeout))
<1> DEFINE x == [To(w, "CONNECTED") EXCEPT !.c.expect = <<Exp("READY")>>]
<1>1. /\ World(w) /\ DOMAIN w = {"f", "c"} /\ IsConn(w.c) /\ IsSession(w.f) /\ ~w.c.quit
      /\ w.c.net # "syn" => Matched(<<Exp("READY")>>, w.c, w.c.out, 0)
  BY WorldOn DEF Good, World, Connecting
<1>2. CASE w.c.net = "syn"
  <2>1. Do_CONNECTING(w, timeout) = w
    BY <1>2 DEF Do_CONNECTING
  <2> QED
    BY <2>1
<1>3. CASE w.c.net = "down"
  <2>1. Do_CONNECTING(w, timeout) = Disconnect(w)
    BY <1>3 DEF Do_CONNECTING
  <2>2. World(Disconnect(w)) /\ Disconnect(w).c = NoConn
    BY <1>1, DisconnectFares
  <2> QED
    BY <2>1, <2>2, NoConnIs DEF Good
<1>4. CASE w.c.net \notin {"syn", "down"}
  <2>1. Do_CONNECTING(w, timeout) = Do_CONNECTED(Exchange(x), timeout)
    BY <1>4 DEF Do_CONNECTING
  <2>2. DOMAIN x = {"f", "c"} /\ x.f = [w.f EXCEPT !.state = "CONNECTED"] /\ x.c = [w.c EXCEPT !.expect = <<Exp("READY")>>]
    BY <1>1 DEF To
  <2> DEFINE E == <<Exp("READY")>>
  <2> HIDE DEF x
  <2>3. IsSession(x.f) /\ x.f.state = "CONNECTED"
    <3>1. "CONNECTED" \in States
      BY DEF States
    <3> QED
      BY <1>1, <2>2, <3>1, SessionState
  <2>4. Expects(E)
    <3>1. IsQueue(E) /\ Len(E) = 1 /\ E[1] = Exp("READY")
      BY OneIs
    <3>2. Expectation(Exp("READY"))
      <4>1. "READY" \in ExpectKinds
        BY DEF ExpectKinds
      <4> QED
        BY <4>1, ExpIs
    <3> HIDE DEF E
    <3> QED
      BY <3>1, <3>2 DEF Expects
  <2> HIDE DEF E
  <2>5. /\ DOMAIN x.c = DOMAIN w.c /\ x.c.on = w.c.on /\ x.c.sync_wait = w.c.sync_wait
        /\ x.c.expect = E /\ x.c.unsent = w.c.unsent /\ x.c.inq = w.c.inq /\ x.c.out = w.c.out /\ x.c.xfer = w.c.xfer
        /\ x.c.net = w.c.net
    <3> DEFINE c == w.c  d == x.c
    <3>1. IsConn(c) /\ d = [c EXCEPT !.expect = E]
      BY <1>1, <2>2 DEF E
    <3> HIDE DEF c, d
    <3>2. /\ DOMAIN d = DOMAIN c /\ d.on = c.on /\ d.sync_wait = c.sync_wait
          /\ d.expect = E /\ d.unsent = c.unsent /\ d.inq = c.inq /\ d.out = c.out /\ d.xfer = c.xfer
          /\ d.net = c.net
      BY <3>1 DEF IsConn, NewConn
    <3> QED
      BY <3>2 DEF c, d
  <2>6. IsConn(x.c)
    BY <1>1, <2>4, <2>5, Zenon DEF IsConn
  <2>7. w.c.net = "up" => Lined(E, w.c.sync_wait, w.c.xfer, w.c.inq, w.c.unsent, w.c.out, 0)
    BY <1>1, <1>4, Zenon DEF Matched, E
  <2>8. w.c.net = "up" => Lined(x.c.expect, x.c.sync_wait, x.c.xfer, x.c.inq, x.c.unsent, x.c.out, 0)
    BY <2>5, <2>7, Zenon
  <2>9. Steady(x)
    <3>1. World(x) /\ x.f.state # "CONNECTING" /\ x.c.net # "syn" /\ Matched(x.c.expect, x.c, x.c.out, 0)
      BY <1>4, <2>2, <2>3, <2>5, <2>6, <2>8, Zenon DEF World, Matched
    <3> QED
      BY <3>1, Zenon DEF Steady, Settled
  <2>10. Steady(Do_CONNECTED(Exchange(x), timeout))
    BY <2>9, ExchangeSteady, Do_CONNECTEDSteady
  <2> QED
    BY <2>1, <2>10, SteadyGood
<1> QED
  BY <1>2, <1>3, <1>4

\* Do, in any state.
LEMMA Do_LLGood ==
    ASSUME NEW w, Good(w), w.c.on, w.f.state # "INITIAL", NEW timeout
    PROVE  Good(Do_LL(w, timeout))
<1> DEFINE v == Exchange(w)
<1>1. World(w) /\ w.f.state \in States
  BY DEF Good, World, IsSession
<1>2. CASE w.f.state = "CONNECTING"
  <2>1. ~w.c.quit /\ w.f.error = "OK" /\ ~w.f.eof /\ w.f.mode # "CLOSED"
    BY <1>2 DEF Good, Connecting
  <2>2. Do_LL(w, timeout) = Do_CONNECTING(w, timeout)
    BY <1>2, <2>1 DEF Do_LL, Do_State
  <2> QED
    BY <1>2, <2>2, Do_CONNECTINGGood
<1>3. CASE w.f.state # "CONNECTING"
  <2>1. Steady(w)
    BY <1>1, <1>3, SteadyIsGood
  <2>2. Steady(v)
    BY <2>1, ExchangeSteady
  <2> HIDE DEF v
  <2>3. /\ Steady(Do_CONNECTED(v, timeout)) /\ Steady(Do_EOF(v, timeout)) /\ Steady(Do_CWD(v, timeout))
        /\ Steady(Do_PASV(v, timeout)) /\ Steady(Do_W150(v, timeout)) /\ Steady(Do_DATA(v)) /\ Steady(Do_WAITING(v))
    BY <2>2, Do_CONNECTEDSteady, Do_EOFSteady, Do_CWDSteady, Do_PASVSteady, Do_W150Steady, Do_DATASteady, Do_WAITINGSteady
  <2>4. Steady(Do_Quit(v))
    <3>1. Steady(DisconnectNow(v))
      BY <2>2, DisconnectNowFares, SteadyFares
    <3> QED
      BY <2>2, <3>1 DEF Do_Quit
  <2>5. Do_LL(w, timeout) \in {Do_Quit(v), v, Do_CONNECTED(v, timeout), Do_EOF(v, timeout), Do_CWD(v, timeout),
                               Do_PASV(v, timeout), Do_W150(v, timeout), Do_DATA(v), Do_WAITING(v)}
    <3>1. Do_LL(w, timeout) = Do_State(w, v, timeout)
      BY DEF Do_LL, v
    <3>2. w.f.state \in {"CONNECTED", "EOF", "CWD", "PASV", "W150", "DATA", "WAITING"}
      BY <1>1, <1>3 DEF States
    <3> QED
      BY <3>1, <3>2 DEF Do_State
  <2>6. Steady(Do_LL(w, timeout))
    BY <2>2, <2>3, <2>4, <2>5
  <2> QED
    BY <2>6, SteadyGood
<1> QED
  BY <1>2, <1>3

-----------------------------------------------------------------------------
(* The user, and taking over a connection                                  *)

\* Close of a session that is still connecting has nothing to abort.
LEMMA ConnectingClosed ==
    ASSUME NEW w, World(w), w.c.on, w.f.state = "CONNECTING", ~w.c.quit
    PROVE  LET v == DataClose(DataAbort(w)) IN
           /\ World(v) /\ v.c.on /\ v.f.state = "CONNECTING" /\ ~v.c.quit
<1> DEFINE v == DataClose(w)
<1>1. DataAbort(w) = w
  BY DataAbortFares
<1>2. DOMAIN w = {"f", "c"} /\ IsConn(w.c) /\ IsSession(w.f)
  BY WorldOn DEF World
<1>3. v = [w EXCEPT !.c = CloseData(@), !.f.state = "CONNECTING"]
  BY DEF DataClose
<1> HIDE DEF v
<1>4. DOMAIN v = {"f", "c"} /\ v.f = [w.f EXCEPT !.state = "CONNECTING"] /\ v.c = CloseData(w.c)
  BY <1>2, <1>3
<1>5. IsSession(v.f) /\ v.f.state = "CONNECTING"
  <2>1. "CONNECTING" \in States
    BY DEF States
  <2> QED
    BY <1>2, <1>4, <2>1, SessionState
<1>6. IsConn(v.c) /\ v.c.on
  BY <1>2, <1>4, DataSame, SameIsConn DEF IsConn
<1>7. v.c.quit = w.c.quit
  BY <1>2, <1>4 DEF CloseData, IsConn, NewConn
<1> QED
  BY <1>1, <1>4, <1>5, <1>6, <1>7 DEF World, v

\* A change of the session only, not into or out of CONNECTING.
LEMMA GoodSession ==
    ASSUME NEW w, Good(w), NEW v, DOMAIN v = {"f", "c"}, v.c = w.c, IsSession(v.f),
           \/ w.f.state # "CONNECTING" /\ v.f.state # "CONNECTING"
           \/ v.f.state = w.f.state /\ v.f.error = w.f.error /\ v.f.eof = w.f.eof /\ v.f.mode = w.f.mode
           \/ ~w.c.on
    PROVE  Good(v)
<1>1. World(v)
  BY DEF Good, World
<1>2. CASE ~w.c.on
  BY <1>1, <1>2, Zenon DEF Good
<1>3. CASE w.f.state # "CONNECTING" /\ v.f.state # "CONNECTING"
  BY <1>1, <1>3, Zenon DEF Good
<1>4. CASE v.f.state = w.f.state /\ v.f.error = w.f.error /\ v.f.eof = w.f.eof /\ v.f.mode = w.f.mode
  BY <1>1, <1>4, Zenon DEF Good, Connecting
<1> QED
  BY <1>2, <1>3, <1>4

\* Close, at any moment of an operation.
LEMMA CloseSessionGood ==
    ASSUME NEW w, Good(w)
    PROVE  Good(CloseSession(w))
<1> DEFINE a == [w EXCEPT !.f.norest = FALSE, !.f.eof = FALSE]
           v == DataClose(DataAbort(a))
           u == [v EXCEPT !.c = CloseExpect(@)]
           x == IF ~v.c.on THEN To(v, "INITIAL")
                ELSE IF v.f.state \in {"CONNECTING", "CONNECTED"} THEN Disconnect(u)
                ELSE IF v.f.state = "INITIAL" THEN u ELSE To(u, "EOF")
           z == [x EXCEPT !.f.mode = "CLOSED", !.f.error = "OK", !.f.file = <<>>]
<1>1. CloseSession(w) = z
  BY DEF CloseSession
<1>2. World(w) /\ DOMAIN w = {"f", "c"} /\ IsSession(w.f)
  BY DEF Good, World
<1>3. DOMAIN a = {"f", "c"} /\ a.c = w.c /\ IsSession(a.f) /\ a.f.state = w.f.state
  BY <1>2 DEF IsSession, IdleSession
<1>4. World(a)
  BY <1>2, <1>3 DEF World
<1> HIDE DEF a
<1>5. ASSUME Good(x), ~x.c.on \/ x.f.state # "CONNECTING" PROVE Good(z)
  <2> HIDE DEF x
  <2>1. DOMAIN x = {"f", "c"} /\ IsSession(x.f)
    BY <1>5 DEF Good, World
  <2>2. DOMAIN z = {"f", "c"} /\ z.c = x.c /\ z.f = [x.f EXCEPT !.mode = "CLOSED", !.error = "OK", !.file = <<>>]
    BY <2>1
  <2> HIDE DEF z
  <2>3. IsSession(z.f) /\ z.f.state = x.f.state
    BY <2>1, <2>2, NoneIs DEF IsSession, IdleSession
  <2> QED
    BY <1>5, <2>2, <2>3, GoodSession
<1> HIDE DEF z
<1>6. CASE ~w.c.on
  <2>1. v = a
    BY <1>3, <1>6 DEF DataAbort, DataClose
  <2>2. x = To(a, "INITIAL")
    BY <1>3, <1>6, <2>1
  <2> HIDE DEF v, x
  <2>3. DOMAIN x = {"f", "c"} /\ x.c = w.c /\ x.f = [a.f EXCEPT !.state = "INITIAL"]
    BY <1>3, <2>2 DEF To
  <2>4. IsSession(x.f)
    <3>1. "INITIAL" \in States
      BY DEF States
    <3> QED
      BY <1>3, <2>3, <3>1, SessionState
  <2>5. Good(x)
    BY <1>6, <2>3, <2>4, GoodSession
  <2> QED
    BY <1>1, <1>5, <1>6, <2>3, <2>5 DEF x
<1>7. CASE w.c.on /\ w.f.state = "CONNECTING"
  <2>1. ~w.c.quit
    BY <1>7 DEF Good, Connecting
  <2>2. World(v) /\ v.c.on /\ v.f.state = "CONNECTING" /\ ~v.c.quit
    BY <1>3, <1>4, <1>7, <2>1, ConnectingClosed
  <2> HIDE DEF v
  <2>3. World(u) /\ u.c.on /\ u.f.state = "CONNECTING"
    BY <2>2, CloseExpectFares
  <2>4. ~u.c.quit
    <3>1. DOMAIN v = {"f", "c"} /\ IsConn(v.c)
      BY <2>2, WorldOn DEF World
    <3>2. u.c = CloseExpect(v.c)
      BY <3>1
    <3> HIDE DEF u
    <3> QED
      BY <2>2, <3>1, <3>2 DEF CloseExpect, IsConn, NewConn
  <2> HIDE DEF u
  <2>5. x = Disconnect(u)
    BY <2>2
  <2>6. World(x) /\ x.c = NoConn
    BY <2>3, <2>4, <2>5, DisconnectFares
  <2> HIDE DEF x
  <2>7. Good(x) /\ ~x.c.on
    BY <2>6, NoConnIs DEF Good
  <2> QED
    BY <1>1, <1>5, <2>7 DEF x, u, v
<1>8. CASE w.c.on /\ w.f.state # "CONNECTING"
  <2>1. Steady(a)
    <3>1. Good(a)
      BY <1>3, <1>8, GoodSession
    <3> QED
      BY <1>3, <1>4, <1>8, <3>1, SteadyIsGood
  <2>2. Steady(v)
    <3>1. Steady(DataAbort(a))
      BY <2>1, DataAbortFares, SteadyFares
    <3> QED
      BY <3>1, DataCloseFares, SteadyFares
  <2> HIDE DEF v
  <2>3. v.c.on => Steady(u)
    BY <2>2, CloseExpectFares, SteadyFares
  <2> HIDE DEF u
  <2>4. v.c.on => Steady(Disconnect(u))
    BY <2>3, DisconnectFares, SteadyFares
  <2>5. Steady(To(v, "INITIAL")) /\ (v.c.on => Steady(To(u, "EOF")))
    <3>1. "INITIAL" \in States \ {"CONNECTING"} /\ "EOF" \in States \ {"CONNECTING"}
      BY DEF States
    <3> QED
      BY <2>2, <2>3, <3>1, SteadyState
  <2>6. Steady(x)
    BY <2>2, <2>3, <2>4, <2>5
  <2> HIDE DEF x
  <2>7. Good(x) /\ x.f.state # "CONNECTING"
    BY <2>6, SteadyGood, SteadyIs
  <2> QED
    BY <1>1, <1>5, <2>7 DEF x, u, v
<1> QED
  BY <1>6, <1>7, <1>8

\* A change of neither the queues nor of what CONNECTING depends on.
LEMMA GoodTweak ==
    ASSUME NEW w, Good(w), w.c.on,
           NEW v, DOMAIN v = {"f", "c"}, IsSession(v.f), v.f.state = w.f.state, v.f.error = w.f.error,
           v.f.eof = w.f.eof, v.f.mode = w.f.mode, SameQueues(w.c, v.c), v.c.quit = w.c.quit
    PROVE  Good(v)
<1>1. IsConn(w.c)
  BY WorldOn DEF Good
<1>2. IsConn(v.c)
  BY <1>1, SameIsConn
<1>3. World(v)
  BY <1>2 DEF World
<1>4. v.c.on /\ v.c.net = w.c.net /\ v.c.out = w.c.out /\ v.c.expect = w.c.expect
  BY DEF SameQueues
<1>5. \A e, q, n : Matched(e, w.c, q, n) => Matched(e, v.c, q, n)
  BY DEF Matched, SameQueues
<1>6. CASE w.f.state = "CONNECTING"
  <2>1. Fresh(w.c) => Fresh(v.c)
    BY DEF Fresh, SameQueues
  <2>2. Connecting(w) => Connecting(v)
    BY <1>4, <1>5, <2>1, Zenon DEF Connecting
  <2> QED
    BY <1>3, <1>6, <2>2, Zenon DEF Good
<1>7. CASE w.f.state # "CONNECTING"
  BY <1>3, <1>4, <1>5, <1>7, Zenon DEF Good
<1> QED
  BY <1>6, <1>7

\* An action of one session: the others are as they were.
LEMMA BecomesGood ==
    ASSUME IInv, NEW s \in Sessions, Good([f |-> ses'[s], c |-> conn'[s]]),
           DOMAIN ses' = DOMAIN ses, DOMAIN conn' = DOMAIN conn,
           \A t \in Sessions \ {s} : ses'[t] = ses[t] /\ conn'[t] = conn[t]
    PROVE  IInv'
<1>1. DOMAIN ses' = Sessions /\ DOMAIN conn' = Sessions
  BY DEF IInv
<1>2. ASSUME NEW t \in Sessions PROVE Good([f |-> ses'[t], c |-> conn'[t]])
  <2>1. CASE t = s
    BY <2>1
  <2>2. CASE t # s
    <3>1. ses'[t] = ses[t] /\ conn'[t] = conn[t]
      BY <2>2
    <3>2. Good([f |-> ses[t], c |-> conn[t]])
      BY DEF IInv, W
    <3> QED
      BY <3>1, <3>2
  <2> QED
    BY <2>1, <2>2
<1> QED
  BY <1>1, <1>2 DEF IInv, W

\* An action that replaces one session and its connection.
LEMMA BecomeGood ==
    ASSUME IInv, NEW s \in Sessions, NEW w, Good(w), Become(s, w)
    PROVE  IInv'
<1> DEFINE v == [f |-> w.f, c |-> w.c]
<1>1. DOMAIN v = {"f", "c"} /\ v.f = w.f /\ v.c = w.c
  OBVIOUS
<1>2. IsSession(w.f)
  BY DEF Good, World
<1> HIDE DEF v
<1>3. Good(v)
  BY <1>1, <1>2, GoodSession
<1>4. ses'[s] = w.f /\ conn'[s] = w.c
  BY DEF Become, IInv
<1>5. DOMAIN ses' = DOMAIN ses /\ DOMAIN conn' = DOMAIN conn
  BY DEF Become
<1>6. \A t \in Sessions \ {s} : ses'[t] = ses[t] /\ conn'[t] = conn[t]
  BY DEF Become, IInv
<1> QED
  BY <1>3, <1>4, <1>5, <1>6, BecomesGood DEF v

\* What the invariant says of one session
LEMMA OfSession ==
    ASSUME IInv, NEW s \in Sessions
    PROVE  /\ Good(W(s)) /\ World(W(s)) /\ W(s).f = ses[s] /\ W(s).c = conn[s] /\ DOMAIN W(s) = {"f", "c"}
           /\ IsSession(ses[s]) /\ s \in DOMAIN ses /\ s \in DOMAIN conn
           /\ conn[s].on => IsConn(conn[s]) /\ (ses[s].state # "CONNECTING" => Steady(W(s)))
           /\ conn[s].on /\ ses[s].state = "CONNECTING" => Connecting(W(s))
<1>1. Good(W(s)) /\ W(s).f = ses[s] /\ W(s).c = conn[s] /\ DOMAIN W(s) = {"f", "c"} /\ s \in DOMAIN ses /\ s \in DOMAIN conn
  BY DEF IInv, W
<1>2. World(W(s)) /\ IsSession(ses[s])
  BY <1>1 DEF Good, World
<1> QED
  BY <1>1, <1>2, WorldOn, SteadyIsGood DEF Good

\* Do keeps the invariant.
LEMMA DoKeeps ==
    ASSUME IInv, NEW s \in Sessions, Do(s)
    PROVE  IInv'
<1>1. conn[s].on /\ ses[s].state # "INITIAL"
  BY DEF Do, HasConnection, Online
<1>2. PICK timeout : Become(s, Do_LL(W(s), timeout))
  BY DEF Do
<1> QED
  BY <1>1, <1>2, OfSession, Do_LLGood, BecomeGood

\* Close keeps the invariant.
LEMMA CloseKeeps ==
    ASSUME IInv, NEW s \in Sessions, Close(s)
    PROVE  IInv'
<1>1. Become(s, CloseSession(W(s)))
  BY DEF Close
<1> QED
  BY <1>1, OfSession, CloseSessionGood, BecomeGood

\* The idle timer keeps the invariant.
LEMMA IdleTimeoutKeeps ==
    ASSUME IInv, NEW s \in Sessions, IdleTimeout(s)
    PROVE  IInv'
<1>1. Become(s, Disconnect(W(s))) /\ conn[s].on /\ ses[s].mode = "CLOSED"
  BY DEF IdleTimeout, Online
<1>2. Steady(W(s))
  BY <1>1, OfSession DEF Connecting
<1>3. Good(Disconnect(W(s)))
  BY <1>2, DisconnectFares, SteadyFares, SteadyGood
<1> QED
  BY <1>1, <1>3, BecomeGood

\* HandleTimeout keeps the invariant.
LEMMA NetTimeoutKeeps ==
    ASSUME IInv, NEW s \in Sessions, NetTimeout(s)
    PROVE  IInv'
<1> DEFINE a == [W(s) EXCEPT !.c.quit = TRUE]
<1>1. Become(s, DisconnectNow(a)) /\ conn[s].on
  BY DEF NetTimeout, TimeOut, Online
<1>2. IsConn(conn[s]) /\ IsSession(ses[s])
  BY <1>1, OfSession
<1>3. DOMAIN a = {"f", "c"} /\ a.f = ses[s] /\ a.c = [conn[s] EXCEPT !.quit = TRUE]
  BY OfSession
<1>4. IsConn(a.c)
  BY <1>2, <1>3 DEF IsConn, NewConn
<1>5. World(a)
  BY <1>2, <1>3, <1>4 DEF World
<1> HIDE DEF a
<1>6. Good(DisconnectNow(a))
  BY <1>5, DisconnectNowFares, NoConnIs DEF Good
<1> QED
  BY <1>1, <1>6, BecomeGood

\* The timer of an aborted data connection keeps the invariant.
LEMMA AbortedDoneKeeps ==
    ASSUME IInv, NEW s \in Sessions, AbortedDone(s)
    PROVE  IInv'
<1> DEFINE d == CloseAborted(conn[s])  v == [f |-> ses[s], c |-> d]
<1>1. conn[s].on /\ conn' = [conn EXCEPT ![s] = d] /\ ses' = ses
  BY DEF AbortedDone, Online
<1>2. IsConn(conn[s]) /\ IsSession(ses[s])
  BY <1>1, OfSession
<1>3. SameQueues(conn[s], d) /\ d.quit = conn[s].quit
  BY <1>2, DataSame DEF CloseAborted, IsConn, NewConn
<1> HIDE DEF d
<1>4. DOMAIN v = {"f", "c"} /\ v.f = W(s).f /\ v.c = d
  BY OfSession
<1>5. Good(v)
  BY <1>1, <1>2, <1>3, <1>4, OfSession, GoodTweak
<1>6. ses'[s] = ses[s] /\ conn'[s] = d /\ DOMAIN ses' = DOMAIN ses /\ DOMAIN conn' = DOMAIN conn
  BY <1>1, OfSession
<1>7. \A t \in Sessions \ {s} : ses'[t] = ses[t] /\ conn'[t] = conn[t]
  BY <1>1 DEF IInv
<1> QED
  BY <1>5, <1>6, <1>7, BecomesGood

\* The interruption of a session whose connection is to be taken.
LEMMA InterruptedSteady ==
    ASSUME NEW o, Steady(W(o))
    PROVE  Steady(Interrupted(o))
<1>1. Steady(DataAbort(W(o)))
  BY DataAbortFares, SteadyFares
<1>2. Steady(DataClose(DataAbort(W(o))))
  BY <1>1, DataCloseFares, SteadyFares
<1> QED
  BY <1>2 DEF Interrupted

\* MoveConnectionHere: replies still to come go with the expectations of them.
LEMMA TakeConnectionKeeps ==
    ASSUME IInv, NEW s \in Sessions, NEW o \in Sessions \ {s}, TakeConnection(s, o)
    PROVE  IInv'
<1> DEFINE v == Interrupted(o)
           f == IF ~v.c.on THEN ses[s] ELSE [ses[s] EXCEPT !.state = "EOF", !.rcwd = v.f.rcwd, !.asserts = ses[s].asserts /\ v.c.iob = NoBuf]
           g == [v.f EXCEPT !.state = "INITIAL"]
           c == IF v.c.on THEN CloseExpect(v.c) ELSE conn[s]
<1>1. o \in Others(s)
  BY DEF TakeConnection, CanTake, AnyIdle, SameDir, Active
<1>2. conn[o].on /\ ses[o].state # "CONNECTING" /\ s # o
  BY <1>1 DEF Others
<1>3. Steady(v)
  BY <1>2, OfSession, InterruptedSteady
<1>4. /\ ses'[s] = f /\ ses'[o] = g /\ DOMAIN ses' = DOMAIN ses
      /\ \A t \in Sessions \ {s, o} : ses'[t] = ses[t]
      /\ conn' = [conn EXCEPT ![s] = c, ![o] = NoConn]
  <2>1. conn' = [conn EXCEPT ![s] = c, ![o] = NoConn]
    BY SMT DEF TakeConnection
  <2>2. ses' = [ses EXCEPT ![s] = IF ~v.c.on THEN @
                                       ELSE [@ EXCEPT !.state = "EOF", !.rcwd = v.f.rcwd,
                                                      !.asserts = ses[s].asserts /\ v.c.iob = NoBuf],
                           ![o] = [v.f EXCEPT !.state = "INITIAL"]]
    BY SMT DEF TakeConnection
  <2>3. s \in DOMAIN ses /\ o \in DOMAIN ses /\ s # o
    BY <1>2, OfSession
  <2>4. ses'[o] = g
    <3> HIDE DEF v
    <3> QED
      BY <2>2, <2>3, SMT
  <2>5. ses'[s] = f
    <3> HIDE DEF v
    <3>1. CASE v.c.on
      BY <2>2, <2>3, <3>1, SMT
    <3>2. CASE ~v.c.on
      BY <2>2, <2>3, <3>2, SMT
    <3> QED
      BY <3>1, <3>2
  <2>6. DOMAIN ses' = DOMAIN ses /\ \A t \in Sessions \ {s, o} : ses'[t] = ses[t]
    <3> HIDE DEF v
    <3> QED
      BY <2>2, SMT DEF IInv
  <2> QED
    BY <2>1, <2>4, <2>5, <2>6
<1> HIDE DEF v
<1>5. IsSession(v.f) /\ DOMAIN v = {"f", "c"} /\ (v.c.on => IsConn(v.c))
  BY <1>3, SteadyIs
<1>6. Good([f |-> g, c |-> NoConn])
  <2> DEFINE z == [f |-> g, c |-> NoConn]
  <2>1. IsSession(g)
    <3>1. "INITIAL" \in States
      BY DEF States
    <3> QED
      BY <1>5, <3>1, SessionState
  <2>2. DOMAIN z = {"f", "c"} /\ z.f = g /\ z.c = NoConn
    OBVIOUS
  <2> HIDE DEF z, g
  <2>3. Good(z)
    BY <2>1, <2>2, NoConnIs DEF Good, World
  <2> QED
    BY <2>3 DEF z
<1>7. Good([f |-> f, c |-> c])
  <2>1. CASE ~v.c.on
    <3>1. f = ses[s] /\ c = conn[s]
      BY <2>1
    <3>2. Good([f |-> ses[s], c |-> conn[s]])
      BY OfSession DEF W
    <3> QED
      BY <3>1, <3>2
  <2>2. CASE v.c.on
    <3> DEFINE u == [v EXCEPT !.c = CloseExpect(@)]
               z == [f |-> f, c |-> c]
    <3>1. Steady(u) /\ u.c.on /\ DOMAIN u = {"f", "c"}
      BY <1>3, <1>5, <2>2, CloseExpectFares, SteadyFares, SteadyIs
    <3>2. u.c = CloseExpect(v.c)
      BY <1>5
    <3> HIDE DEF u
    <3>3. f = [ses[s] EXCEPT !.state = "EOF", !.rcwd = v.f.rcwd, !.asserts = ses[s].asserts /\ v.c.iob = NoBuf] /\ c = u.c
      BY <2>2, <3>2
    <3>4. IsSession(f) /\ f.state = "EOF"
      <4> HIDE DEF f
      <4>1. IsSession(ses[s]) /\ IsQueue(v.f.rcwd)
        BY <1>5, OfSession DEF IsSession
      <4>2. "EOF" \in States
        BY DEF States
      <4> QED
        BY <3>3, <4>1, <4>2 DEF IsSession, IdleSession
    <3>5. DOMAIN z = {"f", "c"} /\ z.f = f /\ z.c = u.c
      BY <3>3
    <3> HIDE DEF z, f, c
    <3>6. SameQueues(u.c, z.c)
      BY <3>5 DEF SameQueues
    <3>7. Steady(z)
      BY <3>1, <3>4, <3>5, <3>6, SteadyTweak
    <3> QED
      BY <3>7, SteadyGood DEF z
  <2> QED
    BY <2>1, <2>2
<1> HIDE DEF f, g, c
<1>8. /\ ses'[s] = f /\ ses'[o] = g /\ conn'[s] = c /\ conn'[o] = NoConn
      /\ \A t \in Sessions \ {s, o} : ses'[t] = ses[t] /\ conn'[t] = conn[t]
      /\ DOMAIN ses' = Sessions /\ DOMAIN conn' = Sessions
  BY <1>2, <1>4 DEF IInv
<1>9. ASSUME NEW t \in Sessions PROVE Good([f |-> ses'[t], c |-> conn'[t]])
  <2>1. CASE t = s
    BY <1>7, <1>8, <2>1
  <2>2. CASE t = o
    BY <1>6, <1>8, <2>2
  <2>3. CASE t \notin {s, o}
    <3>1. ses'[t] = ses[t] /\ conn'[t] = conn[t]
      BY <1>8, <2>3
    <3>2. Good([f |-> ses[t], c |-> conn[t]])
      BY DEF IInv, W
    <3> QED
      BY <3>1, <3>2
  <2> QED
    BY <2>1, <2>2, <2>3
<1> QED
  BY <1>8, <1>9 DEF IInv, W

\* A new connection waits for the greeting.
LEMMA ConnectKeeps ==
    ASSUME IInv, NEW s \in Sessions, Connect(s)
    PROVE  IInv'
<1> DEFINE f == [ses[s] EXCEPT !.state = "CONNECTING"]  z == [f |-> f, c |-> NewConn]
<1>1. /\ ses[s].mode # "CLOSED" /\ ses[s].error = "OK" /\ ~ses[s].eof
      /\ ses' = [ses EXCEPT ![s] = f] /\ conn' = [conn EXCEPT ![s] = NewConn]
  BY DEF Connect, NeedsConnection
<1>2. IsSession(f) /\ f.state = "CONNECTING" /\ f.mode # "CLOSED" /\ f.error = "OK" /\ ~f.eof
  <2>1. "CONNECTING" \in States /\ IsSession(ses[s])
    BY OfSession DEF States
  <2> QED
    BY <1>1, <2>1 DEF IsSession, IdleSession
<1>3. /\ IsConn(NewConn) /\ Fresh(NewConn) /\ ~NewConn.quit /\ NewConn.net = "syn" /\ NewConn.on
  <2>1. /\ NewConn.expect = <<>> /\ NewConn.unsent = <<>> /\ NewConn.inq = <<>> /\ NewConn.out = <<>>
        /\ NewConn.sync_wait = 1 /\ NewConn.xfer = NoXfer /\ NewConn.on = TRUE
        /\ NewConn.net = "syn" /\ NewConn.quit = FALSE
    BY DEF NewConn
  <2>2. Expects(<<>>)
    BY NoneIs DEF Expects
  <2> QED
    BY <2>1, <2>2, NoneIs DEF IsConn, Fresh
<1>4. DOMAIN z = {"f", "c"} /\ z.f = f /\ z.c = NewConn
  OBVIOUS
<1> HIDE DEF z, f
<1>5. Good(z)
  <2>1. World(z)
    BY <1>2, <1>3, <1>4 DEF World
  <2>2. Connecting(z)
    BY <1>2, <1>3, <1>4 DEF Connecting
  <2> QED
    BY <1>2, <1>4, <2>1, <2>2 DEF Good
<1>6. ses'[s] = f /\ conn'[s] = NewConn /\ DOMAIN ses' = DOMAIN ses /\ DOMAIN conn' = DOMAIN conn
  BY <1>1, OfSession
<1>7. \A t \in Sessions \ {s} : ses'[t] = ses[t] /\ conn'[t] = conn[t]
  BY <1>1 DEF IInv
<1> QED
  BY <1>5, <1>6, <1>7, BecomesGood DEF z

\* Open: a connection that is being established has an operation already.
LEMMA OpenKeeps ==
    ASSUME IInv, NEW s \in Sessions, Open(s)
    PROVE  IInv'
<1>1. PICK mode, at, file :
         /\ file \in Dirs \cup {Missing, <<>>}
         /\ ses' = [ses EXCEPT ![s] = [ses[s] EXCEPT !.mode = mode, !.pos = at, !.real = -1, !.file = file]]
  <2>1. PICK mode \in ModesOf[s] :
          \E at \in (IF mode = "STORE" THEN {0, Len(store[s])} ELSE IF mode = "RETRIEVE" THEN {0, N \div 2} ELSE {0}) :
          \E file \in (IF mode = "CHANGE_DIR" THEN Dirs \cup {Missing} ELSE {<<>>}) :
             ses' = [ses EXCEPT ![s].mode = mode, ![s].pos = at, ![s].real = -1, ![s].file = file]
    BY DEF Open
  <2>2. PICK at, file :
          /\ file \in (IF mode = "CHANGE_DIR" THEN Dirs \cup {Missing} ELSE {<<>>})
          /\ ses' = [ses EXCEPT ![s].mode = mode, ![s].pos = at, ![s].real = -1, ![s].file = file]
    BY <2>1
  <2>3. file \in Dirs \cup {Missing, <<>>}
    BY <2>2
  <2> QED
    BY <2>2, <2>3
<1> DEFINE f == [ses[s] EXCEPT !.mode = mode, !.pos = at, !.real = -1, !.file = file]  z == [f |-> f, c |-> conn[s]]
<1>2. conn' = conn /\ ses[s].mode = "CLOSED"
  BY DEF Open
<1>3. IsQueue(file)
  BY <1>1, FtpAssumption, SeqIsQueue, NoneIs, OneIs DEF Missing
<1>4. IsSession(f) /\ f.state = ses[s].state
  BY <1>3, OfSession DEF IsSession, IdleSession
<1>5. conn[s].on => ses[s].state # "CONNECTING"
  BY <1>2, OfSession DEF Connecting
<1>6. DOMAIN z = {"f", "c"} /\ z.f = f /\ z.c = W(s).c /\ z.c = conn[s]
  BY OfSession
<1>7. ses'[s] = f /\ conn'[s] = conn[s] /\ DOMAIN ses' = DOMAIN ses /\ DOMAIN conn' = DOMAIN conn
  BY <1>1, <1>2, OfSession
<1>8. \A t \in Sessions \ {s} : ses'[t] = ses[t] /\ conn'[t] = conn[t]
  BY <1>1, <1>2 DEF IInv
<1> HIDE DEF z, f
<1>9. Good(z)
  BY <1>4, <1>5, <1>6, OfSession, GoodSession
<1> QED
  BY <1>7, <1>8, <1>9, BecomesGood DEF z

\* What changes no queue of the connection, and nothing else that matters
LEMMA TweakKeeps ==
    ASSUME IInv, NEW s \in Sessions, conn[s].on, NEW f, NEW c,
           IsSession(f), f.state = ses[s].state, f.error = ses[s].error, f.eof = ses[s].eof, f.mode = ses[s].mode,
           SameQueues(conn[s], c), c.quit = conn[s].quit,
           ses'[s] = f, conn'[s] = c, DOMAIN ses' = DOMAIN ses, DOMAIN conn' = DOMAIN conn,
           \A t \in Sessions \ {s} : ses'[t] = ses[t] /\ conn'[t] = conn[t]
    PROVE  IInv'
<1> DEFINE z == [f |-> f, c |-> c]
<1>1. DOMAIN z = {"f", "c"} /\ z.f = f /\ z.c = c
  OBVIOUS
<1> HIDE DEF z
<1>2. Good(z)
  BY <1>1, OfSession, GoodTweak
<1> QED
  BY <1>2, BecomesGood DEF z

\* Read keeps the invariant.
LEMMA ReadKeeps ==
    ASSUME IInv, NEW s \in Sessions, Read(s)
    PROVE  IInv'
<1> DEFINE skip == Skipped(W(s))
           n == IF skip < Len(conn[s].iob.buf) THEN 1 ELSE 0
           a == ses[s].asserts /\ (n = 1 => ses[s].real + skip = ses[s].pos)
           f == [ses[s] EXCEPT !.real = @ + skip + n, !.pos = @ + n, !.io = @ \/ n = 1, !.asserts = a]
           c == [conn[s] EXCEPT !.iob.buf = SubSeq(@, skip + n + 1, Len(@))]
<1>1. conn' = [conn EXCEPT ![s] = c]
  BY DEF Read
<1>2. /\ DOMAIN ses' = DOMAIN ses /\ \A t \in Sessions \ {s} : ses'[t] = ses[t]
      /\ DOMAIN ses'[s] = DOMAIN ses[s]
      /\ \A k \in DOMAIN ses[s] \ {"real", "pos", "io", "asserts"} : ses'[s][k] = ses[s][k]
  BY OfSession DEF Read, IInv
<1>3. conn[s].on
  BY OfSession DEF Read, CanRead
<1>4. IsSession(ses[s]) /\ IsConn(conn[s])
  BY <1>3, OfSession
<1>5. SameQueues(conn[s], c) /\ c.quit = conn[s].quit
  <2> DEFINE x == [conn[s].iob EXCEPT !.buf = SubSeq(@, skip + n + 1, Len(@))]
  <2>1. c = [conn[s] EXCEPT !.iob = x]
    OBVIOUS
  <2> HIDE DEF x, c
  <2>2. c.quit = conn[s].quit
    BY <1>4, <2>1 DEF IsConn, NewConn
  <2> QED
    BY <1>4, <2>1, <2>2, DetailSame
<1>6. conn'[s] = c /\ DOMAIN conn' = DOMAIN conn /\ \A t \in Sessions \ {s} : conn'[t] = conn[t]
  BY <1>1, OfSession DEF IInv
<1> HIDE DEF c
<1>7. IsSession(ses'[s]) /\ \A k \in {"state", "error", "eof", "mode"} : ses'[s][k] = ses[s][k]
  BY <1>2, <1>4 DEF IsSession, IdleSession
<1> QED
  BY <1>2, <1>3, <1>5, <1>6, <1>7, TweakKeeps

\* Write keeps the invariant.
LEMMA WriteKeeps ==
    ASSUME IInv, NEW s \in Sessions, Write(s)
    PROVE  IInv'
<1> DEFINE f == [ses[s] EXCEPT !.pos = @ + 1, !.real = @ + 1, !.io = TRUE]
           c == [conn[s] EXCEPT !.iob.buf = Append(@, ses[s].pos)]
<1>1. ses' = [ses EXCEPT ![s] = f] /\ conn' = [conn EXCEPT ![s] = c] /\ conn[s].on
  BY DEF Write, Online
<1>2. IsSession(ses[s]) /\ IsConn(conn[s])
  BY <1>1, OfSession
<1>3. SameQueues(conn[s], c) /\ c.quit = conn[s].quit
  <2> DEFINE x == [conn[s].iob EXCEPT !.buf = Append(@, ses[s].pos)]
  <2>1. c = [conn[s] EXCEPT !.iob = x]
    OBVIOUS
  <2> HIDE DEF x, c
  <2>2. c.quit = conn[s].quit
    BY <1>2, <2>1 DEF IsConn, NewConn
  <2> QED
    BY <1>2, <2>1, <2>2, DetailSame
<1>4. IsSession(f) /\ f.state = ses[s].state /\ f.error = ses[s].error /\ f.eof = ses[s].eof /\ f.mode = ses[s].mode
  BY <1>2 DEF IsSession, IdleSession
<1> HIDE DEF f, c
<1>5. /\ ses'[s] = f /\ conn'[s] = c /\ DOMAIN ses' = DOMAIN ses /\ DOMAIN conn' = DOMAIN conn
      /\ \A t \in Sessions \ {s} : ses'[t] = ses[t] /\ conn'[t] = conn[t]
  BY <1>1, OfSession DEF IInv
<1> QED
  BY <1>1, <1>3, <1>4, <1>5, TweakKeeps

\* StoreStatus keeps the invariant.
LEMMA StoreStatusKeeps ==
    ASSUME IInv, NEW s \in Sessions, StoreStatus(s)
    PROVE  IInv'
<1> DEFINE w == W(s)
           b == w.c.iob
           v == IF w.f.state # "DATA" THEN w
                ELSE IF b.buf = <<>> \/ b.err THEN To(DataClose(w), "WAITING") ELSE [w EXCEPT !.c.iob.eof = TRUE]
           u == [v EXCEPT !.f.eof = v.f.state = "WAITING" /\ v.c.expect = <<>>]
<1>1. Become(s, u) /\ conn[s].on /\ ~ses[s].eof
  BY DEF StoreStatus, Online
<1>2. CASE w.f.state = "CONNECTING"
  <2>1. v = w
    BY <1>2
  <2>2. u = [w EXCEPT !.f.eof = FALSE]
    BY <1>2, <2>1
  <2> HIDE DEF u, v
  <2>3. /\ DOMAIN u = {"f", "c"} /\ u.c = w.c /\ u.f = [w.f EXCEPT !.eof = FALSE]
        /\ DOMAIN w = {"f", "c"} /\ IsSession(w.f) /\ w.f = ses[s]
    BY <2>2, OfSession
  <2>4. IsSession(u.f) /\ u.f.state = w.f.state /\ u.f.error = w.f.error /\ u.f.mode = w.f.mode /\ u.f.eof = FALSE
    BY <2>3 DEF IsSession, IdleSession
  <2>5. CASE w.f.eof = FALSE
    BY <1>1, <2>3, <2>4, <2>5, OfSession, GoodSession, BecomeGood
  <2>6. Connecting(w)
    BY <1>1, <1>2, OfSession
  <2>7. Connecting(u)
    BY <2>3, <2>4, <2>6 DEF Connecting
  <2>8. Good(u)
    BY <1>1, <1>2, <2>3, <2>4, <2>7, OfSession DEF Good, World
  <2> QED
    BY <1>1, <2>8, BecomeGood
<1>3. CASE w.f.state # "CONNECTING"
  <2>1. Steady(w) /\ w.c.on
    BY <1>1, <1>3, OfSession
  <2>2. Steady(To(DataClose(w), "WAITING"))
    <3>1. "WAITING" \in States \ {"CONNECTING"}
      BY DEF States
    <3> QED
      BY <2>1, <3>1, DataCloseFares, SteadyFares, SteadyState
  <2>3. Steady([w EXCEPT !.c.iob.eof = TRUE])
    <3> DEFINE y == [w EXCEPT !.c.iob.eof = TRUE]  x == [w.c.iob EXCEPT !.eof = TRUE]
    <3>1. DOMAIN w = {"f", "c"} /\ IsSession(w.f) /\ IsConn(w.c)
      BY <2>1, SteadyIs
    <3> HIDE DEF w
    <3>2. DOMAIN y = {"f", "c"} /\ y.f = w.f /\ y.c = [w.c EXCEPT !.iob = x]
      BY <3>1
    <3> HIDE DEF y, x
    <3>3. SameQueues(w.c, y.c)
      BY <3>1, <3>2, DetailSame
    <3> QED
      BY <1>3, <2>1, <3>1, <3>2, <3>3, SteadyTweak DEF y
  <2>4. Steady(v)
    BY <2>1, <2>2, <2>3
  <2> HIDE DEF v
  <2>5. Steady(u)
    BY <2>4, FieldFares, SteadyFares
  <2> QED
    BY <1>1, <2>5, SteadyGood, BecomeGood
<1> QED
  BY <1>2, <1>3

-----------------------------------------------------------------------------
(* The server and the network                                              *)

\* What they may change of a connection c
Serves(c, d) ==
    /\ DOMAIN d = DOMAIN c /\ d.on = c.on /\ d.quit = c.quit /\ d.expect = c.expect
    /\ d.sync_wait = c.sync_wait /\ d.unsent = c.unsent

\* A step of the server after which the same expectations fit the replies on their way.
LEMMA ServedKeeps ==
    ASSUME IInv, NEW s \in Sessions, conn[s].on, NEW d, Becomes(s, d), IsConn(d), Serves(conn[s], d),
           d.net # "syn",
           d.net = "up" =>
              IF conn[s].net = "syn"
              THEN Fresh(conn[s]) => Lined(<<Exp("READY")>>, d.sync_wait, d.xfer, d.inq, d.unsent, d.out, 0)
              ELSE /\ conn[s].net = "up"
                   /\ \A e : LET c == conn[s] IN
                        Lined(e, c.sync_wait, c.xfer, c.inq, c.unsent, c.out, 0)
                           => Lined(e, d.sync_wait, d.xfer, d.inq, d.unsent, d.out, 0)
    PROVE  IInv'
<1> DEFINE z == [f |-> ses[s], c |-> d]  c == conn[s]
<1>1. DOMAIN z = {"f", "c"} /\ z.f = ses[s] /\ z.c = d /\ W(s).f = ses[s] /\ W(s).c = c
  BY OfSession
<1>2. World(z)
  BY <1>1, OfSession, Zenon DEF World
<1>3. \A e : conn[s].net # "syn" /\ Matched(e, c, c.out, 0) => Matched(e, d, d.out, 0)
  BY DEF Matched
<1> HIDE DEF z
<1>4. CASE ses[s].state = "CONNECTING"
  <2>1. Connecting(W(s))
    BY <1>4, OfSession
  <2>2. Matched(<<Exp("READY")>>, d, d.out, 0)
    <3>1. CASE c.net = "syn"
      BY <1>1, <2>1, <3>1 DEF Connecting, Matched
    <3>2. CASE c.net # "syn"
      BY <1>1, <1>3, <2>1, <3>2 DEF Connecting
    <3> QED
      BY <3>1, <3>2
  <2>3. Connecting(z)
    BY <1>1, <2>1, <2>2, Zenon DEF Connecting, Serves
  <2> QED
    <3>1. Good(z)
      BY <1>1, <1>2, <1>4, <2>3, Zenon DEF Good
    <3> HIDE DEF c
    <3> QED
      BY <3>1, OfSession, BecomesGood DEF Becomes, IInv, z
<1>5. CASE ses[s].state # "CONNECTING"
  <2>1. c.net # "syn" /\ Matched(c.expect, c, c.out, 0)
    BY <1>1, <1>5, OfSession DEF Good
  <2>2. Matched(d.expect, d, d.out, 0)
    BY <1>3, <2>1 DEF Serves
  <2>3. Good(z)
    BY <1>1, <1>2, <1>5, <2>2, Zenon DEF Good
  <2> QED
    BY <2>3, OfSession, BecomesGood DEF Becomes, IInv, z
<1> QED
  BY <1>4, <1>5

\* The server process ends.
LEMMA EndedIs ==
    ASSUME NEW c, IsConn(c), NEW net, net \in {"down", "leaving"}
    PROVE  LET d == Ended(c, net) IN IsConn(d) /\ Serves(c, d) /\ d.net = net
<1> DEFINE d == Ended(c, net)
<1>1. DOMAIN c = DOMAIN NewConn /\ c.on = TRUE
  BY DEF IsConn
<1>2. /\ DOMAIN d = DOMAIN c /\ d.on = c.on /\ d.quit = c.quit /\ d.expect = c.expect
      /\ d.sync_wait = c.sync_wait /\ d.unsent = c.unsent /\ d.out = c.out
      /\ d.net = net /\ d.inq = <<>> /\ d.xfer = NoXfer
  BY <1>1 DEF Ended, NewConn
<1> HIDE DEF d
<1>3. IsConn(d)
  BY <1>2, NoneIs DEF IsConn
<1> QED
  BY <1>2, <1>3 DEF Serves, d

\* A reply is sent.
LEMMA AnswerIs ==
    ASSUME NEW c, IsConn(c), NEW code, NEW op
    PROVE  LET d == Answer(c, code, op) IN
           /\ IsConn(d) /\ Serves(c, d) /\ d.net = c.net /\ d.inq = c.inq /\ d.xfer = c.xfer
           /\ d.out = Append(c.out, [code |-> code, op |-> op])
<1> DEFINE d == Answer(c, code, op)  r == [code |-> code, op |-> op]
<1>1. DOMAIN c = DOMAIN NewConn /\ c.on = TRUE /\ IsQueue(c.out)
  BY DEF IsConn
<1>2. d = [c EXCEPT !.out = Append(@, r)]
  BY DEF Answer
<1> HIDE DEF d, r
<1>3. /\ DOMAIN d = DOMAIN c /\ d.on = c.on /\ d.quit = c.quit /\ d.expect = c.expect
      /\ d.sync_wait = c.sync_wait /\ d.unsent = c.unsent /\ d.out = Append(c.out, r)
      /\ d.net = c.net /\ d.inq = c.inq /\ d.xfer = c.xfer
  BY <1>1, <1>2 DEF NewConn
<1>4. IsQueue(d.out)
  BY <1>1, <1>3, AppendIs
<1>5. IsConn(d)
  BY <1>3, <1>4 DEF IsConn
<1> QED
  BY <1>3, <1>5 DEF Serves, d, r

\* The connection is established, and the greeting is the first reply to come.
LEMMA EstablishedKeeps ==
    ASSUME IInv, NEW s \in Sessions, Established(s)
    PROVE  IInv'
<1> DEFINE h == Cmd("HELLO", <<>>, <<>>)  I == <<h>>  c == conn[s]
           d == [c EXCEPT !.net = "up", !.inq = I]
<1>1. c.on /\ c.net = "syn" /\ Becomes(s, d)
  BY DEF Established
<1>2. IsConn(c)
  BY <1>1, OfSession
<1>3. IsQueue(I) /\ Len(I) = 1 /\ I[1] = h
  BY OneIs
<1>4. h.op = "HELLO"
  BY DEF Cmd
<1> HIDE DEF h, I
<1>5. /\ Serves(c, d) /\ d.net = "up" /\ d.inq = I /\ d.out = c.out /\ d.xfer = c.xfer
      /\ d.unsent = c.unsent /\ d.sync_wait = c.sync_wait
  BY <1>2 DEF IsConn, NewConn, Serves
<1>6. IsConn(d)
  BY <1>2, <1>3, <1>5 DEF IsConn, Serves
<1>7. ASSUME Fresh(c) PROVE Lined(<<Exp("READY")>>, d.sync_wait, d.xfer, d.inq, d.unsent, d.out, 0)
  <2> DEFINE e == <<Exp("READY")>>
  <2>1. Counted(<<>>, 0, 0) = 0
    BY CountedIs
  <2>2. Len(e) = 1 /\ e[1].kind = "READY" /\ Len(<<>>) = 0
    BY OneIs, NoneIs DEF Exp
  <2>3. "HELLO" \in Answers("READY")
    BY DEF Answers, CwdKinds
  <2> HIDE DEF e
  <2>4. Busy(NoXfer) = 0
    BY DEF Busy
  <2>5. /\ 1 = Counted(<<>>, 0, Len(<<>>)) + Busy(NoXfer) + Len(I)
        /\ Len(e) = Counted(<<>>, 0, Len(<<>>)) + Busy(NoXfer) + Len(I) + Len(<<>>)
    BY <1>3, <2>1, <2>2, <2>4
  <2>6. \A j \in 1..Len(I) : I[j].op \in Answers(e[Counted(<<>>, 0, Len(<<>>)) + Busy(NoXfer) + j].kind)
    BY <1>3, <1>4, <2>1, <2>2, <2>3, <2>4
  <2>7. Lined(e, 1, NoXfer, I, <<>>, <<>>, 0)
    BY <2>2, <2>5, <2>6 DEF Lined
  <2> QED
    BY <1>5, <1>7, <2>7 DEF Fresh, e
<1> HIDE DEF d
<1>8. d.net # "syn" /\ (Fresh(c) => Lined(<<Exp("READY")>>, d.sync_wait, d.xfer, d.inq, d.unsent, d.out, 0))
  BY <1>5, <1>7
<1> QED
  BY <1>1, <1>5, <1>6, <1>8, ServedKeeps

\* The connection is closed: nothing more is claimed of its replies.
LEMMA ClosedKeeps ==
    ASSUME IInv, NEW s \in Sessions, conn[s].on, NEW d, Becomes(s, d), IsConn(d), Serves(conn[s], d),
           d.net \in {"down", "leaving"}
    PROVE  IInv'
  BY ServedKeeps

\* The loss of a connection keeps the invariant.
LEMMA LostKeeps ==
    ASSUME IInv, NEW s \in Sessions, Lost(s)
    PROVE  IInv'
<1>1. PICK n : Becomes(s, Ended([conn[s] EXCEPT !.rx.buf = SubSeq(@, 1, n)], "down"))
  BY DEF Lost
<1> DEFINE x == [conn[s].rx EXCEPT !.buf = SubSeq(@, 1, n)]  c == [conn[s] EXCEPT !.rx = x]  d == Ended(c, "down")
<1>2. conn[s].on /\ IsConn(conn[s])
  BY OfSession DEF Lost
<1> HIDE DEF x
<1>3. IsConn(c) /\ Serves(conn[s], c)
  BY <1>2 DEF IsConn, NewConn, Serves
<1>4. Becomes(s, d)
  BY <1>1 DEF x
<1> HIDE DEF c
<1>5. IsConn(d) /\ Serves(c, d) /\ d.net = "down"
  BY <1>3, EndedIs
<1> HIDE DEF d
<1>6. Serves(conn[s], d)
  BY <1>3, <1>5 DEF Serves
<1> QED
  BY <1>2, <1>4, <1>5, <1>6, ClosedKeeps

\* 421 keeps the invariant: the connection is about to be closed.
LEMMA ServerLeavesKeeps ==
    ASSUME IInv, NEW s \in Sessions, ServerLeaves(s)
    PROVE  IInv'
<1> DEFINE c == Answer(conn[s], 421, "none")  d == Ended(c, "leaving")
<1>1. conn[s].on /\ IsConn(conn[s]) /\ Becomes(s, d)
  BY OfSession DEF ServerLeaves, Up
<1>2. IsConn(c) /\ Serves(conn[s], c)
  BY <1>1, AnswerIs
<1> HIDE DEF c
<1>3. IsConn(d) /\ Serves(c, d) /\ d.net = "leaving"
  BY <1>2, EndedIs
<1> HIDE DEF d
<1>4. Serves(conn[s], d)
  BY <1>2, <1>3 DEF Serves
<1> QED
  BY <1>1, <1>3, <1>4, ClosedKeeps

\* The close of a connection keeps the invariant.
LEMMA FinKeeps ==
    ASSUME IInv, NEW s \in Sessions, Fin(s)
    PROVE  IInv'
<1> DEFINE d == [conn[s] EXCEPT !.net = "down"]
<1>1. conn[s].on /\ IsConn(conn[s]) /\ Becomes(s, d)
  BY OfSession DEF Fin
<1>2. IsConn(d) /\ Serves(conn[s], d) /\ d.net = "down"
  BY <1>1 DEF IsConn, NewConn, Serves
<1> QED
  BY <1>1, <1>2, ClosedKeeps

\* The server sends one reply: preliminary, or final of the transfer or of the next command.
LEMMA AnsweredKeeps ==
    ASSUME IInv, NEW s \in Sessions, Up(s), NEW d, Becomes(s, d), IsConn(d), Serves(conn[s], d), d.net = "up",
           NEW r, d.out = Append(conn[s].out, r),
           LET x == conn[s].xfer  y == d.xfer  I == conn[s].inq  J == d.inq IN
           \/ ~Final(r) /\ y = x /\ J = I
           \/ ~Final(r) /\ x # NoXfer /\ y # NoXfer /\ y.op = x.op /\ J = I
           \/ Final(r) /\ x # NoXfer /\ y = NoXfer /\ r.op = x.op /\ J = I
           \/ Final(r) /\ x = NoXfer /\ y = NoXfer /\ I # <<>> /\ J = Tail(I) /\ r.op = Head(I).op
    PROVE  IInv'
<1> DEFINE c == conn[s]
<1>1. c.on /\ c.net = "up" /\ IsConn(c)
  BY OfSession DEF Up
<1>2. ASSUME NEW e, Lined(e, c.sync_wait, c.xfer, c.inq, c.unsent, c.out, 0)
      PROVE  Lined(e, d.sync_wait, d.xfer, d.inq, d.unsent, d.out, 0)
  <2>1. IsQueue(c.inq) /\ IsQueue(c.unsent) /\ IsQueue(c.out) /\ IsQueue(d.inq)
    BY <1>1 DEF IsConn
  <2>2. d.sync_wait = c.sync_wait /\ d.unsent = c.unsent
    BY DEF Serves
  <2> DEFINE x == c.xfer  y == d.xfer  I == c.inq  J == d.inq  U == c.unsent  q == c.out  wait == c.sync_wait
  <2>3. \/ ~Final(r) /\ y = x /\ J = I
        \/ ~Final(r) /\ x # NoXfer /\ y # NoXfer /\ y.op = x.op /\ J = I
        \/ Final(r) /\ x # NoXfer /\ y = NoXfer /\ r.op = x.op /\ J = I
        \/ Final(r) /\ x = NoXfer /\ y = NoXfer /\ I # <<>> /\ J = Tail(I) /\ r.op = Head(I).op
    OBVIOUS
  <2>4. IsQueue(I) /\ IsQueue(U) /\ IsQueue(q) /\ IsQueue(J) /\ Lined(e, wait, x, I, U, q, 0)
    BY <1>2, <2>1
  <2> HIDE DEF x, y, I, J, U, q, wait
  <2>5. Lined(e, wait, y, J, U, Append(q, r), 0)
    BY <2>3, <2>4, LinedAnswered
  <2> QED
    BY <2>2, <2>5 DEF x, y, I, J, U, q, wait
<1> QED
  BY <1>1, <1>2, ServedKeeps

\* The answer to the next command, whatever else it changes
LEMMA AnswerTo ==
    ASSUME NEW c, IsConn(c), NEW a, SameQueues(c, a), a.quit = c.quit, NEW code, NEW op
    PROVE  LET d == Answer(a, code, op) IN
           /\ IsConn(d) /\ Serves(c, d) /\ d.net = c.net /\ d.inq = c.inq /\ d.xfer = c.xfer
           /\ d.out = Append(c.out, [code |-> code, op |-> op])
<1>1. IsConn(a)
  BY SameIsConn
<1> DEFINE d == Answer(a, code, op)
<1>2. /\ IsConn(d) /\ Serves(a, d) /\ d.net = a.net /\ d.inq = a.inq /\ d.xfer = a.xfer
      /\ d.out = Append(a.out, [code |-> code, op |-> op])
  BY <1>1, AnswerIs
<1> HIDE DEF d
<1>3. Serves(c, d)
  BY <1>2 DEF Serves, SameQueues
<1>4. /\ d.net = c.net /\ d.inq = c.inq /\ d.xfer = c.xfer
      /\ d.out = Append(c.out, [code |-> code, op |-> op])
  BY <1>2 DEF SameQueues
<1> QED
  BY <1>2, <1>3, <1>4 DEF d

Answered(c, d, op) ==
    /\ d.net = c.net /\ d.inq = c.inq /\ d.xfer = c.xfer
    /\ \E code : code # 1 /\ d.out = Append(c.out, [code |-> code, op |-> op])

\* A command that is no transfer is answered once, or the connection ends (QUIT).
LEMMA EffectIs ==
    ASSUME NEW c, IsConn(c), NEW cmd, NEW d, d = Effect(c, cmd)
    PROVE  /\ IsConn(d) /\ Serves(c, d)
           /\ d.net = "leaving" \/ Answered(c, d, cmd.op)
<1> DEFINE dir == IF cmd.op = "CWD" THEN cmd.path ELSE c.scwd \o cmd.path
           moved == [c EXCEPT !.scwd = dir]
           rest == [c EXCEPT !.srest = cmd.path[1]]
           pasv == [c EXCEPT !.lsn = TRUE, !.dsock = "none", !.rx = NoRx,
                             !.aborted = IF @ = "connecting" THEN "failed" ELSE @]
           left == Answer(c, 2, cmd.op)
<1>1. \/ \E a \in {c, moved, rest, pasv} : \E code \in {2, 3, 5} : d = Answer(a, code, cmd.op)
      \/ d = Ended(left, "leaving")
  <2>1. CASE cmd.op \in {"CWD", "CWD rel"}
    BY <2>1 DEF Effect
  <2>2. CASE cmd.op = "REST"
    BY <2>2 DEF Effect
  <2>3. CASE cmd.op = "PASV"
    BY <2>3 DEF Effect
  <2>4. CASE cmd.op = "QUIT"
    BY <2>4 DEF Effect
  <2>5. CASE cmd.op \notin {"CWD", "CWD rel", "REST", "PASV", "QUIT"}
    BY <2>5 DEF Effect
  <2> QED
    BY <2>1, <2>2, <2>3, <2>4, <2>5
<1> HIDE DEF dir
<1>2. \A a \in {c, moved, rest, pasv} : SameQueues(c, a) /\ a.quit = c.quit
  <2>1. DOMAIN c = DOMAIN NewConn
    BY DEF IsConn
  <2>2. SameQueues(c, c)
    BY DEF SameQueues
  <2>3. SameQueues(c, moved) /\ moved.quit = c.quit
    BY <2>1 DEF SameQueues, NewConn
  <2>4. SameQueues(c, rest) /\ rest.quit = c.quit
    BY <2>1 DEF SameQueues, NewConn
  <2>5. SameQueues(c, pasv) /\ pasv.quit = c.quit
    BY <2>1 DEF SameQueues, NewConn
  <2> HIDE DEF moved, rest, pasv
  <2> QED
    BY <2>2, <2>3, <2>4, <2>5
<1> HIDE DEF moved, rest, pasv
<1>3. ASSUME NEW a \in {c, moved, rest, pasv}, NEW code \in {2, 3, 5}, d = Answer(a, code, cmd.op)
      PROVE  IsConn(d) /\ Serves(c, d) /\ Answered(c, d, cmd.op)
  <2>1. /\ IsConn(d) /\ Serves(c, d) /\ d.net = c.net /\ d.inq = c.inq /\ d.xfer = c.xfer
        /\ d.out = Append(c.out, [code |-> code, op |-> cmd.op])
    BY <1>2, <1>3, AnswerTo
  <2>2. code # 1
    OBVIOUS
  <2> QED
    BY <2>1, <2>2, Zenon DEF Answered
<1>4. ASSUME d = Ended(left, "leaving")
      PROVE  IsConn(d) /\ Serves(c, d) /\ d.net = "leaving"
  <2>1. IsConn(left) /\ Serves(c, left)
    BY AnswerIs
  <2> HIDE DEF left
  <2>2. IsConn(d) /\ Serves(left, d) /\ d.net = "leaving"
    BY <1>4, <2>1, EndedIs
  <2> QED
    BY <2>1, <2>2 DEF Serves
<1> QED
  BY <1>1, <1>3, <1>4

\* The server takes the next command.
LEMMA TakenIs ==
    ASSUME IInv, NEW s \in Sessions, Ready(s)
    PROVE  LET c == conn[s]  t == Taken(s) IN
           /\ c.on /\ c.net = "up" /\ IsConn(c) /\ c.xfer = NoXfer /\ c.inq # <<>>
           /\ IsConn(t) /\ Serves(c, t) /\ t.net = "up" /\ t.inq = Tail(c.inq) /\ t.xfer = NoXfer /\ t.out = c.out
<1> DEFINE c == conn[s]  t == Taken(s)
<1>1. c.on /\ c.net = "up" /\ IsConn(c) /\ c.xfer = NoXfer /\ c.inq # <<>>
  BY OfSession DEF Ready, Up
<1>2. t = [c EXCEPT !.inq = Tail(@)]
  BY DEF Taken
<1> HIDE DEF c, t
<1>3. /\ Serves(c, t) /\ t.net = "up" /\ t.inq = Tail(c.inq) /\ t.xfer = NoXfer /\ t.out = c.out
  BY <1>1, <1>2 DEF IsConn, NewConn, Serves
<1>4. IsQueue(t.inq)
  BY <1>1, <1>3, TailIs DEF IsConn
<1>5. IsConn(t)
  BY <1>1, <1>3, <1>4 DEF IsConn, Serves
<1> QED
  BY <1>1, <1>3, <1>5 DEF c, t

\* What two steps leave alone, both together do.
LEMMA ServesOn == \A c, d, g : Serves(c, d) /\ Serves(d, g) => Serves(c, g)
  BY DEF Serves

\* The next command is taken and answered.
LEMMA NextAnswered ==
    ASSUME IInv, NEW s \in Sessions, Ready(s), NEW d, Becomes(s, d), IsConn(d), Serves(Taken(s), d),
           Answered(Taken(s), d, Head(conn[s].inq).op)
    PROVE  IInv'
<1> DEFINE c == conn[s]  t == Taken(s)  cmd == Head(c.inq)
<1>1. /\ c.on /\ c.net = "up" /\ IsConn(c) /\ c.xfer = NoXfer /\ c.inq # <<>>
      /\ IsConn(t) /\ Serves(c, t) /\ t.net = "up" /\ t.inq = Tail(c.inq) /\ t.xfer = NoXfer /\ t.out = c.out
  BY TakenIs
<1>2. Serves(t, d) /\ Answered(t, d, cmd.op)
  OBVIOUS
<1> HIDE DEF t
<1>3. PICK code : code # 1 /\ d.out = Append(t.out, [code |-> code, op |-> cmd.op])
  BY <1>2 DEF Answered
<1> DEFINE r == [code |-> code, op |-> cmd.op]
<1>4. Final(r) /\ r.op = cmd.op
  BY <1>3 DEF Final
<1>5. d.out = Append(c.out, r)
  BY <1>1, <1>3
<1> HIDE DEF r
<1>6. Up(s) /\ Serves(c, d)
  BY <1>1, <1>2, ServesOn DEF Up
<1>7. d.net = "up" /\ d.inq = Tail(c.inq) /\ d.xfer = NoXfer
  BY <1>1, <1>2 DEF Answered
<1> QED
  BY <1>1, <1>4, <1>5, <1>6, <1>7, AnsweredKeeps

\* The execution of a command keeps the invariant.
LEMMA ExecuteKeeps ==
    ASSUME IInv, NEW s \in Sessions, Execute(s)
    PROVE  IInv'
<1> DEFINE c == conn[s]  t == Taken(s)  cmd == Head(c.inq)  d == Effect(t, cmd)
<1>1. Ready(s) /\ Becomes(s, d)
  BY DEF Execute
<1>2. /\ c.on /\ c.net = "up" /\ IsConn(c) /\ c.xfer = NoXfer /\ c.inq # <<>>
      /\ IsConn(t) /\ Serves(c, t) /\ t.net = "up" /\ t.inq = Tail(c.inq) /\ t.xfer = NoXfer /\ t.out = c.out
  BY <1>1, TakenIs
<1>a. d = Effect(t, cmd)
  OBVIOUS
<1> HIDE DEF t, cmd, d
<1>3. /\ IsConn(d) /\ Serves(t, d)
      /\ d.net = "leaving" \/ Answered(t, d, cmd.op)
  BY <1>2, <1>a, EffectIs
<1>4. Serves(c, d) /\ Becomes(s, d) /\ cmd = Head(c.inq)
  BY <1>1, <1>2, <1>3, ServesOn DEF d, t, cmd
<1>5. CASE d.net = "leaving"
  BY <1>1, <1>2, <1>3, <1>4, <1>5, ClosedKeeps
<1>6. CASE d.net # "leaving"
  <2>1. Answered(t, d, cmd.op)
    BY <1>3, <1>6
  <2> QED
    BY <1>1, <1>3, <1>4, <2>1, NextAnswered DEF t
<1> QED
  BY <1>5, <1>6

\* The refusal of a command keeps the invariant.
LEMMA RefuseKeeps ==
    ASSUME IInv, NEW s \in Sessions, Refuse(s)
    PROVE  IInv'
<1> DEFINE op == Head(conn[s].inq).op
           rest == IF op \in Transfers THEN 0 ELSE conn[s].srest
           t == Taken(s)
           a == [t EXCEPT !.srest = rest]
<1>1. Ready(s) /\ \E code \in {4, 5} : Becomes(s, Answer(a, code, op))
  BY DEF Refuse
<1>2. PICK code \in {4, 5} : Becomes(s, Answer(a, code, op))
  BY <1>1
<1> DEFINE d == Answer(a, code, op)
<1>3. IsConn(t)
  BY <1>1, TakenIs
<1>4. SameQueues(t, a) /\ a.quit = t.quit
  <2> HIDE DEF t, rest
  <2> QED
    BY <1>3 DEF SameQueues, IsConn, NewConn
<1>5. Becomes(s, d) /\ code # 1
  BY <1>2
<1> HIDE DEF a
<1>6. /\ IsConn(d) /\ Serves(t, d) /\ d.net = t.net /\ d.inq = t.inq /\ d.xfer = t.xfer
      /\ d.out = Append(t.out, [code |-> code, op |-> op])
  BY <1>3, <1>4, AnswerTo
<1> HIDE DEF d, t
<1>7. Answered(t, d, op)
  BY <1>5, <1>6, Zenon DEF Answered
<1> QED
  BY <1>1, <1>5, <1>6, <1>7, NextAnswered DEF t

\* A transfer command is taken, and its reply is still to come.
LEMMA BeginKeeps ==
    ASSUME IInv, NEW s \in Sessions, Begin(s)
    PROVE  IInv'
<1> DEFINE c == conn[s]  t == Taken(s)  cmd == Head(c.inq)
           y == [NoXfer EXCEPT !.op = cmd.op, !.st = "wait", !.at = c.srest]
           d == [t EXCEPT !.srest = 0, !.xfer = y]
<1>1. Ready(s) /\ cmd.op \in Transfers /\ Becomes(s, d)
  BY DEF Begin
<1>2. /\ c.on /\ c.net = "up" /\ IsConn(c) /\ c.xfer = NoXfer /\ c.inq # <<>>
      /\ IsConn(t) /\ Serves(c, t) /\ t.net = "up" /\ t.inq = Tail(c.inq) /\ t.xfer = NoXfer /\ t.out = c.out
  BY <1>1, TakenIs
<1>3. DOMAIN y = DOMAIN NoXfer /\ y.op = cmd.op /\ y # NoXfer
  BY DEF NoXfer
<1> HIDE DEF t, y, cmd
<1>4. /\ Serves(t, d) /\ d.net = "up" /\ d.inq = t.inq /\ d.xfer = y /\ d.out = t.out
  BY <1>2 DEF IsConn, NewConn, Serves
<1> HIDE DEF d
<1>5. IsConn(d)
  BY <1>1, <1>2, <1>3, <1>4 DEF IsConn, Serves
<1>6. Serves(c, d)
  BY <1>2, <1>4, ServesOn
<1>7. ASSUME NEW e, Lined(e, c.sync_wait, c.xfer, c.inq, c.unsent, c.out, 0)
      PROVE  Lined(e, d.sync_wait, d.xfer, d.inq, d.unsent, d.out, 0)
  <2>1. IsQueue(c.inq) /\ IsQueue(c.unsent) /\ IsQueue(c.out)
    BY <1>2 DEF IsConn
  <2>2. d.sync_wait = c.sync_wait /\ d.unsent = c.unsent /\ d.inq = Tail(c.inq) /\ d.out = c.out
    BY <1>2, <1>4, <1>6 DEF Serves
  <2>3. y # NoXfer /\ y.op = Head(c.inq).op
    BY <1>3 DEF cmd
  <2> DEFINE x == c.xfer  I == c.inq  U == c.unsent  q == c.out  wait == c.sync_wait
  <2>4. /\ IsQueue(I) /\ IsQueue(U) /\ IsQueue(q) /\ Lined(e, wait, x, I, U, q, 0)
        /\ I # <<>> /\ x = NoXfer /\ y.op = Head(I).op
    BY <1>2, <1>7, <2>1, <2>3
  <2> HIDE DEF x, I, U, q, wait
  <2>5. Lined(e, wait, y, Tail(I), U, q, 0)
    BY <2>3, <2>4, LinedBegun
  <2> QED
    BY <1>4, <2>2, <2>5 DEF x, I, U, q, wait
<1> QED
  BY <1>1, <1>2, <1>4, <1>5, <1>6, <1>7, ServedKeeps DEF d, t, y, cmd

\* A transfer that goes on
LEMMA RunKeeps ==
    ASSUME IInv, NEW s \in Sessions, Run(s)
    PROVE  IInv'
<1> DEFINE c == conn[s]  x == c.xfer
           Started(n, rx) == [c EXCEPT !.xfer.st = "run", !.xfer.short = n < N, !.rx = rx]
<1>1. c.on /\ c.net = "up" /\ IsConn(c) /\ x.st = "wait"
  BY OfSession DEF Run, Waiting, Up
<1>2. PICK n, rx : Becomes(s, Answer(Started(n, rx), 1, x.op))
  <2> DEFINE file == [i \in 1..N |-> <<c.scwd, i - 1>>]
             Rx(n) == IF x.op = "RETR" /\ c.dsock = "data" THEN [buf |-> SubSeq(file, x.at + 1, n), fin |-> TRUE] ELSE c.rx
  <2>1. \E n : Becomes(s, Answer(Started(n, Rx(n)), 1, x.op))
    BY DEF Run
  <2> QED
    BY <2>1
<1> DEFINE b == n < N
           y == [x EXCEPT !.st = "run", !.short = b]
           a == [c EXCEPT !.xfer = y, !.rx = rx]
           d == Answer(a, 1, x.op)
<1>3. Becomes(s, d)
  BY <1>2
<1>4. x # NoXfer /\ DOMAIN x = DOMAIN NoXfer /\ x.op \in Transfers
  BY <1>1 DEF NoXfer, IsConn
<1> HIDE DEF b
<1>5. DOMAIN y = DOMAIN NoXfer /\ y.op = x.op /\ y # NoXfer
  BY <1>4 DEF NoXfer
<1> HIDE DEF y
<1>6. /\ Serves(c, a) /\ a.net = "up" /\ a.inq = c.inq /\ a.xfer = y /\ a.out = c.out
  BY <1>1 DEF IsConn, NewConn, Serves
<1> HIDE DEF a
<1>7. IsConn(a)
  BY <1>1, <1>4, <1>5, <1>6 DEF IsConn, Serves
<1> DEFINE r == [code |-> 1, op |-> x.op]
<1>8. /\ IsConn(d) /\ Serves(a, d) /\ d.net = "up" /\ d.inq = c.inq /\ d.xfer = y /\ d.out = Append(c.out, r)
  BY <1>6, <1>7, AnswerIs
<1>9. ~Final(r)
  BY DEF Final
<1> HIDE DEF d, r
<1>10. Serves(c, d) /\ Up(s)
  BY <1>1, <1>6, <1>8, ServesOn DEF Up
<1> QED
  BY <1>3, <1>4, <1>5, <1>8, <1>9, <1>10, AnsweredKeeps

\* The final reply to a transfer
Freed(c, a) == a = [c EXCEPT !.xfer = NoXfer] \/ a = [c EXCEPT !.xfer = NoXfer, !.dsock = "none"]

\* The final reply to a transfer is sent, and the transfer is over.
LEMMA OverIs ==
    ASSUME NEW c, IsConn(c), NEW a, NEW code, NEW d, d = Answer(a, code, c.xfer.op), Freed(c, a)
    PROVE  /\ IsConn(d) /\ Serves(c, d) /\ d.net = c.net /\ d.inq = c.inq /\ d.xfer = NoXfer
           /\ d.out = Append(c.out, [code |-> code, op |-> c.xfer.op])
<1>1. /\ Serves(c, a) /\ a.net = c.net /\ a.inq = c.inq /\ a.xfer = NoXfer /\ a.out = c.out
  <2>1. DOMAIN c = DOMAIN NewConn
    BY DEF IsConn
  <2>2. CASE a = [c EXCEPT !.xfer = NoXfer]
    BY <2>1, <2>2 DEF NewConn, Serves
  <2>3. CASE a = [c EXCEPT !.xfer = NoXfer, !.dsock = "none"]
    BY <2>1, <2>3 DEF NewConn, Serves
  <2> QED
    BY <2>2, <2>3 DEF Freed
<1>2. IsConn(a)
  BY <1>1 DEF IsConn, Serves
<1>3. /\ IsConn(d) /\ Serves(a, d) /\ d.net = a.net /\ d.inq = a.inq /\ d.xfer = a.xfer
      /\ d.out = Append(a.out, [code |-> code, op |-> c.xfer.op])
  BY <1>2, AnswerIs
<1> QED
  BY <1>1, <1>3, ServesOn

\* The transfer of s is over, and g is what else changes.
LEMMA OverKeeps ==
    ASSUME IInv, NEW s \in Sessions, Up(s), conn[s].xfer # NoXfer, NEW d, IsConn(d), Serves(conn[s], d),
           d.net = conn[s].net, d.inq = conn[s].inq, d.xfer = NoXfer, NEW code, code # 1,
           d.out = Append(conn[s].out, [code |-> code, op |-> conn[s].xfer.op]),
           NEW g, Becomes(s, g), SameQueues(d, g), g.quit = d.quit
    PROVE  IInv'
<1> DEFINE c == conn[s]  r == [code |-> code, op |-> c.xfer.op]
<1>1. Final(r) /\ r.op = c.xfer.op /\ d.out = Append(c.out, r)
  BY DEF Final
<1> HIDE DEF r
<1>2. /\ IsConn(g) /\ Serves(c, g) /\ g.net = "up" /\ g.inq = c.inq /\ g.xfer = NoXfer
      /\ g.out = Append(c.out, r)
  BY <1>1, SameIsConn DEF SameQueues, Serves, Up
<1> QED
  BY <1>1, <1>2, AnsweredKeeps

\* 425 keeps the invariant.
LEMMA NoDataKeeps ==
    ASSUME IInv, NEW s \in Sessions, NoData(s)
    PROVE  IInv'
<1> DEFINE c == conn[s]  a == [c EXCEPT !.xfer = NoXfer]  d == Answer(a, 4, c.xfer.op)
<1>1. Up(s) /\ c.xfer.st = "wait" /\ Becomes(s, d)
  BY DEF NoData, Waiting
<1>2. IsConn(c) /\ c.xfer # NoXfer
  BY <1>1, OfSession DEF Up, NoXfer
<1>3. /\ IsConn(d) /\ Serves(c, d) /\ d.net = c.net /\ d.inq = c.inq /\ d.xfer = NoXfer
      /\ d.out = Append(c.out, [code |-> 4, op |-> c.xfer.op])
  <2>1. Freed(c, a) /\ d = Answer(a, 4, c.xfer.op)
    BY DEF Freed
  <2> HIDE DEF d, a, c
  <2> QED
    BY <1>2, <2>1, OverIs
<1> HIDE DEF d
<1>4. SameQueues(d, d) /\ 4 # 1
  BY DEF SameQueues
<1> QED
  BY <1>1, <1>2, <1>3, <1>4, OverKeeps

\* The final reply to the transfer of s, in any way it ends.
LEMMA OverOf ==
    ASSUME IInv, NEW s \in Sessions, conn[s].on, NEW code
    PROVE  LET c == conn[s]  d == Over(s, code) IN
           /\ IsConn(d) /\ Serves(c, d) /\ d.net = c.net /\ d.inq = c.inq /\ d.xfer = NoXfer
           /\ d.out = Append(c.out, [code |-> code, op |-> c.xfer.op])
<1> DEFINE c == conn[s]  d == Over(s, code)  a == [c EXCEPT !.xfer = NoXfer, !.dsock = "none"]
<1>1. d = Answer(a, code, c.xfer.op) /\ Freed(c, a)
  BY DEF Over, Freed
<1>2. IsConn(c)
  BY OfSession
<1> HIDE DEF a, d, c
<1>3. /\ IsConn(d) /\ Serves(c, d) /\ d.net = c.net /\ d.inq = c.inq /\ d.xfer = NoXfer
      /\ d.out = Append(c.out, [code |-> code, op |-> c.xfer.op])
  BY <1>1, <1>2, OverIs
<1> QED
  BY <1>3 DEF d, c

\* The end of a transfer keeps the invariant.
LEMMA CompleteKeeps ==
    ASSUME IInv, NEW s \in Sessions, Complete(s)
    PROVE  IInv'
<1> DEFINE c == conn[s]
<1>1. Up(s) /\ c.on /\ c.xfer # NoXfer
  BY DEF Complete, Up, NoXfer
<1>2. \E code \in {2, 426} : \E g \in {Over(s, code), [Over(s, code) EXCEPT !.iob.err = @ \/ c.iob.dir = "PUT"]} : Becomes(s, g)
  BY DEF Complete
<1>3. PICK code \in {2, 426} : \E g \in {Over(s, code), [Over(s, code) EXCEPT !.iob.err = @ \/ c.iob.dir = "PUT"]} : Becomes(s, g)
  BY <1>2
<1>4. PICK g : Becomes(s, g) /\ (g = Over(s, code) \/ g = [Over(s, code) EXCEPT !.iob.err = @ \/ c.iob.dir = "PUT"])
  BY <1>3
<1> DEFINE d == Over(s, code)
<1>5. /\ IsConn(d) /\ Serves(c, d) /\ d.net = c.net /\ d.inq = c.inq /\ d.xfer = NoXfer
      /\ d.out = Append(c.out, [code |-> code, op |-> c.xfer.op])
  BY <1>1, OverOf
<1>6. g = d \/ g = [d EXCEPT !.iob.err = @ \/ c.iob.dir = "PUT"]
  BY <1>4
<1> HIDE DEF d
<1>7. SameQueues(d, g) /\ g.quit = d.quit
  <2>1. CASE g = d
    BY <2>1 DEF SameQueues
  <2>2. CASE g = [d EXCEPT !.iob.err = @ \/ c.iob.dir = "PUT"]
    <3> DEFINE x == [d.iob EXCEPT !.err = @ \/ c.iob.dir = "PUT"]
    <3>1. g = [d EXCEPT !.iob = x]
      BY <2>2
    <3> HIDE DEF x
    <3> QED
      BY <1>5, <3>1, DetailSame DEF IsConn, NewConn
  <2> QED
    BY <1>6, <2>1, <2>2
<1>8. code # 1
  OBVIOUS
<1> QED
  BY <1>1, <1>4, <1>5, <1>7, <1>8, OverKeeps

\* The server answers the aborted transfer and then ABOR, in this order.
LEMMA AbortKeeps ==
    ASSUME IInv, NEW s \in Sessions, Abort(s)
    PROVE  IInv'
<1> DEFINE c == conn[s]  d == Over(s, 426)  a == [d EXCEPT !.inq = Tail(@), !.rx = NoRx]  g == Answer(a, 2, "ABOR")
<1>1. /\ Up(s) /\ c.on /\ c.net = "up" /\ c.xfer # NoXfer /\ c.inq # <<>> /\ Head(c.inq).op = "ABOR"
      /\ Becomes(s, g) /\ IsConn(c)
  BY OfSession DEF Abort, Up, NoXfer
<1> DEFINE r == [code |-> 426, op |-> c.xfer.op]  t == [code |-> 2, op |-> "ABOR"]
<1>2. /\ IsConn(d) /\ Serves(c, d) /\ d.net = c.net /\ d.inq = c.inq /\ d.xfer = NoXfer
      /\ d.out = Append(c.out, r)
  BY <1>1, OverOf
<1> HIDE DEF d
<1>3. /\ Serves(d, a) /\ a.net = d.net /\ a.inq = Tail(d.inq) /\ a.xfer = NoXfer /\ a.out = d.out
  BY <1>2 DEF IsConn, NewConn, Serves
<1> HIDE DEF a
<1>4. IsConn(a)
  <2>1. IsQueue(a.inq)
    BY <1>1, <1>2, <1>3, TailIs DEF IsConn
  <2> QED
    BY <1>2, <1>3, <2>1 DEF IsConn, Serves
<1>5. /\ IsConn(g) /\ Serves(a, g) /\ g.net = a.net /\ g.inq = a.inq /\ g.xfer = a.xfer
      /\ g.out = Append(a.out, t)
  BY <1>4, AnswerIs
<1> HIDE DEF g
<1>6. Serves(c, g)
  BY <1>2, <1>3, <1>5, ServesOn
<1>7. Final(r) /\ r.op = c.xfer.op /\ Final(t) /\ t.op = "ABOR"
  BY DEF Final
<1> HIDE DEF r, t
<1>8. ASSUME NEW e, Lined(e, c.sync_wait, c.xfer, c.inq, c.unsent, c.out, 0)
      PROVE  Lined(e, g.sync_wait, g.xfer, g.inq, g.unsent, g.out, 0)
  <2> DEFINE x == c.xfer  I == c.inq  U == c.unsent  q == c.out  wait == c.sync_wait  p == Append(q, r)
  <2>1. IsQueue(I) /\ IsQueue(U) /\ IsQueue(q) /\ IsQueue(Tail(I)) /\ IsQueue(p)
    BY <1>1, TailIs, AppendIs DEF IsConn
  <2>2. /\ Lined(e, wait, x, I, U, q, 0) /\ x # NoXfer /\ r.op = x.op /\ I # <<>> /\ Head(I).op = "ABOR"
    BY <1>1, <1>7, <1>8
  <2>3. /\ g.sync_wait = wait /\ g.xfer = NoXfer /\ g.inq = Tail(I) /\ g.unsent = U /\ g.out = Append(p, t)
    BY <1>2, <1>3, <1>5, <1>6 DEF Serves
  <2>4. p = Append(q, r)
    OBVIOUS
  <2> HIDE DEF x, I, U, q, wait, p
  <2>5. Lined(e, wait, NoXfer, I, U, Append(q, r), 0)
    BY <1>7, <2>1, <2>2, LinedAnswered
  <2>6. Lined(e, wait, NoXfer, I, U, p, 0)
    BY <2>4, <2>5
  <2>7. Lined(e, wait, NoXfer, Tail(I), U, Append(p, t), 0)
    BY <1>7, <2>1, <2>2, <2>6, LinedAnswered
  <2> QED
    BY <2>3, <2>7
<1> QED
  BY <1>1, <1>2, <1>3, <1>5, <1>6, <1>8, ServedKeeps DEF g, a, d

\* A step of the network without commands or replies keeps the invariant.
LEMMA SilentKeeps ==
    ASSUME IInv, NEW s \in Sessions, conn[s].on, NEW d, Becomes(s, d), SameQueues(conn[s], d), d.quit = conn[s].quit
    PROVE  IInv'
<1>1. /\ ses'[s] = ses[s] /\ conn'[s] = d /\ DOMAIN ses' = DOMAIN ses /\ DOMAIN conn' = DOMAIN conn
      /\ \A t \in Sessions \ {s} : ses'[t] = ses[t] /\ conn'[t] = conn[t]
  BY OfSession DEF Becomes, IInv
<1>2. IsSession(ses[s])
  BY OfSession
<1> QED
  BY <1>1, <1>2, TweakKeeps

\* A data connection keeps the invariant.
LEMMA DataConnectKeeps ==
    ASSUME IInv, NEW s \in Sessions, DataConnect(s)
    PROVE  IInv'
<1> DEFINE c == conn[s]
           d == [c EXCEPT !.data = "open", !.dsock = "data", !.lsn = FALSE]
           g == [c EXCEPT !.aborted = "open", !.dsock = "aborted", !.lsn = FALSE]
<1>1. c.on /\ (Becomes(s, d) \/ Becomes(s, g))
  BY DEF DataConnect
<1>2. DOMAIN c = DOMAIN NewConn
  BY <1>1, OfSession DEF IsConn
<1>3. SameQueues(c, d) /\ d.quit = c.quit
  BY <1>2 DEF SameQueues, NewConn
<1>4. SameQueues(c, g) /\ g.quit = c.quit
  BY <1>2 DEF SameQueues, NewConn
<1> HIDE DEF d, g
<1> QED
  BY <1>1, <1>3, <1>4, SilentKeeps

\* A refused data connection keeps the invariant.
LEMMA RefusedKeeps ==
    ASSUME IInv, NEW s \in Sessions, Refused(s)
    PROVE  IInv'
<1> DEFINE c == conn[s]  d == [c EXCEPT !.data = "failed"]
<1>1. c.on /\ Becomes(s, d)
  BY DEF Refused
<1>2. SameQueues(c, d) /\ d.quit = c.quit
  BY <1>1, OfSession DEF SameQueues, IsConn, NewConn
<1> HIDE DEF d
<1> QED
  BY <1>1, <1>2, SilentKeeps

\* Data received, or lost, keep the invariant.
LEMMA ReceiveKeeps ==
    ASSUME IInv, NEW s \in Sessions, Receive(s)
    PROVE  IInv'
<1> DEFINE c == conn[s]
           Got(n) == [c EXCEPT !.iob.buf = @ \o SubSeq(c.rx.buf, 1, n), !.rx.buf = SubSeq(@, n + 1, Len(@))]
           ended == [c EXCEPT !.iob.eof = TRUE]
           broken == [c EXCEPT !.iob.err = TRUE, !.dsock = "broken", !.rx = NoRx]
<1>1. c.on /\ ((\E n : Becomes(s, Got(n))) \/ Becomes(s, ended) \/ Becomes(s, broken))
  BY DEF Receive, Online
<1>2. DOMAIN c = DOMAIN NewConn
  BY <1>1, OfSession DEF IsConn
<1>3. ASSUME NEW n PROVE SameQueues(c, Got(n)) /\ Got(n).quit = c.quit
  <2> DEFINE x == [c.iob EXCEPT !.buf = @ \o SubSeq(c.rx.buf, 1, n)]
             y == [c.rx EXCEPT !.buf = SubSeq(@, n + 1, Len(@))]
  <2>1. Got(n) = [c EXCEPT !.iob = x, !.rx = y]
    OBVIOUS
  <2> HIDE DEF x, y, Got
  <2> QED
    BY <1>2, <2>1 DEF SameQueues, NewConn
<1>4. SameQueues(c, ended) /\ ended.quit = c.quit
  <2> DEFINE x == [c.iob EXCEPT !.eof = TRUE]
  <2>1. ended = [c EXCEPT !.iob = x]
    OBVIOUS
  <2> HIDE DEF x, ended
  <2> QED
    BY <1>2, <2>1 DEF SameQueues, NewConn
<1>5. SameQueues(c, broken) /\ broken.quit = c.quit
  <2> DEFINE x == [c.iob EXCEPT !.err = TRUE]
  <2>1. broken = [c EXCEPT !.iob = x, !.dsock = "broken", !.rx = NoRx]
    OBVIOUS
  <2> HIDE DEF x, broken
  <2> QED
    BY <1>2, <2>1 DEF SameQueues, NewConn
<1> HIDE DEF Got, ended, broken
<1> QED
  BY <1>1, <1>3, <1>4, <1>5, SilentKeeps

\* Data stored keep the invariant: the transfer goes on.
LEMMA StoreKeeps ==
    ASSUME IInv, NEW s \in Sessions, Store(s)
    PROVE  IInv'
<1> DEFINE c == conn[s]
           b == [c.iob EXCEPT !.buf = Tail(@)]
           y == [c.xfer EXCEPT !.at = @ + 1]
           d == [c EXCEPT !.iob.buf = Tail(@), !.xfer.at = @ + 1]
<1>1. c.on /\ c.net = "up" /\ c.xfer.op = "STOR" /\ Becomes(s, d)
  BY DEF Store, Up
<1>2. d = [c EXCEPT !.iob = b, !.xfer = y]
  OBVIOUS
<1>3. IsConn(c)
  BY <1>1, OfSession
<1>4. DOMAIN y = DOMAIN NoXfer /\ y.op = "STOR" /\ y # NoXfer /\ c.xfer # NoXfer
  BY <1>1, <1>3 DEF IsConn, NoXfer
<1> HIDE DEF b, y, d
<1>5. /\ Serves(c, d) /\ d.net = c.net /\ d.inq = c.inq /\ d.out = c.out /\ d.xfer = y
  BY <1>2, <1>3 DEF IsConn, NewConn, Serves
<1>6. IsConn(d)
  BY <1>3, <1>4, <1>5 DEF IsConn, Serves, Transfers
<1>7. \A e : Lined(e, c.sync_wait, c.xfer, c.inq, c.unsent, c.out, 0)
                => Lined(e, d.sync_wait, d.xfer, d.inq, d.unsent, d.out, 0)
  <2>1. d.sync_wait = c.sync_wait /\ d.unsent = c.unsent
    BY <1>5 DEF Serves
  <2>2. \A e, wait, x, I, U, q : Lined(e, wait, x, I, U, q, 0) /\ x # NoXfer /\ x.op = y.op => Lined(e, wait, y, I, U, q, 0)
    BY <1>4 DEF Lined, Busy
  <2> QED
    BY <1>1, <1>4, <1>5, <2>1, <2>2
<1> QED
  BY <1>1, <1>5, <1>6, <1>7, ServedKeeps

-----------------------------------------------------------------------------
\* At the start no session has a connection.
LEMMA InitHolds == Init => IInv
<1> SUFFICES ASSUME Init PROVE IInv
  OBVIOUS
<1>1. PICK sync \in SyncModes : ses = [s \in Sessions |-> IdleSession(sync)]
  BY DEF Init
<1>2. conn = [s \in Sessions |-> NoConn]
  BY DEF Init
<1>3. IsSession(IdleSession(sync))
  <2> DEFINE f == IdleSession(sync)
  <2>1. /\ DOMAIN f = DOMAIN IdleSession(TRUE) /\ f.state = "INITIAL" /\ f.pasv = "none"
        /\ f.cwd = <<>> /\ f.file = <<>> /\ f.rcwd = <<"?">>
    BY DEF IdleSession, Unknown
  <2> HIDE DEF f
  <2>2. IsQueue(f.cwd) /\ IsQueue(f.file) /\ IsQueue(f.rcwd)
    BY <2>1, NoneIs, OneIs
  <2>3. f.state \in States /\ f.pasv \in {"none", "have", "connecting"}
    BY <2>1 DEF States
  <2> QED
    BY <2>1, <2>2, <2>3, Zenon DEF IsSession, f
<1>4. ASSUME NEW s \in Sessions PROVE Good(W(s))
  <2> DEFINE w == W(s)
  <2>1. DOMAIN w = {"f", "c"} /\ w.f = IdleSession(sync) /\ w.c = NoConn
    BY <1>1, <1>2 DEF W
  <2> HIDE DEF w
  <2>2. Good(w)
    BY <1>3, <2>1, NoConnIs DEF Good, World
  <2> QED
    BY <2>2 DEF w
<1> QED
  BY <1>1, <1>2, <1>4 DEF IInv

\* Every action keeps the invariant.
LEMMA NextKeeps == IInv /\ [Next]_vars => IInv'
<1> SUFFICES ASSUME IInv, [Next]_vars PROVE IInv'
  OBVIOUS
<1>1. ASSUME NEW s \in Sessions, Client(s) PROVE IInv'
  BY <1>1, DoKeeps, ConnectKeeps, TakeConnectionKeeps, AbortedDoneKeeps DEF Client
<1>2. ASSUME NEW s \in Sessions, Server(s) PROVE IInv'
  BY <1>2, EstablishedKeeps, FinKeeps, ExecuteKeeps, BeginKeeps, RunKeeps, NoDataKeeps, CompleteKeeps, AbortKeeps DEF Server
<1>3. ASSUME NEW s \in Sessions, Network(s) PROVE IInv'
  BY <1>3, DataConnectKeeps, ReceiveKeeps, StoreKeeps DEF Network
<1>4. ASSUME NEW s \in Sessions, User(s) PROVE IInv'
  BY <1>4, OpenKeeps, CloseKeeps, ReadKeeps, WriteKeeps, StoreStatusKeeps DEF User
<1>5. ASSUME NEW s \in Sessions, Failure(s) PROVE IInv'
  BY <1>5, LostKeeps, ServerLeavesKeeps, RefuseKeeps, RefusedKeeps, IdleTimeoutKeeps, NetTimeoutKeeps DEF Failure
<1>6. CASE UNCHANGED vars
  BY <1>6 DEF IInv, W, vars
<1> QED
  BY <1>1, <1>2, <1>3, <1>4, <1>5, <1>6 DEF Next

\* On every connection that is established the replies on their way, the
\* transfer in execution and the commands sent and to be sent are those that
\* are expected, in this order: for any number of sessions, any connection
\* limit, any operations and any failures (ExpectQueue, ReceiveResp, Close,
\* DataAbort, MoveConnectionHere).
THEOREM Invariant == Spec => []IInv
  BY InitHolds, NextKeeps, PTL DEF Spec

\* The invariant implies that replies are matched.
LEMMA GoodIsMatched == IInv => RepliesMatched
<1> SUFFICES ASSUME IInv, NEW s \in Sessions, Up(s), ses[s].state # "CONNECTING"
             PROVE  LET c == conn[s] IN Lined(c.expect, c.sync_wait, c.xfer, c.inq, c.unsent, c.out, 0)
  BY DEF RepliesMatched
<1>1. conn[s].on /\ conn[s].net = "up"
  BY DEF Up
<1>2. Matched(conn[s].expect, conn[s], conn[s].out, 0)
  BY <1>1, OfSession DEF Good
<1> QED
  BY <1>1, <1>2 DEF Matched

\* Every reply is taken for the reply to the command it answers, whatever has
\* been pipelined, abandoned, aborted or taken over (RepliesMatched).
THEOREM RepliesAlwaysMatched == Spec => []RepliesMatched
  BY Invariant, GoodIsMatched, PTL
=============================================================================
