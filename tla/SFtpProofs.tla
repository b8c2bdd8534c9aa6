----------------------------- MODULE SFtpProofs -----------------------------
(***************************************************************************)
(* For any number of sessions that share connections, files of every size  *)
(* and all limits: no handle of the server is forgotten, GetInfoArray ends *)
(* with what it was asked for, and what is read are the bytes of the file, *)
(* whatever order answers come in and however often a connection is lost.  *)
(*                                                                         *)
(* IInv is inductive.  It speaks of one session f and its connection c at  *)
(* a time, as Do does:                                                     *)
(*   Phase, Holds, Known  where the session is, which bytes it holds and   *)
(*                        which files it knows about;                      *)
(*   OnItsWay             each request and answer that is on its way is    *)
(*                        expected, answers are right, and both directions *)
(*                        keep the order of the numbers;                   *)
(*   Expects              no expectation is for an operation that has been *)
(*                        closed, but IGNORE and STALE (CloseExpectQueue); *)
(*   Kept, Informed       where each handle, and each file that has been   *)
(*                        asked about, is accounted for.                   *)
(* Within HandleReplies an answer has been taken and is not yet handled:   *)
(* Whole(w, H, X) is the invariant but for the handles H and the files X   *)
(* that this answer is about.                                              *)
(***************************************************************************)
EXTENDS SFtp, SequenceTheorems, NaturalsInduction, FiniteSetTheorems, TLAPS

-----------------------------------------------------------------------------
(* Types.                                                                  *)

File == {NoFile} \cup (Sessions \X Nat)
Req == [k : {"OPEN", "CREATE", "REMOVE", "STAT", "FSTAT", "READ", "WRITE", "CLOSE"},
        for : File, pos : Nat, n : Nat, h : Nat]
Tag == {"HANDLE", "STALE", "DATA", "INFO", "WRITE_STATUS", "DEFAULT", "IGNORE"}
Sent == [id : Nat, req : Req]
Answer == [id : Nat, req : Req, t : {"status", "handle", "attrs", "data"}, code : {"ok", "eof", "fail"},
           h : Nat, data : Seq(File \X Nat), of : Nat]
Expected == [req : Req, tag : Tag]
Queue == UNION {[D -> Expected] : D \in SUBSET Nat}
Conn == [on : {TRUE}, net : {"syn", "up", "lost"}, id : Nat, out : Seq(Sent), wire : Seq(Answer),
         expect : Queue, handles : SUBSET Nat, refused : SUBSET (File \X Nat)]
Buf == [on : BOOLEAN, data : Seq(File \X Nat), eof : BOOLEAN]
Ses == [mode : {"CLOSED", "RETRIEVE", "STORE", "REMOVE", "ARRAY_INFO"},
        state : {"DISCONNECTED", "CONNECTING", "CONNECTED", "FILE_RECV", "FILE_SEND", "WAITING", "DONE"},
        error : {"OK", "NO_FILE", "STORE_FAILED"}, file : File, pos : Nat, req_pos : Nat, handle : Nat,
        eof : BOOLEAN, buf : Buf, size : Int, slow : Nat, ooo : Seq(Answer), susp : BOOLEAN,
        next : 1..(K + 1), info : SUBSET (Nat \X Nat)]
World == [f : Ses, c : {NoConn} \cup Conn]
User == [open : [file : File, from : Nat], got : Seq(File \X Nat), eof : BOOLEAN]

-----------------------------------------------------------------------------
(* The inductive invariant, of a session f and its connection c.           *)

\* An answer is one to its request.
Right(a) ==
    /\ a.t = "data" => /\ a.req.k = "READ" /\ a.req.pos + Len(a.data) <= N /\ a.req.pos < N
                       /\ a.data = Bytes(a.req.for, a.req.pos, Len(a.data))
                       /\ Len(a.data) <= a.req.n
                       /\ ShortReads \/ Len(a.data) = a.req.n \/ a.req.pos + Len(a.data) = N
    /\ a.t = "status" /\ a.code = "eof" => a.req.k = "READ" /\ a.req.pos >= N
    /\ IF a.t = "handle" THEN a.req.k \in {"OPEN", "CREATE"} /\ a.h > 0 ELSE a.h = NoHandle
    /\ a.t = "attrs" => a.req.k \in {"STAT", "FSTAT"} /\ a.of = a.req.pos

\* What is on its way in either direction is expected, and in the order of the requests.
Numbered(c) == 0 < c.id /\ \A i \in DOMAIN c.expect : 0 < i /\ i < c.id
Awaited(c) ==
    /\ \A i \in 1..Len(c.out) : c.out[i].id \in DOMAIN c.expect /\ c.expect[c.out[i].id].req = c.out[i].req
    /\ \A i \in 1..Len(c.wire) : c.wire[i].id \in DOMAIN c.expect /\ c.expect[c.wire[i].id].req = c.wire[i].req
Answers(c) ==
    \A i \in 1..Len(c.wire) :
      /\ Right(c.wire[i])
      /\ c.wire[i].req.k = "STAT" /\ c.wire[i].t # "attrs" => <<c.wire[i].req.for, c.wire[i].req.pos>> \in c.refused
InOrder(c) ==
    /\ \A i, j \in 1..Len(c.out) : i < j => c.out[i].id < c.out[j].id
    /\ \A i, j \in 1..Len(c.wire) : i < j => c.wire[i].id < c.wire[j].id
    /\ \A i \in 1..Len(c.wire), j \in 1..Len(c.out) : c.wire[i].id < c.out[j].id
OnItsWay(c) == Numbered(c) /\ Awaited(c) /\ Answers(c) /\ InOrder(c) /\ 0 \notin c.handles

\* What is expected fits what the session does.
Fits(f, e) ==
    /\ e.req.k \in {"OPEN", "CREATE"} <=> e.tag \in {"HANDLE", "STALE"}
    /\ e.tag = "HANDLE" => f.mode \in {"RETRIEVE", "STORE"} /\ f.state = "WAITING" /\ ~f.buf.on /\ f.handle = NoHandle
    /\ e.tag = "DATA" => f.mode = "RETRIEVE" /\ f.buf.on /\ e.req.k = "READ" /\ e.req.for = f.file
    /\ e.tag = "INFO" => \/ f.mode = "RETRIEVE"
                         \/ f.mode = "ARRAY_INFO" /\ f.state = "WAITING" /\ e.req.k = "STAT" /\ e.req.for = f.file
    /\ e.tag = "WRITE_STATUS" => f.mode = "STORE" /\ f.buf.on
    /\ e.tag = "DEFAULT" => f.mode = "REMOVE" \/ (f.mode = "STORE" /\ f.buf.on /\ e.req.k = "CLOSE")

Expects(f, c) ==
    /\ \A i \in DOMAIN c.expect : Fits(f, c.expect[i])
    /\ \A i, j \in DOMAIN c.expect : c.expect[i].tag = "HANDLE" /\ c.expect[j].tag = "HANDLE" => i = j

\* Where the session is
AtRest(f) == f.mode = "CLOSED" \/ f.state \in {"DISCONNECTED", "CONNECTING", "CONNECTED"}
Phase(f) ==
    /\ AtRest(f) => f.handle = NoHandle /\ ~f.buf.on
    /\ f.mode = "CLOSED" => f.state \in {"CONNECTED", "DISCONNECTED"}
    /\ f.state = "FILE_RECV" => f.mode = "RETRIEVE" /\ f.buf.on
    /\ f.state = "FILE_SEND" => f.mode = "STORE" /\ f.buf.on
    /\ f.mode = "RETRIEVE" /\ f.state = "DONE" => f.buf.on
    /\ f.buf.on => f.mode \in {"RETRIEVE", "STORE"}
    /\ ~f.buf.on => f.buf = NoBuf /\ f.ooo = <<>>
\* What it has read
Holds(f) ==
    /\ f.mode = "RETRIEVE" => f.pos + Len(f.buf.data) <= N /\ f.buf.data = Bytes(f.file, f.pos, Len(f.buf.data))
    /\ f.pos <= N
    /\ Len(f.ooo) <= MaxOutOfOrder
    /\ \A i \in 1..Len(f.ooo) : f.mode = "RETRIEVE" /\ f.ooo[i].t = "data" /\ Right(f.ooo[i]) /\ f.ooo[i].req.for = f.file

\* The handles in the server are known, but those of H.
Kept(f, c, H) ==
    c.net # "lost" =>
      \A h \in c.handles :
        \/ f.handle = h \/ h \in H
        \/ \E i \in 1..Len(c.out) : c.out[i].req.k = "CLOSE" /\ c.out[i].req.h = h
        \/ \E i \in 1..Len(c.wire) : c.wire[i].h = h /\ c.expect[c.wire[i].id].tag \in {"HANDLE", "STALE"}

\* What has been asked about is known, refused or expected, but for the files of X.
Informed(f, c, X) ==
    f.mode = "ARRAY_INFO" =>
      \A i \in 1..(f.next - 1) :
        \/ <<i, i>> \in f.info \/ i \in X
        \/ <<f.file, i>> \in c.refused
        \/ \E j \in DOMAIN c.expect : c.expect[j].tag = "INFO" /\ c.expect[j].req.pos = i

Known(f) ==
    /\ \A i \in f.info : i[1] = i[2]
    /\ f.mode = "CLOSED" \/ f.state = "DISCONNECTED" => f.next = 1
    /\ f.mode = "ARRAY_INFO" /\ f.state = "DONE" => f.next = K + 1

Session(w) == Phase(w.f) /\ Holds(w.f) /\ Known(w.f) /\ (w.f.state = "DISCONNECTED" <=> ~w.c.on)
Joint(w, H, X) == w.c.on => /\ OnItsWay(w.c) /\ Expects(w.f, w.c) /\ Kept(w.f, w.c, H) /\ Informed(w.f, w.c, X)
                            /\ (AtRest(w.f) => \A i \in DOMAIN w.c.expect : w.c.expect[i].tag \in {"IGNORE", "STALE"})
Whole(w, H, X) == w \in World /\ Session(w) /\ Joint(w, H, X)
Good(w) == Whole(w, {}, {})
\* and what a call leaves, for the same operation and the same reader.
Leads(w, v, H, X) == Whole(v, H, X) /\ v.f.mode = w.f.mode /\ v.f.file = w.f.file /\ v.f.pos = w.f.pos

\* What the user has read
Reads(f, u) ==
    /\ u.open.from + Len(u.got) <= N /\ u.got = Bytes(u.open.file, u.open.from, Len(u.got))
    /\ f.mode # "CLOSED" => u.open.file = f.file
    /\ f.mode = "RETRIEVE" => u.open.from + Len(u.got) = f.pos

IInv ==
    /\ ses \in [Sessions -> Ses] /\ conn \in [Sessions -> {NoConn} \cup Conn] /\ user \in [Sessions -> User]
    /\ opens \in Nat /\ faults \in Nat
    /\ \A s \in Sessions : Good(W(s)) /\ Reads(ses[s], user[s])

-----------------------------------------------------------------------------
(* Sequences, bytes and queues.                                            *)

\* The numbers among the parameters.
LEMMA Numbers ==
    /\ N \in Nat /\ K \in Nat /\ SizeRead \in Nat /\ MaxFlight \in Nat /\ MaxOutOfOrder \in Nat
    /\ MaxFlight > 0 /\ MaxOpens \in Nat
    /\ GetFrom \subseteq 0..N /\ PutFrom \subseteq 0..N /\ ShortReads \in BOOLEAN
    /\ \A s \in Sessions : ModesOf[s] \subseteq {"RETRIEVE", "STORE", "REMOVE", "ARRAY_INFO"}
BY SFtpAssumption DEF SFtpAssumption

\* The order of numbers as a relation
Below == {p \in Nat \X Nat : p[1] < p[2]}
\* Of numbers there is a least.
LEMMA Least ==
    ASSUME NEW S \in SUBSET Nat, S # {}
    PROVE  \E m \in S : \A x \in S : m <= x
<1>1. IsWellFoundedOn(Below, Nat)
  BY NatLessThanWellFounded DEF OpToRel, Below
<1>2. \E m \in S : \A y \in S : ~ (<<y, m>> \in Below)
  BY <1>1, WFMin
<1>3. \A x, y \in S : ~ (<<y, x>> \in Below) => x <= y
  BY DEF Below
<1> QED
  BY <1>2, <1>3

\* An element is taken out of a sequence (ooo_chain.remove, borrow of an answer).
LEMMA TakenOut ==
    ASSUME NEW s \in Seq(Answer), NEW i \in 1..Len(s), NEW t, t = SubSeq(s, 1, i - 1) \o SubSeq(s, i + 1, Len(s))
    PROVE  /\ t \in Seq(Answer) /\ Len(t) = Len(s) - 1 /\ Len(s) \in Nat
           /\ \A j \in 1..(Len(s) - 1) : t[j] = IF j < i THEN s[j] ELSE s[j + 1]
<1> DEFINE n == Len(s)  a == SubSeq(s, 1, i - 1)  b == SubSeq(s, i + 1, n)
<1>n. n \in Nat /\ i \in 1..n /\ \A j \in 1..n : s[j] \in Answer
  BY LenProperties, ElementOfSeq
<1>t. t = a \o b
  OBVIOUS
<1>1. a \in Seq(Answer) /\ Len(a) = i - 1 /\ \A j \in 1..(i - 1) : a[j] = s[j]
  <2>1. \A j \in 1..(i - 1) : s[j] \in Answer
    BY <1>n
  <2> QED
    BY <1>n, <2>1, SubSeqProperties
<1>2. b \in Seq(Answer) /\ Len(b) = n - i /\ \A j \in 1..(n - i) : b[j] = s[i + j]
  <2>1. \A j \in (i + 1)..n : s[j] \in Answer
    BY <1>n
  <2> QED
    BY <1>n, <2>1, SubSeqProperties
<1> SUFFICES t \in Seq(Answer) /\ Len(t) = n - 1 /\ n \in Nat /\ \A j \in 1..(n - 1) : t[j] = IF j < i THEN s[j] ELSE s[j + 1]
  OBVIOUS
<1> HIDE DEF n, a, b
<1>4. /\ t \in Seq(Answer) /\ Len(t) = Len(a) + Len(b)
      /\ \A j \in 1..(Len(a) + Len(b)) : t[j] = IF j <= Len(a) THEN a[j] ELSE b[j - Len(a)]
  <2>1. /\ a \o b \in Seq(Answer) /\ Len(a \o b) = Len(a) + Len(b)
        /\ \A j \in 1..(Len(a) + Len(b)) : (a \o b)[j] = IF j <= Len(a) THEN a[j] ELSE b[j - Len(a)]
    BY <1>1, <1>2, ConcatProperties
  <2> QED
    BY <2>1, <1>t
<1>5. Len(a) + Len(b) = n - 1
  BY <1>1, <1>2, <1>n
<1>6. \A j \in 1..(n - 1) : t[j] = IF j < i THEN s[j] ELSE s[j + 1]
  <2> TAKE j \in 1..(n - 1)
  <2>1. CASE j < i
    <3>1. j <= Len(a) /\ j \in 1..(i - 1)
      BY <2>1, <1>1, <1>n
    <3> QED
      BY <3>1, <1>4, <1>5, <1>1, <2>1
  <2>2. CASE ~(j < i)
    <3>1. ~(j <= Len(a)) /\ j - Len(a) \in 1..(n - i) /\ i + (j - Len(a)) = j + 1
      BY <2>2, <1>1, <1>n
    <3> QED
      BY <3>1, <1>4, <1>5, <1>2, <2>2
  <2> QED
    BY <2>1, <2>2
<1> QED
  BY <1>4, <1>5, <1>6, <1>n

\* The bytes of a file are a sequence.
LEMMA BytesAre ==
    ASSUME NEW file \in File, NEW p \in Nat, NEW n \in Nat
    PROVE  /\ Bytes(file, p, n) \in Seq(File \X Nat) /\ Len(Bytes(file, p, n)) = n
           /\ \A i \in 1..n : Bytes(file, p, n)[i] = <<file, p + i - 1>>
<1>1. \A i \in 1..n : <<file, p + i - 1>> \in File \X Nat
  OBVIOUS
<1> QED
  BY <1>1 DEF Bytes

\* No bytes of a file are the empty sequence.
LEMMA BytesNone == \A file \in File : \A p \in Nat : Bytes(file, p, 0) = <<>>
<1> SUFFICES ASSUME NEW file \in File, NEW p \in Nat PROVE Bytes(file, p, 0) = <<>>
  OBVIOUS
<1> DEFINE s == Bytes(file, p, 0)
<1>1. s \in Seq(File \X Nat) /\ Len(s) = 0
  BY BytesAre
<1> HIDE DEF s
<1>2. s = <<>>
  BY <1>1, EmptySeq
<1> QED
  BY <1>2 DEF s

\* They are the bytes of a file at a position when each is.
LEMMA BytesBy ==
    ASSUME NEW file \in File, NEW p \in Nat, NEW n \in Nat, NEW s \in Seq(File \X Nat), Len(s) = n,
           \A i \in 1..n : s[i] = <<file, p + i - 1>>
    PROVE  s = Bytes(file, p, n)
<1>1. Bytes(file, p, n) \in Seq(File \X Nat) /\ Len(Bytes(file, p, n)) = n
      /\ \A i \in 1..n : Bytes(file, p, n)[i] = <<file, p + i - 1>>
  BY BytesAre
<1>2. \A i \in 1..n : s[i] = Bytes(file, p, n)[i]
  BY <1>1
<1> QED
  BY <1>1, <1>2, SeqEqual

\* They are read from the front (Read),
LEMMA BytesFront ==
    ASSUME NEW file \in File, NEW p \in Nat, NEW n \in Nat, n > 0
    PROVE  /\ Head(Bytes(file, p, n)) = <<file, p>> /\ Tail(Bytes(file, p, n)) = Bytes(file, p + 1, n - 1)
           /\ Bytes(file, p, n) # <<>>
<1> DEFINE s == Bytes(file, p, n)  S == File \X Nat
<1>0. p + 1 \in Nat /\ n - 1 \in Nat
  OBVIOUS
<1>1. s \in Seq(S) /\ Len(s) = n /\ \A i \in 1..n : s[i] = <<file, p + i - 1>>
  BY BytesAre
<1> HIDE DEF s, S
<1>2. s # <<>>
  BY <1>1, EmptySeq
<1>3. Head(s) = s[1]
  BY <1>1, <1>2
<1>4. Tail(s) \in Seq(S) /\ Len(Tail(s)) = n - 1 /\ \A i \in 1..(n - 1) : Tail(s)[i] = s[i + 1]
  BY <1>1, <1>2, HeadTailProperties
<1>5. \A i \in 1..(n - 1) : Tail(s)[i] = <<file, (p + 1) + i - 1>>
  <2> TAKE i \in 1..(n - 1)
  <2>1. i + 1 \in 1..n /\ p + (i + 1) - 1 = (p + 1) + i - 1
    OBVIOUS
  <2>2. s[i + 1] = <<file, p + (i + 1) - 1>>
    BY <2>1, <1>1
  <2> QED
    BY <2>1, <2>2, <1>4
<1>6. Tail(s) = Bytes(file, p + 1, n - 1)
  BY <1>0, <1>4, <1>5, BytesBy DEF S
<1>7. p + 1 - 1 = p
  OBVIOUS
<1>8. s[1] = <<file, p>>
  BY <1>1, <1>7
<1> QED
  BY <1>2, <1>3, <1>6, <1>8 DEF s

\* put behind one another (file_buf->Put),
LEMMA BytesJoin ==
    ASSUME NEW file \in File, NEW p \in Nat, NEW m \in Nat, NEW n \in Nat
    PROVE  Bytes(file, p, m) \o Bytes(file, p + m, n) = Bytes(file, p, m + n)
<1> DEFINE a == Bytes(file, p, m)  b == Bytes(file, p + m, n)  S == File \X Nat
<1>0. p + m \in Nat /\ m + n \in Nat
  OBVIOUS
<1>1. a \in Seq(S) /\ Len(a) = m /\ \A i \in 1..m : a[i] = <<file, p + i - 1>>
  BY BytesAre
<1>2. b \in Seq(S) /\ Len(b) = n /\ \A i \in 1..n : b[i] = <<file, (p + m) + i - 1>>
  BY <1>0, BytesAre
<1> HIDE DEF a, b, S
<1>4. /\ a \o b \in Seq(S) /\ Len(a \o b) = m + n
      /\ \A i \in 1..(m + n) : (a \o b)[i] = IF i <= m THEN a[i] ELSE b[i - m]
  BY <1>1, <1>2, ConcatProperties
<1>5. \A i \in 1..(m + n) : (a \o b)[i] = <<file, p + i - 1>>
  <2> TAKE i \in 1..(m + n)
  <2>1. CASE i <= m
    <3>1. i \in 1..m
      BY <2>1
    <3> QED
      BY <3>1, <2>1, <1>1, <1>4
  <2>2. CASE ~(i <= m)
    <3>1. i - m \in 1..n /\ (p + m) + (i - m) - 1 = p + i - 1
      BY <2>2
    <3>2. b[i - m] = <<file, (p + m) + (i - m) - 1>>
      BY <3>1, <1>2
    <3> QED
      BY <3>1, <3>2, <2>2, <1>4
  <2> QED
    BY <2>1, <2>2
<1>6. a \o b = Bytes(file, p, m + n)
  BY <1>0, <1>4, <1>5, BytesBy DEF S
<1> QED
  BY <1>6 DEF a, b

\* and one by one.
LEMMA BytesOn ==
    ASSUME NEW file \in File, NEW p \in Nat, NEW n \in Nat
    PROVE  Append(Bytes(file, p, n), <<file, p + n>>) = Bytes(file, p, n + 1)
<1> DEFINE a == Bytes(file, p, n)  S == File \X Nat  x == <<file, p + n>>
<1>0. n + 1 \in Nat /\ p + (n + 1) - 1 = p + n /\ x \in S
  OBVIOUS
<1>1. a \in Seq(S) /\ Len(a) = n /\ \A i \in 1..n : a[i] = <<file, p + i - 1>>
  BY BytesAre
<1> HIDE DEF a, S
<1>2. Append(a, x) \in Seq(S) /\ Len(Append(a, x)) = n + 1
      /\ \A i \in 1..(n + 1) : Append(a, x)[i] = IF i = n + 1 THEN x ELSE a[i]
  <2> HIDE DEF x
  <2> QED
    BY <1>0, <1>1, AppendProperties
<1>3. \A i \in 1..(n + 1) : Append(a, x)[i] = <<file, p + i - 1>>
  <2> TAKE i \in 1..(n + 1)
  <2>1. CASE i = n + 1
    BY <2>1, <1>0, <1>2
  <2>2. CASE i # n + 1
    <3>1. i \in 1..n
      BY <2>2
    <3> QED
      BY <3>1, <2>2, <1>1, <1>2
  <2> QED
    BY <2>1, <2>2
<1>4. Append(a, x) = Bytes(file, p, n + 1)
  BY <1>0, <1>2, <1>3, BytesBy DEF S
<1> QED
  BY <1>4 DEF a

\* A queue of expectations has a number for each.
LEMMA QueueHas == \A q \in Queue : DOMAIN q \subseteq Nat /\ \A i \in DOMAIN q : q[i] \in Expected
BY DEF Queue

\* A function of numbers to expectations is an expect queue.
LEMMA QueueIs ==
    ASSUME NEW D, D \subseteq Nat, NEW q, q = [i \in D |-> q[i]], \A i \in D : q[i] \in Expected
    PROVE  q \in Queue /\ DOMAIN q = D
<1>1. q \in [D -> Expected] /\ D \in SUBSET Nat
  OBVIOUS
<1> QED
  BY <1>1 DEF Queue

-----------------------------------------------------------------------------
(* Sessions, connections, and requests that are sent.                      *)

\* The fields of a connection have their types.
LEMMA ConnFields ==
    ASSUME NEW c \in Conn
    PROVE  /\ c.on /\ c.net \in {"syn", "up", "lost"} /\ c.id \in Nat /\ c.out \in Seq(Sent) /\ c.wire \in Seq(Answer)
           /\ c.expect \in Queue /\ c.handles \in SUBSET Nat /\ c.refused \in SUBSET (File \X Nat)
BY Zenon DEF Conn

\* The fields of a session (class SFtp) have their types.
LEMMA SesFields ==
    ASSUME NEW f \in Ses
    PROVE  /\ f.mode \in {"CLOSED", "RETRIEVE", "STORE", "REMOVE", "ARRAY_INFO"}
           /\ f.state \in {"DISCONNECTED", "CONNECTING", "CONNECTED", "FILE_RECV", "FILE_SEND", "WAITING", "DONE"}
           /\ f.error \in {"OK", "NO_FILE", "STORE_FAILED"} /\ f.file \in File /\ f.pos \in Nat /\ f.req_pos \in Nat
           /\ f.handle \in Nat /\ f.eof \in BOOLEAN /\ f.buf \in Buf /\ f.size \in Int /\ f.slow \in Nat
           /\ f.ooo \in Seq(Answer) /\ f.susp \in BOOLEAN /\ f.next \in 1..(K + 1) /\ f.info \in SUBSET (Nat \X Nat)
           /\ f.buf.on \in BOOLEAN /\ f.buf.data \in Seq(File \X Nat) /\ f.buf.eof \in BOOLEAN
BY Zenon DEF Ses, Buf

\* The fields of an answer have their types.
LEMMA AnswerFields ==
    ASSUME NEW a \in Answer
    PROVE  /\ a.id \in Nat /\ a.req \in Req /\ a.t \in {"status", "handle", "attrs", "data"}
           /\ a.code \in {"ok", "eof", "fail"} /\ a.h \in Nat /\ a.data \in Seq(File \X Nat) /\ a.of \in Nat
BY Zenon DEF Answer

\* The fields of a request have their types.
LEMMA ReqFields ==
    ASSUME NEW q \in Req
    PROVE  /\ q.k \in {"OPEN", "CREATE", "REMOVE", "STAT", "FSTAT", "READ", "WRITE", "CLOSE"}
           /\ q.for \in File /\ q.pos \in Nat /\ q.n \in Nat /\ q.h \in Nat
BY Zenon DEF Req

\* A session has a connection or none.
LEMMA OnIsConn ==
    ASSUME NEW w \in World
    PROVE  w.f \in Ses /\ (w.c = NoConn \/ w.c \in Conn) /\ (w.c.on <=> w.c \in Conn) /\ (~w.c.on <=> w.c = NoConn)
           /\ w = [f |-> w.f, c |-> w.c]
<1>1. w.f \in Ses /\ (w.c = NoConn \/ w.c \in Conn) /\ w = [f |-> w.f, c |-> w.c]
  BY Zenon DEF World
<1>2. NoConn.on = FALSE
  BY DEF NoConn
<1>3. ASSUME w.c \in Conn PROVE w.c.on /\ w.c # NoConn
  BY <1>2, <1>3, ConnFields
<1> QED
  BY <1>1, <1>2, <1>3

\* A session and a connection, or none, make a pair of the kind that Do works on.
LEMMA WorldOf ==
    ASSUME NEW f \in Ses, NEW c, c = NoConn \/ c \in Conn
    PROVE  [f |-> f, c |-> c] \in World /\ [f |-> f, c |-> c].f = f /\ [f |-> f, c |-> c].c = c
BY Zenon DEF World

\* SendRequest(Packet): the request q is the next, it is sent and expected.
Sends(w, q, tag, v) ==
    /\ v \in World /\ v.c \in Conn /\ v.f = w.f
    /\ v.c.net = w.c.net /\ v.c.wire = w.c.wire /\ v.c.handles = w.c.handles /\ v.c.refused = w.c.refused
    /\ v.c.id = w.c.id + 1 /\ w.c.id \in Nat
    /\ DOMAIN v.c.expect = DOMAIN w.c.expect \cup {w.c.id}
    /\ v.c.expect[w.c.id] = [req |-> q, tag |-> tag]
    /\ \A i \in DOMAIN w.c.expect : i # w.c.id /\ v.c.expect[i] = w.c.expect[i]
    /\ Len(w.c.out) \in Nat /\ Len(v.c.out) = Len(w.c.out) + 1
    /\ v.c.out[Len(w.c.out) + 1] = [id |-> w.c.id, req |-> q]
    /\ \A i \in 1..Len(w.c.out) : v.c.out[i] = w.c.out[i]

\* SendRequest(Packet) does what Sends says: the request has the next number, it is sent and it is expected.
LEMMA SendIs ==
    ASSUME NEW w \in World, w.c \in Conn, NEW q \in Req, NEW tag \in Tag, Numbered(w.c)
    PROVE  Sends(w, q, tag, Send(w, q, tag))
<1> DEFINE v == Send(w, q, tag)
           r == [id |-> w.c.id, req |-> q]
           e == [req |-> q, tag |-> tag]
           out == Append(w.c.out, r)
           D == DOMAIN w.c.expect \cup {w.c.id}
           expect == [i \in D |-> IF i = w.c.id THEN e ELSE w.c.expect[i]]
           id == w.c.id + 1
           c == [[[w.c EXCEPT !.id = id] EXCEPT !.out = out] EXCEPT !.expect = expect]
<1>1. w.c.id \in Nat /\ id \in Nat /\ w.c.out \in Seq(Sent) /\ w.c.expect \in Queue
  BY ConnFields
<1>2. r \in Sent /\ e \in Expected
  BY <1>1 DEF Sent, Expected
<1>5. v = [f |-> w.f, c |-> c]
  <2>1. v = [w EXCEPT !.c = c]
    BY Zenon DEF Send
  <2> QED
    BY <2>1, OnIsConn, Zenon DEF World
<1> HIDE DEF r, e, id
<1>7. /\ Len(w.c.out) \in Nat /\ Len(out) = Len(w.c.out) + 1 /\ out[Len(w.c.out) + 1] = r
      /\ \A i \in 1..Len(w.c.out) : out[i] = w.c.out[i]
      /\ out \in Seq(Sent)
  BY <1>1, <1>2, AppendProperties, LenProperties
<1>8. D \subseteq Nat /\ \A i \in DOMAIN w.c.expect : w.c.expect[i] \in Expected /\ i # w.c.id
  BY <1>1, QueueHas DEF Numbered
<1>9. /\ DOMAIN expect = D /\ expect[w.c.id] = e /\ \A i \in DOMAIN w.c.expect : expect[i] = w.c.expect[i]
  BY <1>8
<1>3. expect \in Queue
  <2>3. \A i \in D : expect[i] \in Expected
    BY <1>8, <1>9, <1>2
  <2>4. expect = [i \in D |-> expect[i]]
    OBVIOUS
  <2> HIDE DEF expect, D
  <2> QED
    BY <1>8, <2>3, <2>4, QueueIs
<1> HIDE DEF out, expect
<1>4. /\ c \in Conn /\ c.net = w.c.net /\ c.wire = w.c.wire /\ c.handles = w.c.handles /\ c.refused = w.c.refused
      /\ c.id = id /\ c.out = out /\ c.expect = expect
  BY <1>1, <1>7, <1>3, Zenon DEF Conn
<1>6. w.f \in Ses
  BY OnIsConn
<1> HIDE DEF c
<1>10. v \in World /\ v.f = w.f /\ v.c = c
  BY <1>4, <1>5, <1>6, WorldOf
<1> HIDE DEF v
<1>11. id = w.c.id + 1 /\ r = [id |-> w.c.id, req |-> q] /\ e = [req |-> q, tag |-> tag]
  BY DEF id, r, e
<1>12. Sends(w, q, tag, v)
  BY <1>1, <1>4, <1>7, <1>8, <1>9, <1>10, <1>11 DEF Sends, D
<1> QED
  BY <1>12 DEF v

\* What is on its way stays in order.
LEMMA SendOnItsWay ==
    ASSUME NEW w \in World, w.c \in Conn, NEW q \in Req, NEW tag \in Tag, OnItsWay(w.c), NEW v, Sends(w, q, tag, v)
    PROVE  OnItsWay(v.c)
<1> DEFINE c == v.c
<1>1. /\ c.wire = w.c.wire /\ c.handles = w.c.handles /\ c.refused = w.c.refused /\ c.id = w.c.id + 1
  BY DEF Sends
<1>2. w.c.id \in Nat /\ w.c.out \in Seq(Sent) /\ w.c.wire \in Seq(Answer) /\ w.c.expect \in Queue
  BY ConnFields
<1>3. DOMAIN w.c.expect \subseteq Nat
  BY <1>2, QueueHas
<1>4. /\ Len(w.c.out) \in Nat /\ Len(c.out) = Len(w.c.out) + 1
      /\ c.out[Len(w.c.out) + 1].id = w.c.id /\ c.out[Len(w.c.out) + 1].req = q
      /\ \A i \in 1..Len(w.c.out) : c.out[i] = w.c.out[i]
  BY DEF Sends
<1>7. /\ DOMAIN c.expect = DOMAIN w.c.expect \cup {w.c.id}
      /\ c.expect[w.c.id].req = q
      /\ \A i \in DOMAIN w.c.expect : i # w.c.id /\ c.expect[i] = w.c.expect[i]
  BY DEF Sends
<1> HIDE DEF c
<1>5. \A i \in 1..Len(c.out) : i \in 1..Len(w.c.out) \/ i = Len(w.c.out) + 1
  BY <1>4
<1>8. Numbered(c)
  <2>1. 0 < w.c.id /\ \A i \in DOMAIN w.c.expect : 0 < i /\ i < w.c.id
    BY DEF OnItsWay, Numbered
  <2>2. ASSUME NEW i \in DOMAIN c.expect PROVE 0 < i /\ i < w.c.id + 1
    BY <2>1, <2>2, <1>7, <1>2, <1>3
  <2> QED
    BY <2>1, <2>2, <1>1, <1>2 DEF Numbered
<1>9. ASSUME NEW i \in 1..Len(c.out)
      PROVE c.out[i].id \in DOMAIN c.expect /\ c.expect[c.out[i].id].req = c.out[i].req
  <2>1. CASE i \in 1..Len(w.c.out)
    <3>1. w.c.out[i].id \in DOMAIN w.c.expect /\ w.c.expect[w.c.out[i].id].req = w.c.out[i].req
      BY <2>1 DEF OnItsWay, Awaited
    <3> QED
      BY <2>1, <3>1, <1>4, <1>7
  <2>2. CASE i = Len(w.c.out) + 1
    BY <2>2, <1>4, <1>7
  <2> QED
    BY <2>1, <2>2, <1>5
<1>10. ASSUME NEW i \in 1..Len(c.wire)
       PROVE c.wire[i].id \in DOMAIN c.expect /\ c.expect[c.wire[i].id].req = c.wire[i].req
  <2>1. w.c.wire[i].id \in DOMAIN w.c.expect /\ w.c.expect[w.c.wire[i].id].req = w.c.wire[i].req
    BY <1>1 DEF OnItsWay, Awaited
  <2> QED
    BY <2>1, <1>1, <1>7
<1>11. \A i \in 1..Len(w.c.out) : w.c.out[i].id < w.c.id /\ w.c.out[i].id \in Nat
  BY <1>3 DEF OnItsWay, Awaited, Numbered
<1>12. \A i \in 1..Len(w.c.wire) : w.c.wire[i].id < w.c.id
  BY DEF OnItsWay, Awaited, Numbered
<1>13. InOrder(c)
  <2>1. ASSUME NEW i \in 1..Len(c.out), NEW j \in 1..Len(c.out), i < j PROVE c.out[i].id < c.out[j].id
    <3>1. i \in 1..Len(w.c.out)
      BY <2>1, <1>4, <1>5
    <3>2. CASE j \in 1..Len(w.c.out)
      BY <2>1, <3>1, <3>2, <1>4 DEF OnItsWay, InOrder
    <3>3. CASE j = Len(w.c.out) + 1
      BY <3>1, <3>3, <1>4, <1>11
    <3> QED
      BY <3>2, <3>3, <1>5
  <2>2. \A i \in 1..Len(c.wire), j \in 1..Len(c.out) : c.wire[i].id < c.out[j].id
    BY <1>1, <1>4, <1>5, <1>12 DEF OnItsWay, InOrder
  <2> QED
    BY <1>1, <2>1, <2>2 DEF OnItsWay, InOrder
<1>14. Answers(c)
  BY <1>1 DEF OnItsWay, Answers
<1> QED
  BY <1>1, <1>8, <1>9, <1>10, <1>13, <1>14 DEF OnItsWay, Awaited, c

\* What is expected stays so, and the new one fits the session (with only one handle to come).
LEMMA SendExpects ==
    ASSUME NEW w \in World, w.c \in Conn, NEW q \in Req, NEW tag \in Tag, OnItsWay(w.c), NEW f,
           Expects(f, w.c), Fits(f, [req |-> q, tag |-> tag]),
           tag = "HANDLE" => \A i \in DOMAIN w.c.expect : w.c.expect[i].tag # "HANDLE", NEW v, Sends(w, q, tag, v)
    PROVE  Expects(f, v.c)
<1> DEFINE c == v.c  e == [req |-> q, tag |-> tag]
<1>4. /\ DOMAIN c.expect = DOMAIN w.c.expect \cup {w.c.id} /\ c.expect[w.c.id] = e /\ e.tag = tag
      /\ \A i \in DOMAIN w.c.expect : c.expect[i] = w.c.expect[i]
  BY DEF Sends
<1>3. Fits(f, e)
  OBVIOUS
<1> HIDE DEF c, e
<1>5. ASSUME NEW i \in DOMAIN c.expect PROVE Fits(f, c.expect[i])
  BY <1>3, <1>4 DEF Expects
<1>6. ASSUME NEW i \in DOMAIN c.expect, NEW j \in DOMAIN c.expect, c.expect[i].tag = "HANDLE", c.expect[j].tag = "HANDLE"
      PROVE  i = j
  <2>1. CASE i = w.c.id /\ j = w.c.id
    BY <2>1
  <2>2. CASE i = w.c.id /\ j # w.c.id
    BY <2>2, <1>4, <1>6
  <2>3. CASE i # w.c.id /\ j = w.c.id
    BY <2>3, <1>4, <1>6
  <2>4. CASE i # w.c.id /\ j # w.c.id
    <3>1. i \in DOMAIN w.c.expect /\ j \in DOMAIN w.c.expect
      BY <2>4, <1>4
    <3> QED
      BY <3>1, <1>4, <1>6 DEF Expects
  <2> QED
    BY <2>1, <2>2, <2>3, <2>4
<1> QED
  BY <1>5, <1>6 DEF Expects, c

\* The handles stay known: a request to close one replaces that the session uses it.
LEMMA SendKept ==
    ASSUME NEW w \in World, w.c \in Conn, NEW q \in Req, NEW tag \in Tag, OnItsWay(w.c),
           NEW f, NEW H, Kept(f, w.c, H), NEW g, NEW G,
           \A h \in w.c.handles : h \in H \/ f.handle = h => h \in G \/ g.handle = h \/ (q.k = "CLOSE" /\ q.h = h), NEW v, Sends(w, q, tag, v)
    PROVE  Kept(g, v.c, G)
<1> DEFINE c == v.c  n == Len(w.c.out)
<1>1. c.net = w.c.net /\ c.wire = w.c.wire /\ c.handles = w.c.handles
  BY DEF Sends
<1>3. n \in Nat /\ Len(c.out) = n + 1 /\ c.out[n + 1].req = q /\ \A i \in 1..n : c.out[i] = w.c.out[i]
  BY DEF Sends
<1>4. \A i \in DOMAIN w.c.expect : c.expect[i] = w.c.expect[i]
  BY DEF Sends
<1> HIDE DEF c, n
<1>5. SUFFICES ASSUME c.net # "lost", NEW h \in c.handles
               PROVE  \/ g.handle = h \/ h \in G
                      \/ \E i \in 1..Len(c.out) : c.out[i].req.k = "CLOSE" /\ c.out[i].req.h = h
                      \/ \E i \in 1..Len(c.wire) : c.wire[i].h = h /\ c.expect[c.wire[i].id].tag \in {"HANDLE", "STALE"}
  BY DEF Kept, c
<1>6. \/ f.handle = h \/ h \in H
      \/ \E i \in 1..n : w.c.out[i].req.k = "CLOSE" /\ w.c.out[i].req.h = h
      \/ \E i \in 1..Len(w.c.wire) : w.c.wire[i].h = h /\ w.c.expect[w.c.wire[i].id].tag \in {"HANDLE", "STALE"}
  BY <1>1, <1>5 DEF Kept, n
<1>7. CASE f.handle = h \/ h \in H
  <2>1. CASE q.k = "CLOSE" /\ q.h = h
    <3>1. n + 1 \in 1..Len(c.out) /\ c.out[n + 1].req = q
      BY <1>3
    <3> QED
      BY <3>1, <2>1
  <2> QED
    BY <2>1, <1>7, <1>1, <1>5
<1>8. CASE \E i \in 1..n : w.c.out[i].req.k = "CLOSE" /\ w.c.out[i].req.h = h
  <2>1. PICK i \in 1..n : w.c.out[i].req.k = "CLOSE" /\ w.c.out[i].req.h = h
    BY <1>8
  <2>2. i \in 1..Len(c.out) /\ c.out[i] = w.c.out[i]
    BY <1>3
  <2> QED
    BY <2>1, <2>2
<1>9. CASE \E i \in 1..Len(w.c.wire) : w.c.wire[i].h = h /\ w.c.expect[w.c.wire[i].id].tag \in {"HANDLE", "STALE"}
  <2>1. PICK i \in 1..Len(w.c.wire) : w.c.wire[i].h = h /\ w.c.expect[w.c.wire[i].id].tag \in {"HANDLE", "STALE"}
    BY <1>9
  <2>2. w.c.wire[i].id \in DOMAIN w.c.expect
    BY DEF OnItsWay, Awaited
  <2>3. c.expect[c.wire[i].id] = w.c.expect[w.c.wire[i].id] /\ c.wire[i] = w.c.wire[i] /\ i \in 1..Len(c.wire)
    BY <2>2, <1>1, <1>4
  <2> QED
    BY <2>1, <2>3
<1> QED
  BY <1>6, <1>7, <1>8, <1>9

\* The files that have been asked about stay known or expected.
LEMMA SendInformed ==
    ASSUME NEW w \in World, w.c \in Conn, NEW q \in Req, NEW tag \in Tag, OnItsWay(w.c),
           NEW f, NEW X, Informed(f, w.c, X), NEW v, Sends(w, q, tag, v)
    PROVE  Informed(f, v.c, X)
<1> DEFINE c == v.c
<1>1. c.refused = w.c.refused
  BY DEF Sends
<1>3. \A i \in DOMAIN w.c.expect : i \in DOMAIN c.expect /\ c.expect[i] = w.c.expect[i]
  BY DEF Sends
<1> HIDE DEF c
<1>4. Informed(f, c, X)
  <2> SUFFICES ASSUME f.mode = "ARRAY_INFO", NEW i \in 1..(f.next - 1)
               PROVE  \/ <<i, i>> \in f.info \/ i \in X
                      \/ <<f.file, i>> \in c.refused
                      \/ \E j \in DOMAIN c.expect : c.expect[j].tag = "INFO" /\ c.expect[j].req.pos = i
    BY DEF Informed
  <2>1. \/ <<i, i>> \in f.info \/ i \in X
        \/ <<f.file, i>> \in w.c.refused
        \/ \E j \in DOMAIN w.c.expect : w.c.expect[j].tag = "INFO" /\ w.c.expect[j].req.pos = i
    BY DEF Informed
  <2>2. CASE \E j \in DOMAIN w.c.expect : w.c.expect[j].tag = "INFO" /\ w.c.expect[j].req.pos = i
    BY <2>2, <1>3
  <2> QED
    BY <2>1, <2>2, <1>1
<1> QED
  BY <1>4 DEF c

-----------------------------------------------------------------------------
(* What leaves a session where it is.                                      *)

\* The session stays with its operation, or comes to its end.
Moves(f, g) ==
    /\ g \in Ses /\ g.mode = f.mode /\ g.file = f.file /\ g.handle = f.handle /\ g.buf.on = f.buf.on
    /\ g.next = f.next /\ g.info = f.info
    /\ g.state = f.state \/ (g.state \in {"DONE", "WAITING"} /\ f.mode # "ARRAY_INFO" /\ (f.buf.on \/ f.mode = "REMOVE"))

\* Neither does it take or give up data.
Rests(f, g) == Moves(f, g) /\ g.pos = f.pos /\ g.buf.data = f.buf.data /\ g.ooo = f.ooo /\ (~f.buf.on => g.buf = f.buf)

\* What is expected by the session, and of it, does not depend on the rest.
LEMMA JointMoves ==
    ASSUME NEW w \in World, w.c \in Conn, Session(w), NEW H, NEW X, Joint(w, H, X), NEW v \in World, v.c = w.c, Moves(w.f, v.f)
    PROVE  Joint(v, H, X) /\ (v.f.state = "DISCONNECTED" <=> ~v.c.on)
<1> DEFINE f == w.f  g == v.f  c == w.c
<1>1. /\ g.mode = f.mode /\ g.file = f.file /\ g.handle = f.handle /\ g.buf.on = f.buf.on
      /\ g.next = f.next /\ g.info = f.info
      /\ g.state = f.state \/ (g.state \in {"DONE", "WAITING"} /\ f.mode # "ARRAY_INFO" /\ (f.buf.on \/ f.mode = "REMOVE"))
  BY DEF Moves
<1>2. /\ c.on /\ OnItsWay(c) /\ Expects(f, c) /\ Kept(f, c, H) /\ Informed(f, c, X)
      /\ (AtRest(f) => \A i \in DOMAIN c.expect : c.expect[i].tag \in {"IGNORE", "STALE"})
  BY ConnFields DEF Joint
<1>3. AtRest(f) => ~f.buf.on
  BY DEF Session, Phase
<1>4. f.state = "DISCONNECTED" <=> ~c.on
  BY DEF Session
<1> HIDE DEF f, g, c
<1>5. \A e : Fits(f, e) => Fits(g, e)
  BY <1>1 DEF Fits
<1>6. Expects(g, c)
  BY <1>2, <1>5 DEF Expects
<1>7. Kept(g, c, H)
  BY <1>1, <1>2 DEF Kept
<1>8. Informed(g, c, X)
  BY <1>1, <1>2 DEF Informed
<1>9. AtRest(g) => AtRest(f)
  BY <1>1 DEF AtRest
<1>10. g.state = "DISCONNECTED" <=> ~c.on
  BY <1>1, <1>2, <1>4
<1> QED
  BY <1>2, <1>6, <1>7, <1>8, <1>9, <1>10 DEF Joint, f, g, c

\* A session that rests stays whole.
LEMMA RestsWhole ==
    ASSUME NEW w, w.c \in Conn, NEW H, NEW X, Whole(w, H, X), NEW v \in World, v.c = w.c, Rests(w.f, v.f)
    PROVE  Leads(w, v, H, X)
<1> DEFINE f == w.f  g == v.f
<1>1. w \in World /\ Session(w) /\ Joint(w, H, X)
  BY DEF Whole
<1>2. Joint(v, H, X) /\ (v.f.state = "DISCONNECTED" <=> ~v.c.on)
  BY <1>1, JointMoves DEF Rests
<1>3. /\ g.mode = f.mode /\ g.file = f.file /\ g.handle = f.handle /\ g.buf.on = f.buf.on
      /\ g.next = f.next /\ g.info = f.info
      /\ g.state = f.state \/ (g.state \in {"DONE", "WAITING"} /\ f.mode # "ARRAY_INFO" /\ (f.buf.on \/ f.mode = "REMOVE"))
      /\ g.pos = f.pos /\ g.buf.data = f.buf.data /\ g.ooo = f.ooo /\ (~f.buf.on => g.buf = f.buf)
  BY DEF Rests, Moves
<1>4. Phase(f) /\ Holds(f) /\ Known(f) /\ f.state # "DISCONNECTED"
  BY <1>1, ConnFields DEF Session
<1> HIDE DEF f, g
<1>5. Phase(g)
  BY <1>3, <1>4 DEF Phase, AtRest
<1>6. Holds(g)
  BY <1>3, <1>4 DEF Holds
<1>7. Known(g)
  BY <1>3, <1>4 DEF Known
<1> QED
  BY <1>2, <1>3, <1>5, <1>6, <1>7 DEF Leads, Whole, Session, f, g

\* A session that fails rests.
LEMMA FailsWhole ==
    ASSUME NEW w, w.c \in Conn, NEW H, NEW X, Whole(w, H, X), NEW error \in {"NO_FILE", "STORE_FAILED"}
    PROVE  Leads(w, Fails(w, error), H, X)
<1> DEFINE g == [w.f EXCEPT !.error = error]  v == Fails(w, error)
<1>1. w \in World /\ w.f \in Ses
  BY OnIsConn DEF Whole
<1>2. /\ g \in Ses /\ g.mode = w.f.mode /\ g.file = w.f.file /\ g.handle = w.f.handle /\ g.buf = w.f.buf
      /\ g.next = w.f.next /\ g.info = w.f.info /\ g.state = w.f.state /\ g.pos = w.f.pos /\ g.ooo = w.f.ooo
  BY <1>1, Zenon DEF Ses
<1>3. v = [f |-> g, c |-> w.c]
  <2>1. v = [w EXCEPT !.f = g]
    BY Zenon DEF Fails
  <2> HIDE DEF g, v
  <2> QED
    BY <1>1, <2>1, OnIsConn, Zenon DEF World
<1> HIDE DEF g, v
<1>4. v \in World /\ v.f = g /\ v.c = w.c
  BY <1>2, <1>3, WorldOf
<1>5. Rests(w.f, v.f)
  BY <1>2, <1>4 DEF Rests, Moves
<1>6. Leads(w, v, H, X)
  BY <1>4, <1>5, RestsWhole
<1> QED
  BY <1>6 DEF v

\* HandleExpect, the label eof: nothing but the end is noted.
LEMMA EofWhole ==
    ASSUME NEW w, w.c \in Conn, NEW H, NEW X, Whole(w, H, X), NEW id, w.f.mode = "RETRIEVE", w.f.buf.on
    PROVE  Leads(w, Eof(w, id), H, X)
<1> DEFINE g == [[w.f EXCEPT !.eof = TRUE] EXCEPT !.state = "DONE"]
           b == [w.f.buf EXCEPT !.eof = TRUE]
           h == [g EXCEPT !.buf = b]
           v == Eof(w, id)
<1>1. w \in World /\ w.f \in Ses /\ w.f.buf \in Buf
  BY OnIsConn, SesFields DEF Whole
<1>2. /\ g \in Ses /\ g.mode = w.f.mode /\ g.file = w.f.file /\ g.handle = w.f.handle /\ g.buf = w.f.buf
      /\ g.next = w.f.next /\ g.info = w.f.info /\ g.state = "DONE" /\ g.pos = w.f.pos /\ g.ooo = w.f.ooo
  BY <1>1, Zenon DEF Ses
<1>3. b \in Buf /\ b.on = w.f.buf.on /\ b.data = w.f.buf.data
  BY <1>1, Zenon DEF Buf
<1>4. v = [f |-> g, c |-> w.c] \/ v = [f |-> h, c |-> w.c]
  BY <1>1, Zenon DEF Eof, World
<1> HIDE DEF g, b
<1>5. /\ h \in Ses /\ h.mode = w.f.mode /\ h.file = w.f.file /\ h.handle = w.f.handle /\ h.buf = b
      /\ h.next = w.f.next /\ h.info = w.f.info /\ h.state = "DONE" /\ h.pos = w.f.pos /\ h.ooo = w.f.ooo
  BY <1>2, <1>3, Zenon DEF Ses
<1> HIDE DEF v, h
<1>6. Rests(w.f, g) /\ Rests(w.f, h)
  BY <1>2, <1>3, <1>5 DEF Rests, Moves
<1>7. v \in World /\ (v.f = g \/ v.f = h) /\ v.c = w.c
  BY <1>1, <1>2, <1>4, <1>5, WorldOf
<1>8. Leads(w, v, H, X)
  BY <1>6, <1>7, RestsWhole
<1> QED
  BY <1>8 DEF v

\* DisconnectLL: nothing is left of what was on the connection, and reading goes on where it was.
LEMMA DisconnectLeads ==
    ASSUME NEW w \in World, Holds(w.f), Known(w.f)
    PROVE  Leads(w, Disconnect(w), {}, {}) /\ Disconnect(w).c = NoConn
<1> DEFINE e == IF w.f.mode = "STORE" THEN "STORE_FAILED" ELSE w.f.error
           g == [w.f EXCEPT !.state = "DISCONNECTED", !.handle = NoHandle, !.buf = NoBuf, !.ooo = <<>>,
                            !.susp = FALSE, !.next = 1, !.error = e]
           v == Disconnect(w)
<1>1. w.f \in Ses
  BY OnIsConn
<1>2. NoHandle \in Nat /\ NoBuf \in Buf /\ <<>> \in Seq(Answer) /\ 1 \in 1..(K + 1)
  BY Numbers DEF NoHandle, NoBuf, Buf
<1>3. e \in {"OK", "NO_FILE", "STORE_FAILED"}
  BY <1>1, SesFields
<1>4. v = [f |-> g, c |-> NoConn]
  BY Zenon DEF Disconnect
<1> HIDE DEF e
<1>5. /\ g \in Ses /\ g.mode = w.f.mode /\ g.file = w.f.file /\ g.pos = w.f.pos /\ g.state = "DISCONNECTED"
      /\ g.handle = NoHandle /\ g.buf = NoBuf /\ g.ooo = <<>> /\ g.next = 1 /\ g.info = w.f.info
  BY <1>1, <1>2, <1>3, Zenon DEF Ses
<1> HIDE DEF g, v
<1>6. v \in World /\ v.f = g /\ v.c = NoConn
  BY <1>4, <1>5, WorldOf
<1>7. ~NoConn.on
  BY DEF NoConn
<1>8. NoBuf.on = FALSE /\ NoBuf.data = <<>> /\ Len(<<>>) = 0
  BY DEF NoBuf
<1>9. Phase(g)
  BY <1>5, <1>8 DEF Phase, AtRest
<1>10. Holds(g)
  <2>1. g.file \in File /\ g.pos \in Nat /\ g.pos <= N
    BY <1>5, SesFields DEF Holds
  <2>3. <<>> = Bytes(g.file, g.pos, 0)
    BY <2>1, BytesNone
  <2> QED
    BY <1>5, <1>8, <2>1, <2>3, Numbers DEF Holds
<1>11. Known(g)
  BY <1>5 DEF Known
<1>12. Leads(w, v, {}, {}) /\ v.c = NoConn
  BY <1>5, <1>6, <1>7, <1>9, <1>10, <1>11 DEF Leads, Whole, Session, Joint
<1> QED
  BY <1>12 DEF v

\* A request is sent that fits what the session does.
LEMMA SendLeads ==
    ASSUME NEW w, w.c \in Conn, NEW H, NEW X, Whole(w, H, X), NEW q \in Req, NEW tag \in Tag, Fits(w.f, [req |-> q, tag |-> tag]),
           tag = "HANDLE" => \A i \in DOMAIN w.c.expect : w.c.expect[i].tag # "HANDLE",
           AtRest(w.f) => tag \in {"IGNORE", "STALE"}, NEW G,
           \A h \in w.c.handles : h \in H => h \in G \/ w.f.handle = h \/ (q.k = "CLOSE" /\ q.h = h)
    PROVE  Leads(w, Send(w, q, tag), G, X) /\ Sends(w, q, tag, Send(w, q, tag))
<1> DEFINE v == Send(w, q, tag)
<1>1. w \in World /\ Session(w) /\ Joint(w, H, X) /\ w.c.on
  BY ConnFields DEF Whole
<1>2. /\ OnItsWay(w.c) /\ Expects(w.f, w.c) /\ Kept(w.f, w.c, H) /\ Informed(w.f, w.c, X)
      /\ (AtRest(w.f) => \A i \in DOMAIN w.c.expect : w.c.expect[i].tag \in {"IGNORE", "STALE"})
  BY <1>1 DEF Joint
<1>3. Sends(w, q, tag, v)
  BY <1>1, <1>2, SendIs DEF OnItsWay
<1> HIDE DEF v
<1>4. v.f = w.f /\ v.c \in Conn /\ v \in World
  BY <1>3 DEF Sends
<1>5. OnItsWay(v.c)
  BY <1>1, <1>2, <1>3, SendOnItsWay
<1>6. Expects(v.f, v.c)
  BY <1>1, <1>2, <1>3, <1>4, SendExpects
<1>7. Kept(v.f, v.c, G)
  <2>1. \A h \in w.c.handles : h \in H \/ w.f.handle = h => h \in G \/ w.f.handle = h \/ (q.k = "CLOSE" /\ q.h = h)
    OBVIOUS
  <2>2. Kept(w.f, v.c, G)
    BY <1>1, <1>2, <1>3, <2>1, SendKept
  <2> QED
    BY <2>2, <1>4
<1>8. Informed(v.f, v.c, X)
  <2>1. Informed(w.f, v.c, X)
    BY <1>1, <1>2, <1>3, SendInformed
  <2> QED
    BY <2>1, <1>4
<1>9. AtRest(v.f) => \A i \in DOMAIN v.c.expect : v.c.expect[i].tag \in {"IGNORE", "STALE"}
  <2>1. /\ DOMAIN v.c.expect = DOMAIN w.c.expect \cup {w.c.id} /\ v.c.expect[w.c.id].tag = tag
        /\ \A i \in DOMAIN w.c.expect : v.c.expect[i] = w.c.expect[i]
    BY <1>3 DEF Sends
  <2> QED
    BY <2>1, <1>2, <1>4
<1>10. v.c.on /\ (v.f.state = "DISCONNECTED" <=> ~v.c.on)
  BY <1>1, <1>4, ConnFields DEF Session
<1>11. Session(v)
  BY <1>1, <1>4, <1>10 DEF Session
<1>12. Whole(v, G, X)
  BY <1>4, <1>5, <1>6, <1>7, <1>8, <1>9, <1>11 DEF Whole, Joint
<1>13. Leads(w, v, G, X)
  BY <1>4, <1>12 DEF Leads
<1> QED
  BY <1>3, <1>13 DEF v

\* The requests of a session are requests.
LEMMA Requests ==
    ASSUME NEW f \in Ses, NEW k \in {"OPEN", "CREATE", "REMOVE", "STAT", "FSTAT", "READ", "WRITE", "CLOSE"},
           NEW pos \in Nat, NEW n \in Nat
    PROVE  /\ Request(k, f.file, pos, n) \in Req /\ OnHandle(f, k, pos, n) \in Req
           /\ Request(k, f.file, pos, n).k = k /\ Request(k, f.file, pos, n).for = f.file /\ Request(k, f.file, pos, n).pos = pos
           /\ OnHandle(f, k, pos, n).k = k /\ OnHandle(f, k, pos, n).for = f.file /\ OnHandle(f, k, pos, n).pos = pos
           /\ OnHandle(f, k, pos, n).n = n /\ OnHandle(f, k, pos, n).h = f.handle
<1> DEFINE q == Request(k, f.file, pos, n)  p == [q EXCEPT !.h = f.handle]
<1>1. f.file \in File /\ f.handle \in Nat /\ NoHandle \in Nat
  BY SesFields DEF NoHandle
<1>2. q \in Req /\ q.k = k /\ q.for = f.file /\ q.pos = pos /\ q.n = n
  BY <1>1 DEF Request, Req
<1>3. OnHandle(f, k, pos, n) = p
  BY DEF OnHandle
<1> HIDE DEF q
<1>4. p \in Req /\ p.k = q.k /\ p.for = q.for /\ p.pos = q.pos /\ p.n = q.n /\ p.h = f.handle
  BY <1>1, <1>2, Zenon DEF Req
<1> HIDE DEF p
<1>5. p.k = k /\ p.for = f.file /\ p.pos = pos /\ p.n = n
  BY <1>2, <1>4
<1>6. q = Request(k, f.file, pos, n)
  BY DEF q
<1> QED
  BY <1>2, <1>3, <1>4, <1>5, <1>6

\* A part of a file is requested (RequestMoreData, and what a short answer lacks).
LEMMA ReadLeads ==
    ASSUME NEW w, w.c \in Conn, NEW H, NEW X, Whole(w, H, X), NEW pos \in Nat, NEW n \in Nat, w.f.mode = "RETRIEVE", w.f.buf.on
    PROVE  Leads(w, Send(w, OnHandle(w.f, "READ", pos, n), "DATA"), H, X)
<1> DEFINE q == OnHandle(w.f, "READ", pos, n)  e == [req |-> q, tag |-> "DATA"]
<1>1. w \in World /\ w.f \in Ses
  BY OnIsConn DEF Whole
<1>2. q \in Req /\ q.k = "READ" /\ q.for = w.f.file
  BY <1>1, Requests
<1> HIDE DEF q
<1>3. Fits(w.f, [req |-> q, tag |-> "DATA"])
  <2>1. e.req = q /\ e.tag = "DATA"
    OBVIOUS
  <2> HIDE DEF e
  <2>2. Fits(w.f, e)
    BY <1>2, <2>1 DEF Fits
  <2> QED
    BY <2>2 DEF e
<1>4. ~AtRest(w.f)
  BY DEF Whole, Session, Phase
<1>5. "DATA" \in Tag /\ "DATA" # "HANDLE"
  BY DEF Tag
<1>6. Leads(w, Send(w, q, "DATA"), H, X)
  BY <1>2, <1>3, <1>4, <1>5, SendLeads
<1> QED
  BY <1>6 DEF q

-----------------------------------------------------------------------------
(* Answers to a READ.                                                      *)

\* Data is taken in or kept, which is right.
LEMMA HoldsLeads ==
    ASSUME NEW w, w.c \in Conn, NEW H, NEW X, Whole(w, H, X), w.f.buf.on, NEW v \in World, v.c = w.c, Moves(w.f, v.f), Holds(v.f)
    PROVE  Whole(v, H, X)
<1> DEFINE f == w.f  g == v.f
<1>1. w \in World /\ Session(w) /\ Joint(w, H, X)
  BY DEF Whole
<1>2. Joint(v, H, X) /\ (v.f.state = "DISCONNECTED" <=> ~v.c.on)
  BY <1>1, JointMoves
<1>3. /\ g.mode = f.mode /\ g.file = f.file /\ g.handle = f.handle /\ g.buf.on = f.buf.on
      /\ g.next = f.next /\ g.info = f.info
      /\ g.state = f.state \/ (g.state \in {"DONE", "WAITING"} /\ f.mode # "ARRAY_INFO" /\ (f.buf.on \/ f.mode = "REMOVE"))
  BY DEF Moves
<1>4. Phase(f) /\ Known(f) /\ f.state # "DISCONNECTED" /\ f.buf.on
  BY <1>1, ConnFields DEF Session
<1>8. Holds(g)
  OBVIOUS
<1> HIDE DEF f, g
<1>5. Phase(g)
  BY <1>3, <1>4 DEF Phase, AtRest
<1>7. Known(g)
  BY <1>3, <1>4 DEF Known
<1> QED
  BY <1>2, <1>5, <1>7, <1>8 DEF Whole, Session, f, g

\* What is missing of a short answer is requested (HandleExpect, DATA).
LEMMA ShortLeads ==
    ASSUME NEW w, w.c \in Conn, NEW H, NEW X, Whole(w, H, X), w.f.mode = "RETRIEVE", w.f.buf.on, NEW r \in Answer,
           Len(r.data) <= r.req.n
    PROVE  Leads(w, Short(w, r), H, X)
<1> DEFINE end == r.req.pos + Len(r.data)  g == [w.f EXCEPT !.req_pos = end]  v == [w EXCEPT !.f.req_pos = end]
<1>1. w \in World /\ w.f \in Ses
  BY OnIsConn DEF Whole
<1>2. end \in Nat /\ r.req.n - Len(r.data) \in Nat
  BY AnswerFields, ReqFields, LenProperties
<1>3. Leads(w, Send(w, OnHandle(w.f, "READ", end, r.req.n - Len(r.data)), "DATA"), H, X)
  BY <1>2, ReadLeads
<1>4. v = [f |-> g, c |-> w.c]
  <2>1. v = [w EXCEPT !.f = g]
    BY Zenon
  <2> HIDE DEF g, v
  <2> QED
    BY <1>1, <2>1, OnIsConn, Zenon DEF World
<1> HIDE DEF end
<1>5. /\ g \in Ses /\ g.mode = w.f.mode /\ g.file = w.f.file /\ g.handle = w.f.handle /\ g.buf = w.f.buf
      /\ g.next = w.f.next /\ g.info = w.f.info /\ g.state = w.f.state /\ g.pos = w.f.pos /\ g.ooo = w.f.ooo
  BY <1>1, <1>2, Zenon DEF Ses
<1> HIDE DEF g, v
<1>6. v \in World /\ v.f = g /\ v.c = w.c
  BY <1>4, <1>5, WorldOf
<1>7. Rests(w.f, v.f)
  BY <1>5, <1>6 DEF Rests, Moves
<1>8. Leads(w, v, H, X)
  BY <1>6, <1>7, RestsWhole
<1> QED
  BY <1>3, <1>8 DEF Short, end, v

\* An answer that has come out of its turn is kept,
LEMMA KeepLeads ==
    ASSUME NEW w, w.c \in Conn, NEW H, NEW X, Whole(w, H, X), w.f.mode = "RETRIEVE", w.f.buf.on, NEW r \in Answer,
           r.t = "data", Right(r), r.req.for = w.f.file, Len(w.f.ooo) < MaxOutOfOrder
    PROVE  Leads(w, [w EXCEPT !.f.ooo = Append(@, r)], H, X)
<1> DEFINE ooo == Append(w.f.ooo, r)  g == [w.f EXCEPT !.ooo = ooo]  v == [w EXCEPT !.f.ooo = Append(@, r)]
<1>1. w \in World /\ w.f \in Ses /\ w.f.ooo \in Seq(Answer) /\ Holds(w.f)
  BY OnIsConn, SesFields DEF Whole, Session
<1>2. /\ ooo \in Seq(Answer) /\ Len(w.f.ooo) \in Nat /\ Len(ooo) = Len(w.f.ooo) + 1 /\ ooo[Len(w.f.ooo) + 1] = r
      /\ \A i \in 1..Len(w.f.ooo) : ooo[i] = w.f.ooo[i]
  BY <1>1, AppendProperties, LenProperties
<1>4. v = [f |-> g, c |-> w.c]
  <2>1. v = [w EXCEPT !.f = g]
    BY Zenon
  <2> HIDE DEF g, v
  <2> QED
    BY <1>1, <2>1, OnIsConn, Zenon DEF World
<1> HIDE DEF ooo
<1>5. /\ g \in Ses /\ g.mode = w.f.mode /\ g.file = w.f.file /\ g.handle = w.f.handle /\ g.buf = w.f.buf
      /\ g.next = w.f.next /\ g.info = w.f.info /\ g.state = w.f.state /\ g.pos = w.f.pos /\ g.ooo = ooo
  BY <1>1, <1>2, Zenon DEF Ses
<1> HIDE DEF g, v
<1>6. v \in World /\ v.f = g /\ v.c = w.c
  BY <1>4, <1>5, WorldOf
<1>7. Moves(w.f, v.f)
  BY <1>5, <1>6 DEF Moves
<1>8. Holds(g)
  <2>1. ASSUME NEW i \in 1..Len(ooo) PROVE ooo[i].t = "data" /\ Right(ooo[i]) /\ ooo[i].req.for = w.f.file
    <3>1. CASE i = Len(w.f.ooo) + 1
      BY <3>1, <1>2
    <3>2. CASE i # Len(w.f.ooo) + 1
      <4>1. i \in 1..Len(w.f.ooo) /\ ooo[i] = w.f.ooo[i]
        BY <3>2, <1>2
      <4> QED
        BY <4>1, <1>1 DEF Holds
    <3> QED
      BY <3>1, <3>2
  <2>2. Len(ooo) <= MaxOutOfOrder
    BY <1>2, Numbers
  <2> QED
    BY <2>1, <2>2, <1>1, <1>5 DEF Holds
<1>9. Whole(v, H, X)
  BY <1>6, <1>7, <1>8, HoldsLeads
<1>10. Leads(w, v, H, X)
  BY <1>5, <1>6, <1>9 DEF Leads
<1> QED
  BY <1>10 DEF v

\* and one whose turn it is is taken in.
LEMMA TakeLeads ==
    ASSUME NEW w, w.c \in Conn, NEW H, NEW X, Whole(w, H, X), w.f.mode = "RETRIEVE", w.f.buf.on, NEW r \in Answer,
           r.t = "data", Right(r), r.req.for = w.f.file, r.req.pos = w.f.pos + Len(w.f.buf.data)
    PROVE  Leads(w, [w EXCEPT !.f.buf.data = @ \o r.data], H, X)
<1> DEFINE data == w.f.buf.data \o r.data
           b == [w.f.buf EXCEPT !.data = data]  g == [w.f EXCEPT !.buf = b]  v == [w EXCEPT !.f.buf.data = @ \o r.data]
           m == Len(w.f.buf.data)  n == Len(r.data)  p == w.f.pos  file == w.f.file
<1>1. /\ w \in World /\ w.f \in Ses /\ w.f.buf \in Buf /\ w.f.buf.data \in Seq(File \X Nat) /\ Holds(w.f)
      /\ w.f.pos \in Nat /\ w.f.file \in File
  BY OnIsConn, SesFields DEF Whole, Session
<1>2. r.data \in Seq(File \X Nat) /\ r.req.pos \in Nat /\ m \in Nat /\ n \in Nat
  BY <1>1, AnswerFields, ReqFields, LenProperties
<1>0. p \in Nat /\ file \in File /\ m + n \in Nat
  <2> HIDE DEF m, n
  <2> QED
    BY <1>1, <1>2
<1>3. data = Bytes(file, p, m + n) /\ p + (m + n) <= N
  <2>1. w.f.buf.data = Bytes(file, p, m)
    BY <1>1 DEF Holds
  <2>2. r.data = Bytes(file, p + m, n) /\ p + m + n <= N
    BY DEF Right
  <2>3. data = Bytes(file, p, m) \o Bytes(file, p + m, n)
    BY <2>1, <2>2
  <2> HIDE DEF m, n, p, file, data
  <2>4. p + m + n = p + (m + n)
    BY <1>0, <1>2
  <2>6. m \in Nat /\ n \in Nat /\ p \in Nat /\ file \in File
    BY <1>0, <1>2
  <2>5. Bytes(file, p, m) \o Bytes(file, p + m, n) = Bytes(file, p, m + n)
    BY <2>6, BytesJoin
  <2> QED
    BY <2>2, <2>3, <2>4, <2>5
<1>4. v = [f |-> g, c |-> w.c]
  <2>1. v = [w EXCEPT !.f = g]
    BY Zenon
  <2> HIDE DEF g, v
  <2> QED
    BY <1>1, <2>1, OnIsConn, Zenon DEF World
<1> HIDE DEF data, m, n, p, file
<1>10. data \in Seq(File \X Nat) /\ Len(data) = m + n
  BY <1>0, <1>3, BytesAre
<1>11. b \in Buf /\ b.on = w.f.buf.on /\ b.data = data
  BY <1>1, <1>10, Zenon DEF Buf
<1> HIDE DEF b
<1>5. /\ g \in Ses /\ g.mode = w.f.mode /\ g.file = w.f.file /\ g.handle = w.f.handle /\ g.buf = b
      /\ g.next = w.f.next /\ g.info = w.f.info /\ g.state = w.f.state /\ g.pos = w.f.pos /\ g.ooo = w.f.ooo
  BY <1>1, <1>11, Zenon DEF Ses
<1> HIDE DEF g, v
<1>6. v \in World /\ v.f = g /\ v.c = w.c
  BY <1>4, <1>5, WorldOf
<1>7. Moves(w.f, v.f)
  BY <1>5, <1>6, <1>11 DEF Moves
<1>8. Holds(g)
  <2>1. g.buf.data = data /\ g.file = file /\ g.pos = p
    BY <1>5, <1>11 DEF file, p
  <2>2. g.buf.data = Bytes(g.file, g.pos, Len(g.buf.data)) /\ g.pos + Len(g.buf.data) <= N
    BY <2>1, <1>3, <1>10
  <2> QED
    BY <2>2, <1>1, <1>5 DEF Holds
<1>9. Whole(v, H, X)
  BY <1>6, <1>7, <1>8, HoldsLeads
<1>12. Leads(w, v, H, X)
  BY <1>5, <1>6, <1>9 DEF Leads
<1> QED
  BY <1>12 DEF v

\* HandleExpect, DATA
LEMMA HandleDataLeads ==
    ASSUME NEW w, w.c \in Conn, Good(w), w.f.mode = "RETRIEVE", w.f.buf.on, NEW r \in Answer,
           Right(r), r.req.k = "READ", r.req.for = w.f.file
    PROVE  Leads(w, HandleData(w, r), {}, {})
<1> DEFINE slow == IF w.f.slow < MaxFlight THEN w.f.slow + 1 ELSE w.f.slow
           g == [w.f EXCEPT !.slow = slow]  v == [w EXCEPT !.f.slow = IF @ < MaxFlight THEN @ + 1 ELSE @]
           u == [v EXCEPT !.f.buf.data = @ \o r.data]
<1>1. w \in World /\ w.f \in Ses /\ w.f.slow \in Nat /\ Whole(w, {}, {})
  BY OnIsConn, SesFields DEF Good, Whole
<1>2. slow \in Nat
  BY <1>1
<1>3. v = [f |-> g, c |-> w.c]
  <2>1. v = [w EXCEPT !.f = g]
    BY Zenon
  <2> HIDE DEF g, v
  <2> QED
    BY <1>1, <2>1, OnIsConn, Zenon DEF World
<1> HIDE DEF slow
<1>4. /\ g \in Ses /\ g.mode = w.f.mode /\ g.file = w.f.file /\ g.handle = w.f.handle /\ g.buf = w.f.buf /\ g.eof = w.f.eof
      /\ g.next = w.f.next /\ g.info = w.f.info /\ g.state = w.f.state /\ g.pos = w.f.pos /\ g.ooo = w.f.ooo
  BY <1>1, <1>2, Zenon DEF Ses
<1> HIDE DEF g
<1>5. v \in World /\ v.f = g /\ v.c = w.c
  <2> HIDE DEF v
  <2> QED
    BY <1>3, <1>4, WorldOf
<1>d. HandleData(w, r) =
        IF r.t = "status" THEN IF r.code = "eof" THEN Eof(v, r.id) ELSE Fails(v, "NO_FILE")
        ELSE IF r.req.pos # w.f.pos + Len(w.f.buf.data)
        THEN IF Len(w.f.ooo) >= MaxOutOfOrder THEN Disconnect(v) ELSE [v EXCEPT !.f.ooo = Append(@, r)]
        ELSE IF w.f.eof THEN Eof(u, r.id) ELSE IF r.req.n > Len(r.data) THEN Short(u, r) ELSE u
  BY Zenon DEF HandleData
<1> HIDE DEF v
<1>6. Rests(w.f, v.f)
  BY <1>4, <1>5 DEF Rests, Moves
<1>7. Leads(w, v, {}, {})
  BY <1>1, <1>5, <1>6, RestsWhole
<1>8. /\ v.c \in Conn /\ Whole(v, {}, {}) /\ v.f.mode = "RETRIEVE" /\ v.f.buf.on /\ r.req.for = v.f.file
      /\ v.f.buf = w.f.buf /\ v.f.pos = w.f.pos /\ v.f.ooo = w.f.ooo /\ v.f.file = w.f.file
  BY <1>4, <1>5, <1>7 DEF Leads
<1>9. r.t = "status" \/ r.t = "data"
  BY AnswerFields DEF Right
<1>10. CASE r.t = "status" /\ r.code = "eof"
  <2>1. Leads(v, Eof(v, r.id), {}, {})
    BY <1>8, EofWhole
  <2> QED
    BY <2>1, <1>7, <1>10, <1>d DEF Leads
<1>11. CASE r.t = "status" /\ r.code # "eof"
  <2>1. Leads(v, Fails(v, "NO_FILE"), {}, {})
    BY <1>8, FailsWhole
  <2> QED
    BY <2>1, <1>7, <1>11, <1>d DEF Leads
<1>12. CASE r.t = "data" /\ r.req.pos # w.f.pos + Len(w.f.buf.data) /\ Len(w.f.ooo) >= MaxOutOfOrder
  <2>1. Leads(v, Disconnect(v), {}, {})
    BY <1>8, DisconnectLeads DEF Whole, Session
  <2> QED
    BY <2>1, <1>7, <1>12, <1>d DEF Leads
<1>13. CASE r.t = "data" /\ r.req.pos # w.f.pos + Len(w.f.buf.data) /\ ~(Len(w.f.ooo) >= MaxOutOfOrder)
  <2>1. Len(v.f.ooo) < MaxOutOfOrder
    BY <1>8, <1>13, <1>1, SesFields, LenProperties, Numbers
  <2>2. Leads(v, [v EXCEPT !.f.ooo = Append(@, r)], {}, {})
    BY <1>8, <1>13, <2>1, KeepLeads
  <2> QED
    BY <2>2, <1>7, <1>13, <1>d DEF Leads
<1>14. CASE r.t = "data" /\ r.req.pos = w.f.pos + Len(w.f.buf.data)
  <2>1. Leads(v, u, {}, {})
    BY <1>8, <1>14, TakeLeads
  <2>2. u.c = w.c /\ u.f.buf.on
    <3>1. u.c = v.c /\ u.f.buf.on = v.f.buf.on
      BY <1>5, <1>8, <1>1, OnIsConn, SesFields, Zenon DEF World, Ses, Buf
    <3> QED
      BY <3>1, <1>5, <1>8
  <2> HIDE DEF u
  <2>3. u.c \in Conn /\ Whole(u, {}, {}) /\ u.f.mode = "RETRIEVE"
    BY <1>8, <2>1, <2>2 DEF Leads
  <2>4. Leads(u, Eof(u, r.id), {}, {})
    BY <2>2, <2>3, EofWhole
  <2>5. ASSUME r.req.n > Len(r.data) PROVE Leads(u, Short(u, r), {}, {})
    <3>1. Len(r.data) <= r.req.n
      BY <1>14 DEF Right
    <3> QED
      BY <2>2, <2>3, <3>1, ShortLeads
  <2>6. HandleData(w, r) = IF w.f.eof THEN Eof(u, r.id) ELSE IF r.req.n > Len(r.data) THEN Short(u, r) ELSE u
    BY <1>d, <1>14
  <2> QED
    BY <2>1, <2>4, <2>5, <2>6, <1>7 DEF Leads
<1> QED
  BY <1>9, <1>10, <1>11, <1>12, <1>13, <1>14

\* What is missing is known by now.
LEMMA WholeAgain ==
    ASSUME NEW w, w.c \in Conn, NEW H, NEW X, Whole(w, H, X), NEW G, NEW Y,
           \A h \in w.c.handles : h \in H => h \in G \/ w.f.handle = h, Informed(w.f, w.c, Y)
    PROVE  Whole(w, G, Y)
<1>1. w.c.on /\ Joint(w, H, X) /\ w \in World /\ Session(w)
  BY ConnFields DEF Whole
<1>2. Kept(w.f, w.c, G)
  BY <1>1 DEF Joint, Kept
<1> QED
  BY <1>1, <1>2 DEF Whole, Joint

-----------------------------------------------------------------------------
(* The other answers.                                                      *)

\* HandleExpect, HANDLE: the session has its handle, and asks about the file that it reads.
LEMMA HandleHandleLeads ==
    ASSUME NEW w, w.c \in Conn, NEW r \in Answer, Whole(w, {r.h}, {}), Right(r),
           w.f.mode \in {"RETRIEVE", "STORE"}, w.f.state = "WAITING", ~w.f.buf.on, w.f.handle = NoHandle,
           \A i \in DOMAIN w.c.expect : w.c.expect[i].tag # "HANDLE"
    PROVE  Leads(w, HandleHandle(w, r), {}, {})
<1> DEFINE state == IF w.f.mode = "STORE" THEN "FILE_SEND" ELSE "FILE_RECV"
           b == [NoBuf EXCEPT !.on = TRUE]
           g == [w.f EXCEPT !.handle = r.h, !.state = state, !.buf = b, !.req_pos = w.f.pos]
           v == [w EXCEPT !.f.handle = r.h, !.f.state = IF w.f.mode = "STORE" THEN "FILE_SEND" ELSE "FILE_RECV",
                          !.f.buf = [NoBuf EXCEPT !.on = TRUE], !.f.req_pos = w.f.pos]
           q == OnHandle(v.f, "FSTAT", 0, 0)
<1>1. /\ w \in World /\ w.f \in Ses /\ w.f.pos \in Nat /\ r.h \in Nat /\ w.c.on /\ w.f.file \in File
      /\ Session(w) /\ Joint(w, {r.h}, {})
  BY OnIsConn, SesFields, AnswerFields, ConnFields DEF Whole
<1>2. CASE r.t # "handle"
  <2>1. 0 \notin w.c.handles /\ Informed(w.f, w.c, {})
    BY <1>1 DEF Joint, OnItsWay
  <2>2. r.h = 0
    BY <1>2 DEF Right, NoHandle
  <2>3. Whole(w, {}, {})
    BY <2>1, <2>2, WholeAgain
  <2>4. Leads(w, Fails(w, "NO_FILE"), {}, {})
    BY <2>3, FailsWhole
  <2> QED
    BY <2>4, <1>2 DEF HandleHandle
<1>3. CASE r.t = "handle"
  <2>1. b \in Buf /\ b.on = TRUE /\ b.data = <<>>
    <3>1. NoBuf \in Buf /\ NoBuf.data = <<>>
      BY DEF NoBuf, Buf
    <3>2. b \in Buf /\ b.on = TRUE /\ b.data = NoBuf.data
      BY <3>1, Zenon DEF Buf
    <3> QED
      BY <3>1, <3>2
  <2>2. state \in {"FILE_SEND", "FILE_RECV"} /\ (w.f.mode = "STORE" <=> state = "FILE_SEND")
    OBVIOUS
  <2>3. v = [f |-> g, c |-> w.c]
    <3>1. v = [w EXCEPT !.f = g]
      BY Zenon
    <3> HIDE DEF g, v
    <3> QED
      BY <1>1, <3>1, OnIsConn, Zenon DEF World
  <2>d. HandleHandle(w, r) = IF w.f.mode = "RETRIEVE" THEN Send(v, q, "INFO") ELSE v
    BY <1>3, Zenon DEF HandleHandle
  <2> HIDE DEF b, state
  <2>4. /\ g \in Ses /\ g.mode = w.f.mode /\ g.file = w.f.file /\ g.handle = r.h /\ g.buf = b
        /\ g.next = w.f.next /\ g.info = w.f.info /\ g.state = state /\ g.pos = w.f.pos /\ g.ooo = w.f.ooo
    BY <1>1, <2>1, <2>2, Zenon DEF Ses
  <2> HIDE DEF g, v, q
  <2>5. v \in World /\ v.f = g /\ v.c = w.c
    BY <2>3, <2>4, WorldOf
  <2>6. Phase(g)
    BY <2>4, <2>2, <2>1, <1>1 DEF Phase, AtRest
  <2>7. Holds(g)
    <3>1. w.f.pos <= N /\ w.f.ooo = <<>>
      BY <1>1 DEF Session, Holds, Phase
    <3>2. g.buf.data = Bytes(g.file, g.pos, 0) /\ Len(g.buf.data) = 0
      BY <1>1, <2>1, <2>4, BytesNone
    <3> QED
      BY <3>1, <3>2, <2>4, <1>1, Numbers DEF Holds
  <2>8. Known(g)
    BY <2>4, <2>2, <1>1 DEF Session, Known
  <2>9. Session(v)
    BY <2>5, <2>6, <2>7, <2>8, <2>4, <2>2, <1>1 DEF Session
  <2>10. Expects(g, w.c)
    <3>1. ASSUME NEW i \in DOMAIN w.c.expect PROVE Fits(g, w.c.expect[i])
      <4>1. Fits(w.f, w.c.expect[i]) /\ w.c.expect[i].tag # "HANDLE"
        BY <1>1 DEF Joint, Expects
      <4> QED
        BY <4>1, <2>4, <2>1 DEF Fits
    <3> QED
      BY <3>1, <1>1 DEF Joint, Expects
  <2>11. Kept(g, w.c, {})
    BY <2>4, <1>1 DEF Joint, Kept, NoHandle, OnItsWay
  <2>12. Informed(g, w.c, {})
    BY <2>4 DEF Informed
  <2>13. ~AtRest(g)
    BY <2>4, <2>2 DEF AtRest
  <2>14. Joint(v, {}, {})
    BY <2>5, <2>10, <2>11, <2>12, <2>13, <1>1 DEF Joint
  <2>15. Whole(v, {}, {})
    BY <2>5, <2>9, <2>14 DEF Whole
  <2>16. Leads(w, v, {}, {})
    BY <2>15, <2>4, <2>5 DEF Leads
  <2>17. ASSUME w.f.mode = "RETRIEVE" PROVE Leads(w, Send(v, q, "INFO"), {}, {})
    <3> DEFINE e == [req |-> q, tag |-> "INFO"]
    <3>1. q \in Req /\ q.k = "FSTAT"
      <4>1. v.f \in Ses
        BY <2>4, <2>5
      <4> QED
        BY <4>1, Requests DEF q
    <3>2. Fits(v.f, [req |-> q, tag |-> "INFO"])
      <4>1. e.req.k = "FSTAT" /\ e.tag = "INFO"
        BY <3>1
      <4> HIDE DEF e
      <4>2. Fits(v.f, e)
        BY <4>1, <2>4, <2>5, <2>17 DEF Fits
      <4> QED
        BY <4>2 DEF e
    <3>3. "INFO" \in Tag
      BY DEF Tag
    <3>4. Leads(v, Send(v, q, "INFO"), {}, {})
      BY <3>1, <3>2, <3>3, <2>5, <2>13, <2>15, SendLeads
    <3> QED
      BY <3>4, <2>16 DEF Leads
  <2> QED
    BY <2>16, <2>17, <2>d
<1> QED
  BY <1>2, <1>3

\* HandleExpect, INFO: what is known of a file is noted for it.
LEMMA HandleInfoLeads ==
    ASSUME NEW w, w.c \in Conn, NEW r \in Answer, Whole(w, {}, {r.req.pos}), Right(r),
           Fits(w.f, [req |-> r.req, tag |-> "INFO"]),
           r.req.k = "STAT" /\ r.t # "attrs" => <<r.req.for, r.req.pos>> \in w.c.refused
    PROVE  Leads(w, HandleInfo(w, r), {}, {})
<1> DEFINE e == [req |-> r.req, tag |-> "INFO"]
<1>1. /\ w \in World /\ w.f \in Ses /\ w.c.on /\ Session(w) /\ Joint(w, {}, {r.req.pos})
      /\ w.f.info \in SUBSET (Nat \X Nat) /\ r.req.pos \in Nat
  BY OnIsConn, SesFields, ConnFields, AnswerFields, ReqFields DEF Whole
<1>2. \/ w.f.mode = "RETRIEVE"
      \/ w.f.mode = "ARRAY_INFO" /\ w.f.state = "WAITING" /\ r.req.k = "STAT" /\ r.req.for = w.f.file
  <2>1. e.req = r.req /\ e.tag = "INFO" /\ Fits(w.f, e)
    OBVIOUS
  <2> HIDE DEF e
  <2> QED
    BY <2>1 DEF Fits
<1>3. CASE w.f.mode = "RETRIEVE"
  <2> DEFINE size == IF r.t = "attrs" THEN N ELSE -1
             g == [w.f EXCEPT !.size = size]  v == [w EXCEPT !.f.size = IF r.t = "attrs" THEN N ELSE -1]
  <2>1. size \in Int
    BY Numbers
  <2>2. v = [f |-> g, c |-> w.c]
    <3>1. v = [w EXCEPT !.f = g]
      BY Zenon
    <3> HIDE DEF g, v
    <3> QED
      BY <1>1, <3>1, OnIsConn, Zenon DEF World
  <2>3. HandleInfo(w, r) = v
    BY <1>3, Zenon DEF HandleInfo
  <2> HIDE DEF size
  <2>4. /\ g \in Ses /\ g.mode = w.f.mode /\ g.file = w.f.file /\ g.handle = w.f.handle /\ g.buf = w.f.buf
        /\ g.next = w.f.next /\ g.info = w.f.info /\ g.state = w.f.state /\ g.pos = w.f.pos /\ g.ooo = w.f.ooo
    BY <1>1, <2>1, Zenon DEF Ses
  <2> HIDE DEF g, v
  <2>5. v \in World /\ v.f = g /\ v.c = w.c
    BY <2>2, <2>4, WorldOf
  <2>6. Rests(w.f, v.f)
    BY <2>4, <2>5 DEF Rests, Moves
  <2>7. Whole(w, {}, {})
    <3>1. Informed(w.f, w.c, {})
      BY <1>3 DEF Informed
    <3> QED
      BY <3>1, WholeAgain
  <2>8. Leads(w, v, {}, {})
    BY <2>5, <2>6, <2>7, RestsWhole
  <2> QED
    BY <2>8, <2>3
<1>4. CASE w.f.mode = "ARRAY_INFO" /\ r.t # "attrs"
  <2>1. Informed(w.f, w.c, {})
    BY <1>1, <1>2, <1>4 DEF Joint, Informed
  <2>2. Whole(w, {}, {})
    BY <2>1, WholeAgain
  <2> QED
    BY <2>2, <1>4 DEF HandleInfo, Leads
<1>5. CASE w.f.mode = "ARRAY_INFO" /\ r.t = "attrs"
  <2> DEFINE info == w.f.info \cup {<<r.req.pos, r.of>>}
             g == [w.f EXCEPT !.info = info]  v == [w EXCEPT !.f.info = @ \cup {<<r.req.pos, r.of>>}]
  <2>1. r.of = r.req.pos /\ info \in SUBSET (Nat \X Nat) /\ <<r.req.pos, r.req.pos>> \in info /\ w.f.info \subseteq info
    BY <1>1, <1>5 DEF Right
  <2>2. v = [f |-> g, c |-> w.c]
    <3>1. v = [w EXCEPT !.f = g]
      BY Zenon
    <3> HIDE DEF g, v
    <3> QED
      BY <1>1, <3>1, OnIsConn, Zenon DEF World
  <2>3. HandleInfo(w, r) = v
    BY <1>5, Zenon DEF HandleInfo
  <2>9. \A i \in info : i[1] = i[2]
    BY <1>1, <2>1 DEF Session, Known
  <2> HIDE DEF info
  <2>4. /\ g \in Ses /\ g.mode = w.f.mode /\ g.file = w.f.file /\ g.handle = w.f.handle /\ g.buf = w.f.buf
        /\ g.next = w.f.next /\ g.info = info /\ g.state = w.f.state /\ g.pos = w.f.pos /\ g.ooo = w.f.ooo
    BY <1>1, <2>1, Zenon DEF Ses
  <2> HIDE DEF g, v
  <2>5. v \in World /\ v.f = g /\ v.c = w.c
    BY <2>2, <2>4, WorldOf
  <2>6. Session(v)
    <3>1. Phase(g)
      BY <1>1, <2>4 DEF Session, Phase, AtRest
    <3>2. Holds(g)
      BY <1>1, <2>4 DEF Session, Holds
    <3>3. Known(g)
      BY <1>1, <2>4, <2>9 DEF Session, Known
    <3> QED
      BY <3>1, <3>2, <3>3, <2>4, <2>5, <1>1 DEF Session
  <2>7. Joint(v, {}, {})
    <3>1. Expects(g, w.c)
      BY <1>1, <2>4 DEF Joint, Expects, Fits
    <3>2. Kept(g, w.c, {})
      BY <1>1, <2>4 DEF Joint, Kept
    <3>3. Informed(g, w.c, {})
      BY <1>1, <2>1, <2>4 DEF Joint, Informed
    <3>4. AtRest(g) = AtRest(w.f)
      BY <2>4 DEF AtRest
    <3> QED
      BY <3>1, <3>2, <3>3, <3>4, <2>5, <1>1 DEF Joint
  <2>8. Leads(w, v, {}, {})
    BY <2>4, <2>5, <2>6, <2>7 DEF Leads, Whole
  <2> QED
    BY <2>3, <2>8
<1> QED
  BY <1>2, <1>3, <1>4, <1>5

\* An answer that was expected as tag, and is no longer.
Due(w, r, tag) ==
    /\ Whole(w, IF tag \in {"HANDLE", "STALE"} THEN {r.h} ELSE {}, IF tag = "INFO" THEN {r.req.pos} ELSE {})
    /\ w.c \in Conn /\ r \in Answer /\ tag \in Tag /\ Right(r) /\ Fits(w.f, [req |-> r.req, tag |-> tag])
    /\ tag = "HANDLE" => \A i \in DOMAIN w.c.expect : w.c.expect[i].tag # "HANDLE"
    /\ AtRest(w.f) => tag \in {"IGNORE", "STALE"}
    /\ r.req.k = "STAT" /\ r.t # "attrs" => <<r.req.for, r.req.pos>> \in w.c.refused

\* HandleExpect: whatever the answer is to, it leaves the session as it should be.
LEMMA HandleExpectLeads ==
    ASSUME NEW w, NEW r, NEW tag, Due(w, r, tag)
    PROVE  Leads(w, HandleExpect(w, r, tag), {}, {})
<1> DEFINE e == [req |-> r.req, tag |-> tag]
<1>0. /\ w.c \in Conn /\ r \in Answer /\ tag \in Tag /\ Right(r) /\ Fits(w.f, [req |-> r.req, tag |-> tag])
      /\ AtRest(w.f) => tag \in {"IGNORE", "STALE"}
  BY DEF Due
<1>1. e.req = r.req /\ e.tag = tag /\ Fits(w.f, e)
  BY <1>0
<1> HIDE DEF e
<1>2. w \in World /\ w.f \in Ses
  BY OnIsConn DEF Due, Whole
<1>3. tag \notin {"HANDLE", "STALE", "INFO"} => Whole(w, {}, {})
  BY DEF Due
<1>4. CASE tag = "HANDLE"
  <2>1. /\ Whole(w, {r.h}, {}) /\ w.f.mode \in {"RETRIEVE", "STORE"} /\ w.f.state = "WAITING" /\ ~w.f.buf.on
        /\ w.f.handle = NoHandle /\ \A i \in DOMAIN w.c.expect : w.c.expect[i].tag # "HANDLE"
    BY <1>1, <1>4 DEF Due, Fits
  <2>2. Leads(w, HandleHandle(w, r), {}, {})
    BY <2>1, <1>0, HandleHandleLeads
  <2> QED
    BY <2>2, <1>4 DEF HandleExpect
<1>5. CASE tag = "STALE" /\ r.t = "handle"
  <2> DEFINE p == Request("CLOSE", r.req.for, 0, 0)  q == [p EXCEPT !.h = r.h]  d == [req |-> q, tag |-> "IGNORE"]
  <2>1. Whole(w, {r.h}, {})
    BY <1>5 DEF Due
  <2>2. r.req.for \in File /\ r.h \in Nat
    BY <1>0, AnswerFields, ReqFields
  <2>3. p \in Req /\ p.k = "CLOSE"
    BY <2>2 DEF Request, Req, NoHandle
  <2>d. HandleExpect(w, r, tag) = Send(w, q, "IGNORE")
    BY <1>5 DEF HandleExpect
  <2> HIDE DEF p
  <2>4. q \in Req /\ q.k = p.k /\ q.h = r.h
    BY <2>2, <2>3, Zenon DEF Req
  <2> HIDE DEF q
  <2>5. Fits(w.f, [req |-> q, tag |-> "IGNORE"])
    <3>1. d.req.k = "CLOSE" /\ d.tag = "IGNORE"
      BY <2>3, <2>4
    <3> HIDE DEF d
    <3>2. Fits(w.f, d)
      BY <3>1 DEF Fits
    <3> QED
      BY <3>2 DEF d
  <2>6. "IGNORE" \in Tag
    BY DEF Tag
  <2>7. \A h \in w.c.handles : h \in {r.h} => h \in {} \/ w.f.handle = h \/ (q.k = "CLOSE" /\ q.h = h)
    BY <2>3, <2>4
  <2>8. Leads(w, Send(w, q, "IGNORE"), {}, {})
    BY <1>0, <2>1, <2>4, <2>5, <2>6, <2>7, SendLeads
  <2> QED
    BY <2>8, <2>d
<1>6. CASE tag = "STALE" /\ r.t # "handle"
  <2>1. Whole(w, {r.h}, {}) /\ r.h = 0
    BY <1>6 DEF Due, Right, NoHandle
  <2>2. 0 \notin w.c.handles /\ Informed(w.f, w.c, {})
    BY <2>1, <1>0, ConnFields DEF Whole, Joint, OnItsWay
  <2>3. Whole(w, {}, {})
    BY <2>1, <2>2, <1>0, WholeAgain
  <2> QED
    BY <2>3, <1>6 DEF HandleExpect, Leads
<1>7. CASE tag = "DATA"
  <2>1. w.f.mode = "RETRIEVE" /\ w.f.buf.on /\ r.req.k = "READ" /\ r.req.for = w.f.file
    BY <1>1, <1>7 DEF Fits
  <2>2. Leads(w, HandleData(w, r), {}, {})
    BY <2>1, <1>0, <1>3, <1>7, HandleDataLeads DEF Good
  <2> QED
    BY <2>2, <1>7 DEF HandleExpect
<1>8. CASE tag = "INFO"
  <2>1. Whole(w, {}, {r.req.pos}) /\ Fits(w.f, [req |-> r.req, tag |-> "INFO"])
        /\ (r.req.k = "STAT" /\ r.t # "attrs" => <<r.req.for, r.req.pos>> \in w.c.refused)
    BY <1>8 DEF Due
  <2>2. Leads(w, HandleInfo(w, r), {}, {})
    BY <2>1, <1>0, HandleInfoLeads
  <2> QED
    BY <2>2, <1>8 DEF HandleExpect
<1>9. CASE tag = "WRITE_STATUS"
  <2>1. Leads(w, Fails(w, "NO_FILE"), {}, {}) /\ Leads(w, w, {}, {})
    BY <1>0, <1>3, <1>9, FailsWhole DEF Leads
  <2> QED
    BY <2>1, <1>9 DEF HandleExpect, HandleWritten
<1>10. CASE tag = "DEFAULT"
  <2> DEFINE g == [w.f EXCEPT !.state = "DONE"]  v == [w EXCEPT !.f.state = "DONE"]
  <2>1. w.f.mode = "REMOVE" \/ (w.f.mode = "STORE" /\ w.f.buf.on)
    BY <1>1, <1>10 DEF Fits
  <2>2. v = [f |-> g, c |-> w.c]
    <3>1. v = [w EXCEPT !.f = g]
      BY Zenon
    <3> HIDE DEF g, v
    <3> QED
      BY <1>2, <3>1, OnIsConn, Zenon DEF World
  <2>3. /\ g \in Ses /\ g.mode = w.f.mode /\ g.file = w.f.file /\ g.handle = w.f.handle /\ g.buf = w.f.buf
        /\ g.next = w.f.next /\ g.info = w.f.info /\ g.state = "DONE" /\ g.pos = w.f.pos /\ g.ooo = w.f.ooo
    BY <1>2, Zenon DEF Ses
  <2>d. HandleExpect(w, r, tag) = v \/ HandleExpect(w, r, tag) = Fails(w, "NO_FILE")
    BY <1>10 DEF HandleExpect
  <2> HIDE DEF g, v
  <2>4. v \in World /\ v.f = g /\ v.c = w.c
    BY <2>2, <2>3, <1>0, WorldOf
  <2>5. Rests(w.f, v.f)
    BY <2>1, <2>3, <2>4 DEF Rests, Moves
  <2>6. Leads(w, v, {}, {})
    BY <1>0, <1>3, <1>10, <2>4, <2>5, RestsWhole
  <2>7. Leads(w, Fails(w, "NO_FILE"), {}, {})
    BY <1>0, <1>3, <1>10, FailsWhole
  <2> QED
    BY <2>6, <2>7, <2>d
<1>11. CASE tag = "IGNORE"
  BY <1>3, <1>11 DEF HandleExpect, Leads
<1>12. tag \in {"HANDLE", "STALE", "DATA", "INFO", "WRITE_STATUS", "DEFAULT", "IGNORE"}
  BY <1>0 DEF Tag
<1> QED
  BY <1>12, <1>4, <1>5, <1>6, <1>7, <1>8, <1>9, <1>10, <1>11

-----------------------------------------------------------------------------
(* HandleReplies.                                                          *)

\* The packet at i is taken from the connection,
Without(w, i) == [w EXCEPT !.c.wire = SubSeq(@, 1, i - 1) \o SubSeq(@, i + 1, Len(@)),
                           !.c.expect = [j \in DOMAIN @ \ {w.c.wire[i].id} |-> @[j]]]

\* and what is to be made of it is due.
LEMMA PacketDue ==
    ASSUME NEW w, w.c \in Conn, Good(w), NEW i \in 1..Len(w.c.wire)
    PROVE  /\ Due(Without(w, i), w.c.wire[i], w.c.expect[w.c.wire[i].id].tag) /\ Without(w, i).f = w.f
           /\ [w.c.wire[i] EXCEPT !.req = w.c.expect[w.c.wire[i].id].req] = w.c.wire[i]
<1> DEFINE r == w.c.wire[i]  e == w.c.expect[r.id]  v == Without(w, i)
           wire == SubSeq(w.c.wire, 1, i - 1) \o SubSeq(w.c.wire, i + 1, Len(w.c.wire))
           D == DOMAIN w.c.expect \ {r.id}
           expect == [j \in D |-> w.c.expect[j]]
           c == [[w.c EXCEPT !.wire = wire] EXCEPT !.expect = expect]
           n == Len(w.c.wire)
<1>1. /\ w \in World /\ w.f \in Ses /\ w.c.on /\ w.c.wire \in Seq(Answer) /\ w.c.expect \in Queue /\ w.c.id \in Nat
      /\ Session(w) /\ OnItsWay(w.c) /\ Expects(w.f, w.c) /\ Kept(w.f, w.c, {}) /\ Informed(w.f, w.c, {})
      /\ (AtRest(w.f) => \A j \in DOMAIN w.c.expect : w.c.expect[j].tag \in {"IGNORE", "STALE"})
  BY OnIsConn, ConnFields DEF Good, Whole, Joint
<1>2. r \in Answer /\ r.id \in DOMAIN w.c.expect /\ e.req = r.req /\ Right(r) /\ e \in Expected
      /\ (r.req.k = "STAT" /\ r.t # "attrs" => <<r.req.for, r.req.pos>> \in w.c.refused)
  BY <1>1, ElementOfSeq, QueueHas DEF OnItsWay, Awaited, Answers
<1>3. e.tag \in Tag
  BY <1>2 DEF Expected
<1>4. [r EXCEPT !.req = e.req] = r
  BY <1>2, Zenon DEF Answer
<1>5. v = [f |-> w.f, c |-> c]
  <2>1. v = [w EXCEPT !.c = c]
    BY Zenon DEF Without
  <2> HIDE DEF c, v
  <2> QED
    BY <1>1, <2>1, OnIsConn, Zenon DEF World
<1> HIDE DEF v
<1>6. /\ wire \in Seq(Answer) /\ Len(wire) = n - 1 /\ n \in Nat
      /\ \A j \in 1..(n - 1) : wire[j] = IF j < i THEN w.c.wire[j] ELSE w.c.wire[j + 1]
  <2> DEFINE s == w.c.wire
  <2>1. s \in Seq(Answer) /\ i \in 1..Len(s) /\ wire = SubSeq(s, 1, i - 1) \o SubSeq(s, i + 1, Len(s))
    BY <1>1
  <2> HIDE DEF s, wire
  <2>2. /\ wire \in Seq(Answer) /\ Len(wire) = Len(s) - 1 /\ Len(s) \in Nat
        /\ \A j \in 1..(Len(s) - 1) : wire[j] = IF j < i THEN s[j] ELSE s[j + 1]
    BY <2>1, TakenOut
  <2> QED
    BY <2>2 DEF s
<1>7. expect \in Queue /\ DOMAIN expect = D /\ \A j \in D : expect[j] = w.c.expect[j]
  <2>1. D \subseteq Nat /\ (\A j \in D : expect[j] \in Expected) /\ expect = [j \in D |-> expect[j]]
    BY <1>1, QueueHas
  <2> QED
    BY <2>1, QueueIs
<1> HIDE DEF wire, expect, D, n
<1>8. /\ c \in Conn /\ c.on = w.c.on /\ c.net = w.c.net /\ c.out = w.c.out /\ c.handles = w.c.handles /\ c.refused = w.c.refused
      /\ c.id = w.c.id /\ c.wire = wire /\ c.expect = expect
  BY <1>1, <1>6, <1>7, Zenon DEF Conn
<1> HIDE DEF c
<1>9. v \in World /\ v.f = w.f /\ v.c = c
  <2>1. [f |-> w.f, c |-> c] \in World /\ [f |-> w.f, c |-> c].f = w.f /\ [f |-> w.f, c |-> c].c = c
    BY <1>1, <1>8, WorldOf
  <2> QED
    BY <2>1, <1>5, Zenon
<1>10. i \in 1..n /\ \A j \in 1..Len(wire) : \E k \in 1..n : k # i /\ wire[j] = w.c.wire[k] /\ k = IF j < i THEN j ELSE j + 1
  <2>1. i \in 1..n
    BY DEF n
  <2>2. ASSUME NEW j \in 1..Len(wire) PROVE \E k \in 1..n : k # i /\ wire[j] = w.c.wire[k] /\ k = IF j < i THEN j ELSE j + 1
    <3>1. j \in 1..(n - 1)
      BY <1>6
    <3>2. CASE j < i
      <4>1. j \in 1..n /\ j # i /\ wire[j] = w.c.wire[j]
        BY <2>1, <3>1, <3>2, <1>6
      <4> QED
        BY <4>1, <3>2
    <3>3. CASE ~(j < i)
      <4>1. j + 1 \in 1..n /\ j + 1 # i /\ wire[j] = w.c.wire[j + 1]
        BY <2>1, <3>1, <3>3, <1>6
      <4> QED
        BY <4>1, <3>3
    <3> QED
      BY <3>2, <3>3
  <2> QED
    BY <2>1, <2>2
<1>11. \A k \in 1..n : w.c.wire[k].id \in DOMAIN w.c.expect /\ w.c.wire[k].id \in Nat /\ (k # i => w.c.wire[k].id # r.id)
  <2> SUFFICES ASSUME NEW k \in 1..n
               PROVE  w.c.wire[k].id \in DOMAIN w.c.expect /\ w.c.wire[k].id \in Nat /\ (k # i => w.c.wire[k].id # r.id)
    OBVIOUS
  <2>1. w.c.wire[k].id \in DOMAIN w.c.expect /\ w.c.wire[k].id \in Nat /\ w.c.wire[i].id \in Nat
    BY <1>1, <1>10, QueueHas DEF OnItsWay, Awaited, n
  <2>2. k < i => w.c.wire[k].id < w.c.wire[i].id
    BY <1>1, <1>10 DEF OnItsWay, InOrder, n
  <2>3. i < k => w.c.wire[i].id < w.c.wire[k].id
    BY <1>1, <1>10 DEF OnItsWay, InOrder, n
  <2> QED
    BY <2>1, <2>2, <2>3, <1>6, <1>10
<1>12. OnItsWay(c)
  <2>1. Numbered(c)
    BY <1>1, <1>7, <1>8 DEF OnItsWay, Numbered, D
  <2>2. ASSUME NEW j \in 1..Len(c.out) PROVE c.out[j].id \in DOMAIN c.expect /\ c.expect[c.out[j].id].req = c.out[j].req
    <3>1. j \in 1..Len(w.c.out) /\ w.c.out[j].id \in DOMAIN w.c.expect /\ w.c.expect[w.c.out[j].id].req = w.c.out[j].req
      BY <1>1, <1>8 DEF OnItsWay, Awaited
    <3>2. w.c.wire[i].id < w.c.out[j].id
      BY <3>1, <1>1 DEF OnItsWay, InOrder
    <3>3. w.c.out[j].id # r.id
      BY <3>1, <3>2, <1>11, <1>10, <1>1, QueueHas
    <3>4. w.c.out[j].id \in D
      BY <3>1, <3>3 DEF D
    <3> QED
      BY <3>1, <3>4, <1>7, <1>8
  <2>3. ASSUME NEW j \in 1..Len(c.wire) PROVE c.wire[j].id \in DOMAIN c.expect /\ c.expect[c.wire[j].id].req = c.wire[j].req
    <3>1. PICK k \in 1..n : k # i /\ c.wire[j] = w.c.wire[k]
      BY <1>8, <1>10
    <3>2. w.c.wire[k].id \in D /\ w.c.expect[w.c.wire[k].id].req = w.c.wire[k].req
      BY <3>1, <1>1, <1>11 DEF OnItsWay, Awaited, n, D
    <3> QED
      BY <3>1, <3>2, <1>7, <1>8
  <2>4. Answers(c)
    <3> SUFFICES ASSUME NEW j \in 1..Len(c.wire)
                 PROVE  Right(c.wire[j]) /\ (c.wire[j].req.k = "STAT" /\ c.wire[j].t # "attrs" => <<c.wire[j].req.for, c.wire[j].req.pos>> \in c.refused)
      BY DEF Answers
    <3>1. PICK k \in 1..n : k # i /\ c.wire[j] = w.c.wire[k]
      BY <1>8, <1>10
    <3> QED
      BY <3>1, <1>1, <1>8 DEF OnItsWay, Answers, n
  <2>5. InOrder(c)
    <3>1. ASSUME NEW j \in 1..Len(c.wire), NEW l \in 1..Len(c.wire), j < l PROVE c.wire[j].id < c.wire[l].id
      <4>1. PICK k \in 1..n : c.wire[j] = w.c.wire[k] /\ k = IF j < i THEN j ELSE j + 1
        BY <1>8, <1>10
      <4>2. PICK m \in 1..n : c.wire[l] = w.c.wire[m] /\ m = IF l < i THEN l ELSE l + 1
        BY <1>8, <1>10
      <4>3. k < m
        <5>1. j \in Int /\ l \in Int /\ i \in Int
          OBVIOUS
        <5> QED
          BY <5>1, <4>1, <4>2, <3>1
      <4> QED
        BY <4>1, <4>2, <4>3, <1>1 DEF OnItsWay, InOrder, n
    <3>2. ASSUME NEW j \in 1..Len(c.wire), NEW l \in 1..Len(c.out) PROVE c.wire[j].id < c.out[l].id
      <4>1. PICK k \in 1..n : c.wire[j] = w.c.wire[k]
        BY <1>8, <1>10
      <4> QED
        BY <4>1, <1>1, <1>8 DEF OnItsWay, InOrder, n
    <3> QED
      BY <3>1, <3>2, <1>1, <1>8 DEF OnItsWay, InOrder
  <2> QED
    BY <2>1, <2>2, <2>3, <2>4, <2>5, <1>1, <1>8 DEF OnItsWay, Awaited
<1>13. Expects(w.f, c)
  BY <1>1, <1>7, <1>8 DEF Expects, D
<1>14. Kept(w.f, c, IF e.tag \in {"HANDLE", "STALE"} THEN {r.h} ELSE {})
  <2> DEFINE H == IF e.tag \in {"HANDLE", "STALE"} THEN {r.h} ELSE {}
  <2>0. e.tag \in {"HANDLE", "STALE"} => r.h \in H
    OBVIOUS
  <2> HIDE DEF H
  <2> SUFFICES ASSUME c.net # "lost", NEW h \in c.handles
               PROVE  \/ w.f.handle = h \/ h \in H
                      \/ \E j \in 1..Len(c.out) : c.out[j].req.k = "CLOSE" /\ c.out[j].req.h = h
                      \/ \E j \in 1..Len(c.wire) : c.wire[j].h = h /\ c.expect[c.wire[j].id].tag \in {"HANDLE", "STALE"}
    BY DEF Kept, H
  <2>1. \/ w.f.handle = h
        \/ \E j \in 1..Len(w.c.out) : w.c.out[j].req.k = "CLOSE" /\ w.c.out[j].req.h = h
        \/ \E j \in 1..Len(w.c.wire) : w.c.wire[j].h = h /\ w.c.expect[w.c.wire[j].id].tag \in {"HANDLE", "STALE"}
    BY <1>1, <1>8 DEF Kept
  <2>2. CASE \E j \in 1..Len(w.c.wire) : w.c.wire[j].h = h /\ w.c.expect[w.c.wire[j].id].tag \in {"HANDLE", "STALE"}
    <3>1. PICK k \in 1..n : w.c.wire[k].h = h /\ w.c.expect[w.c.wire[k].id].tag \in {"HANDLE", "STALE"}
      BY <2>2 DEF n
    <3>2. CASE k = i
      BY <3>1, <3>2, <2>0
    <3>3. CASE k # i
      <4> DEFINE j == IF k < i THEN k ELSE k - 1
      <4>1. j \in 1..Len(wire) /\ wire[j] = w.c.wire[k]
        <5>1. CASE k < i
          <6>1. k \in 1..(n - 1) /\ j = k
            BY <5>1, <1>10, <1>6
          <6> QED
            BY <6>1, <5>1, <1>6
        <5>2. CASE ~(k < i)
          <6>1. k - 1 \in 1..(n - 1) /\ j = k - 1 /\ ~(j < i) /\ j + 1 = k
            BY <5>2, <3>3, <1>10, <1>6
          <6> QED
            BY <6>1, <1>6
        <5> QED
          BY <5>1, <5>2
      <4> HIDE DEF j
      <4>2. w.c.wire[k].id \in D
        BY <3>3, <1>11 DEF D
      <4>3. c.wire[j].h = h /\ c.expect[c.wire[j].id].tag \in {"HANDLE", "STALE"} /\ j \in 1..Len(c.wire)
        BY <4>1, <4>2, <3>1, <1>7, <1>8
      <4> QED
        BY <4>3
    <3> QED
      BY <3>2, <3>3
  <2> QED
    BY <2>1, <2>2, <1>8
<1>15. Informed(w.f, c, IF e.tag = "INFO" THEN {r.req.pos} ELSE {})
  <2> DEFINE X == IF e.tag = "INFO" THEN {r.req.pos} ELSE {}
  <2>0. e.tag = "INFO" => r.req.pos \in X
    OBVIOUS
  <2> HIDE DEF X
  <2> SUFFICES ASSUME w.f.mode = "ARRAY_INFO", NEW k \in 1..(w.f.next - 1)
               PROVE  \/ <<k, k>> \in w.f.info \/ k \in X
                      \/ <<w.f.file, k>> \in c.refused
                      \/ \E j \in DOMAIN c.expect : c.expect[j].tag = "INFO" /\ c.expect[j].req.pos = k
    BY DEF Informed, X
  <2>1. \/ <<k, k>> \in w.f.info
        \/ <<w.f.file, k>> \in c.refused
        \/ \E j \in DOMAIN w.c.expect : w.c.expect[j].tag = "INFO" /\ w.c.expect[j].req.pos = k
    BY <1>1, <1>8 DEF Informed
  <2>2. CASE \E j \in DOMAIN w.c.expect : w.c.expect[j].tag = "INFO" /\ w.c.expect[j].req.pos = k
    <3>1. PICK j \in DOMAIN w.c.expect : w.c.expect[j].tag = "INFO" /\ w.c.expect[j].req.pos = k
      BY <2>2
    <3>2. CASE j = r.id
      BY <3>1, <3>2, <2>0, <1>2
    <3>3. CASE j # r.id
      <4>1. j \in D
        BY <3>3 DEF D
      <4> QED
        BY <4>1, <3>1, <1>7, <1>8
    <3> QED
      BY <3>2, <3>3
  <2> QED
    BY <2>1, <2>2
<1>16. AtRest(w.f) => \A j \in DOMAIN c.expect : c.expect[j].tag \in {"IGNORE", "STALE"}
  BY <1>1, <1>7, <1>8 DEF D
<1>17. Session(v)
  BY <1>1, <1>8, <1>9, ConnFields DEF Session
<1>18. Whole(v, IF e.tag \in {"HANDLE", "STALE"} THEN {r.h} ELSE {}, IF e.tag = "INFO" THEN {r.req.pos} ELSE {})
  BY <1>9, <1>12, <1>13, <1>14, <1>15, <1>16, <1>17 DEF Whole, Joint
<1>19. Fits(w.f, [req |-> r.req, tag |-> e.tag])
  <2>1. [req |-> r.req, tag |-> e.tag] = e
    BY <1>2, Zenon DEF Expected
  <2> QED
    BY <2>1, <1>1, <1>2 DEF Expects
<1>20. e.tag = "HANDLE" => \A j \in DOMAIN c.expect : c.expect[j].tag # "HANDLE"
  <2> SUFFICES ASSUME e.tag = "HANDLE", NEW j \in DOMAIN c.expect PROVE c.expect[j].tag # "HANDLE"
    OBVIOUS
  <2>1. j \in DOMAIN w.c.expect /\ j # r.id /\ c.expect[j] = w.c.expect[j]
    BY <1>7, <1>8 DEF D
  <2>2. r.id \in DOMAIN w.c.expect /\ w.c.expect[r.id].tag = "HANDLE"
    BY <1>2
  <2>3. \A k, l \in DOMAIN w.c.expect : w.c.expect[k].tag = "HANDLE" /\ w.c.expect[l].tag = "HANDLE" => k = l
    BY <1>1 DEF Expects
  <2> QED
    BY <2>1, <2>2, <2>3
<1>21. Due(v, r, e.tag)
  <2>1. v.f = w.f /\ v.c = c /\ c \in Conn /\ c.refused = w.c.refused
    BY <1>8, <1>9
  <2>2. AtRest(w.f) => e.tag \in {"IGNORE", "STALE"}
    BY <1>1, <1>2
  <2>3. r \in Answer /\ Right(r) /\ (r.req.k = "STAT" /\ r.t # "attrs" => <<r.req.for, r.req.pos>> \in w.c.refused)
    BY <1>2
  <2> HIDE DEF r, e
  <2> QED
    BY <2>1, <2>2, <2>3, <1>3, <1>18, <1>19, <1>20, Zenon DEF Due
<1> HIDE DEF r, e
<1> QED
  BY <1>4, <1>9, <1>21, Zenon DEF r, e, v

\* HandleReplies, an answer that was kept and whose turn has come: it leaves its place, and is due.
LEMMA OutOfOrderLeads ==
    ASSUME NEW w, w.c \in Conn, Good(w)
    PROVE  Leads(w, OutOfOrder(w), {}, {})
<1> DEFINE f == w.f
           at == {i \in DOMAIN f.ooo : f.ooo[i].req.pos = f.pos + Len(f.buf.data)}
           i == CHOOSE i \in at : \A j \in at : i <= j
           r == f.ooo[i]
           ooo == SubSeq(f.ooo, 1, i - 1) \o SubSeq(f.ooo, i + 1, Len(f.ooo))
           g == [f EXCEPT !.ooo = ooo]
           v == [w EXCEPT !.f.ooo = SubSeq(@, 1, i - 1) \o SubSeq(@, i + 1, Len(@))]
<1>1. w \in World /\ f \in Ses /\ f.ooo \in Seq(Answer) /\ Session(w) /\ w.c.on /\ Whole(w, {}, {})
  BY OnIsConn, SesFields, ConnFields DEF Good, Whole
<1>d. OutOfOrder(w) = IF ~f.buf.on \/ at = {} THEN w ELSE HandleExpect(v, r, "DATA")
  BY Zenon DEF OutOfOrder
<1>2. CASE ~f.buf.on \/ at = {}
  BY <1>1, <1>2, <1>d DEF Leads
<1>3. CASE f.buf.on /\ at # {}
  <2>1. at \subseteq 1..Len(f.ooo) /\ Len(f.ooo) \in Nat
    BY <1>1, LenProperties, Zenon
  <2>2. \E m \in at : \A x \in at : m <= x
    <3> HIDE DEF at
    <3>1. at \in SUBSET Nat
      BY <2>1
    <3> QED
      BY <3>1, <1>3, Least
  <2>3. i \in at
    BY <2>2
  <2> HIDE DEF at, i
  <2>4. i \in 1..Len(f.ooo)
    BY <2>1, <2>3
  <2>5. f.mode = "RETRIEVE" /\ r.t = "data" /\ Right(r) /\ r.req.for = f.file /\ r.req.k = "READ"
    BY <1>1, <2>4 DEF Session, Holds, Right
  <2>6. r \in Answer
    BY <1>1, <2>4, ElementOfSeq
  <2>7. /\ ooo \in Seq(Answer) /\ Len(ooo) = Len(f.ooo) - 1
        /\ \A j \in 1..(Len(f.ooo) - 1) : ooo[j] = IF j < i THEN f.ooo[j] ELSE f.ooo[j + 1]
    <3> DEFINE s == f.ooo
    <3>1. s \in Seq(Answer) /\ i \in 1..Len(s) /\ ooo = SubSeq(s, 1, i - 1) \o SubSeq(s, i + 1, Len(s))
      BY <1>1, <2>4
    <3> HIDE DEF s, ooo
    <3>2. /\ ooo \in Seq(Answer) /\ Len(ooo) = Len(s) - 1 /\ Len(s) \in Nat
          /\ \A j \in 1..(Len(s) - 1) : ooo[j] = IF j < i THEN s[j] ELSE s[j + 1]
      BY <3>1, TakenOut
    <3> QED
      BY <3>2 DEF s
  <2>8. v = [f |-> g, c |-> w.c]
    <3>1. v = [w EXCEPT !.f = g]
      BY Zenon
    <3> HIDE DEF g, v
    <3> QED
      BY <1>1, <3>1, OnIsConn, Zenon DEF World
  <2> HIDE DEF ooo
  <2>9. /\ g \in Ses /\ g.mode = f.mode /\ g.file = f.file /\ g.handle = f.handle /\ g.buf = f.buf
        /\ g.next = f.next /\ g.info = f.info /\ g.state = f.state /\ g.pos = f.pos /\ g.ooo = ooo
    BY <1>1, <2>7, Zenon DEF Ses
  <2> HIDE DEF g, v, r
  <2>10. v \in World /\ v.f = g /\ v.c = w.c
    BY <2>8, <2>9, WorldOf
  <2>11. Moves(f, g)
    BY <2>9 DEF Moves
  <2>12. Holds(g)
    <3>1. ASSUME NEW j \in 1..Len(ooo) PROVE ooo[j].t = "data" /\ Right(ooo[j]) /\ ooo[j].req.for = f.file
      <4>1. j \in 1..(Len(f.ooo) - 1)
        BY <2>7
      <4>2. \E k \in 1..Len(f.ooo) : ooo[j] = f.ooo[k]
        <5>1. CASE j < i
          <6>1. j \in 1..Len(f.ooo)
            BY <4>1, <2>1
          <6> QED
            BY <6>1, <5>1, <4>1, <2>7
        <5>2. CASE ~(j < i)
          <6>1. j + 1 \in 1..Len(f.ooo)
            BY <4>1, <2>1
          <6> QED
            BY <6>1, <5>2, <4>1, <2>7
        <5> QED
          BY <5>1, <5>2
      <4> QED
        BY <4>2, <1>1 DEF Session, Holds
    <3>2. Len(ooo) <= MaxOutOfOrder
      <4>1. Len(f.ooo) <= MaxOutOfOrder
        BY <1>1 DEF Session, Holds
      <4> QED
        BY <4>1, <2>1, <2>7, Numbers
    <3> QED
      BY <3>1, <3>2, <2>5, <2>9, <1>1 DEF Session, Holds
  <2>13. Whole(v, {}, {})
    BY <1>1, <1>3, <2>10, <2>11, <2>12, HoldsLeads
  <2>14. Due(v, r, "DATA")
    <3> DEFINE e == [req |-> r.req, tag |-> "DATA"]
    <3>1. e.req = r.req /\ e.tag = "DATA"
      OBVIOUS
    <3> HIDE DEF e
    <3>2. Fits(v.f, e)
      BY <3>1, <2>5, <2>9, <2>10, <1>3 DEF Fits
    <3>3. ~AtRest(v.f)
      <4>1. AtRest(f) <=> AtRest(g)
        BY <2>9 DEF AtRest
      <4> QED
        BY <4>1, <2>10, <1>1, <1>3 DEF Session, Phase
    <3>4. "DATA" \in Tag /\ "DATA" \notin {"HANDLE", "STALE", "INFO"} /\ w.c \in Conn
      BY DEF Tag
    <3> QED
      BY <3>2, <3>3, <3>4, <2>5, <2>6, <2>10, <2>13 DEF Due, e
  <2>15. Leads(v, HandleExpect(v, r, "DATA"), {}, {})
    BY <2>14, HandleExpectLeads
  <2> QED
    BY <2>15, <2>9, <2>10, <1>3, <1>d DEF Leads
<1> QED
  BY <1>2, <1>3

\* HandleReplies, the end
LEMMA LateEofLeads ==
    ASSUME NEW w, Good(w)
    PROVE  Leads(w, LateEof(w), {}, {})
<1> DEFINE b == [w.f.buf EXCEPT !.eof = TRUE]  g == [w.f EXCEPT !.buf = b]  v == [w EXCEPT !.f.buf.eof = TRUE]
<1>1. w \in World /\ w.f \in Ses /\ w.f.buf \in Buf /\ Whole(w, {}, {}) /\ Session(w) /\ (w.c \in Conn <=> w.c.on)
  BY OnIsConn, SesFields DEF Good, Whole
<1>2. CASE w.f.buf.on
  <2>1. w.c \in Conn
    BY <1>1, <1>2 DEF Session, Phase, AtRest
  <2>2. v = [f |-> g, c |-> w.c]
    <3>1. v = [w EXCEPT !.f = g]
      BY Zenon
    <3> HIDE DEF g, v
    <3> QED
      BY <1>1, <3>1, OnIsConn, Zenon DEF World
  <2>3. b \in Buf /\ b.on = w.f.buf.on /\ b.data = w.f.buf.data
    BY <1>1, Zenon DEF Buf
  <2>d. LateEof(w) = v \/ LateEof(w) = w
    BY Zenon DEF LateEof
  <2> HIDE DEF b
  <2>4. /\ g \in Ses /\ g.mode = w.f.mode /\ g.file = w.f.file /\ g.handle = w.f.handle /\ g.buf = b
        /\ g.next = w.f.next /\ g.info = w.f.info /\ g.state = w.f.state /\ g.pos = w.f.pos /\ g.ooo = w.f.ooo
    BY <1>1, <2>3, Zenon DEF Ses
  <2> HIDE DEF g, v
  <2>5. v \in World /\ v.f = g /\ v.c = w.c
    BY <2>1, <2>2, <2>4, WorldOf
  <2>6. Rests(w.f, v.f)
    BY <2>3, <2>4, <2>5, <1>2 DEF Rests, Moves
  <2>7. Leads(w, v, {}, {}) /\ Leads(w, w, {}, {})
    <3>1. Leads(w, v, {}, {})
      BY <1>1, <2>1, <2>5, <2>6, RestsWhole
    <3> QED
      BY <3>1, <1>1 DEF Leads
  <2> QED
    BY <2>7, <2>d
<1>3. CASE ~w.f.buf.on
  BY <1>1, <1>3 DEF LateEof, Leads
<1> QED
  BY <1>2, <1>3

\* HandleReplies: an answer, or none, or the loss of the connection
LEMMA HandleRepliesLeads ==
    ASSUME NEW w, w.c \in Conn, Good(w), NEW u \in HandleReplies(w)
    PROVE  Leads(w, u, {}, {})
<1> DEFINE v == LateEof(OutOfOrder(w))
<1>1. Leads(w, v, {}, {})
  <2>1. Leads(w, OutOfOrder(w), {}, {})
    BY OutOfOrderLeads
  <2>2. Leads(OutOfOrder(w), v, {}, {})
    BY <2>1, LateEofLeads DEF Leads, Good
  <2> HIDE DEF v
  <2> QED
    BY <2>1, <2>2 DEF Leads
<1>2. \/ u = v
      \/ u = Disconnect(v)
      \/ v.c.on /\ \E i \in DOMAIN v.c.wire : u = HandlePacket(v, i)
  BY DEF HandleReplies
<1> HIDE DEF v
<1>3. v \in World /\ Whole(v, {}, {})
  BY <1>1 DEF Leads, Whole
<1>4. CASE u = v
  BY <1>1, <1>4
<1>5. CASE u = Disconnect(v)
  <2>1. Leads(v, u, {}, {})
    BY <1>3, <1>5, DisconnectLeads DEF Whole, Session
  <2> QED
    BY <2>1, <1>1 DEF Leads
<1>6. CASE v.c.on /\ \E i \in DOMAIN v.c.wire : u = HandlePacket(v, i)
  <2>1. PICK i \in DOMAIN v.c.wire : u = HandlePacket(v, i)
    BY <1>6
  <2>2. v.c \in Conn
    BY <1>3, <1>6, OnIsConn
  <2>3. i \in 1..Len(v.c.wire)
    BY <2>2, ConnFields, LenProperties
  <2> DEFINE r == v.c.wire[i]  e == v.c.expect[v.c.wire[i].id]  x == Without(v, i)
  <2>d. u = HandleExpect(x, [r EXCEPT !.req = e.req], e.tag)
    BY <2>1, Zenon DEF HandlePacket, Without
  <2>6. Due(x, r, e.tag) /\ x.f = v.f /\ [r EXCEPT !.req = e.req] = r
    BY <1>3, <2>2, <2>3, PacketDue, Zenon DEF Good
  <2> HIDE DEF r, e, x
  <2>7. Leads(x, HandleExpect(x, r, e.tag), {}, {})
    BY <2>6, HandleExpectLeads
  <2>8. u = HandleExpect(x, r, e.tag)
    BY <2>d, <2>6, Zenon
  <2>9. Leads(x, u, {}, {})
    BY <2>7, <2>8
  <2> QED
    BY <2>6, <2>9, <1>1, Zenon DEF Leads
<1> QED
  BY <1>2, <1>4, <1>5, <1>6

-----------------------------------------------------------------------------
(* Handles that are closed, and operations that begin and end.             *)

\* CloseHandle: the session forgets the handle as it asks the server to close it.
LEMMA CloseHandleLeads ==
    ASSUME NEW w, w.c \in Conn, NEW X, Whole(w, {}, X), NEW tag \in {"DEFAULT", "IGNORE"},
           tag = "DEFAULT" => w.f.mode = "STORE" /\ w.f.buf.on
    PROVE  /\ Leads(w, CloseHandle(w, tag), {}, X) /\ CloseHandle(w, tag).f.handle = NoHandle /\ CloseHandle(w, tag).c \in Conn
           /\ CloseHandle(w, tag).f.buf = w.f.buf /\ CloseHandle(w, tag).f.state = w.f.state
           /\ \A i \in DOMAIN CloseHandle(w, tag).c.expect :
                CloseHandle(w, tag).c.expect[i].tag = tag \/ \E j \in DOMAIN w.c.expect : w.c.expect[j].tag = CloseHandle(w, tag).c.expect[i].tag
<1> DEFINE q == OnHandle(w.f, "CLOSE", 0, 0)  u == Send(w, q, tag)  g == [w.f EXCEPT !.handle = NoHandle]
           v == [Send(w, q, tag) EXCEPT !.f.handle = NoHandle]  e == [req |-> q, tag |-> tag]
<1>1. /\ w \in World /\ w.f \in Ses /\ Session(w) /\ w.c.on /\ OnItsWay(w.c) /\ Expects(w.f, w.c) /\ Kept(w.f, w.c, {})
      /\ Informed(w.f, w.c, X) /\ (AtRest(w.f) => \A j \in DOMAIN w.c.expect : w.c.expect[j].tag \in {"IGNORE", "STALE"})
  BY OnIsConn, ConnFields DEF Whole, Joint
<1>2. CASE w.f.handle = NoHandle
  BY <1>2 DEF CloseHandle, Leads
<1>3. CASE w.f.handle # NoHandle
  <2>d. CloseHandle(w, tag) = v
    BY <1>3, Zenon DEF CloseHandle
  <2>1. q \in Req /\ q.k = "CLOSE" /\ q.h = w.f.handle
    BY <1>1, Requests
  <2> HIDE DEF q
  <2>2. Fits(w.f, [req |-> q, tag |-> tag])
    <3>1. e.req = q /\ e.tag = tag
      OBVIOUS
    <3> HIDE DEF e
    <3>2. Fits(w.f, e)
      BY <2>1, <3>1 DEF Fits
    <3> QED
      BY <3>2 DEF e
  <2>3. tag \in Tag /\ tag # "HANDLE"
    BY DEF Tag
  <2>4. ~AtRest(w.f)
    BY <1>1, <1>3 DEF Session, Phase
  <2>5. Leads(w, u, {}, X) /\ Sends(w, q, tag, u)
    BY <2>1, <2>2, <2>3, <2>4, SendLeads
  <2>6. v = [f |-> g, c |-> u.c]
    <3>1. u \in World /\ u.f = w.f
      BY <2>5 DEF Sends
    <3> HIDE DEF u
    <3>2. v = [u EXCEPT !.f.handle = NoHandle]
      BY Zenon DEF u
    <3>3. v = [u EXCEPT !.f = g]
      BY <3>1, <3>2, Zenon
    <3> HIDE DEF g, v
    <3> QED
      BY <3>1, <3>3, OnIsConn, Zenon DEF World
  <2> HIDE DEF u
  <2>7. NoHandle \in Nat
    BY DEF NoHandle
  <2>8. /\ g \in Ses /\ g.mode = w.f.mode /\ g.file = w.f.file /\ g.handle = NoHandle /\ g.buf = w.f.buf
        /\ g.next = w.f.next /\ g.info = w.f.info /\ g.state = w.f.state /\ g.pos = w.f.pos /\ g.ooo = w.f.ooo
    BY <1>1, <2>7, Zenon DEF Ses
  <2> HIDE DEF g, v
  <2>9. u.c \in Conn /\ u.f = w.f
    BY <2>5 DEF Sends
  <2>10. v \in World /\ v.f = g /\ v.c = u.c
    BY <2>6, <2>8, <2>9, WorldOf
  <2>11. u.c.on /\ OnItsWay(u.c) /\ Expects(w.f, u.c) /\ Informed(w.f, u.c, X)
    BY <2>5, <2>9, ConnFields DEF Leads, Whole, Joint
  <2>12. Expects(g, u.c)
    BY <2>8, <2>11 DEF Expects, Fits
  <2>13. Kept(g, u.c, {})
    <3> DEFINE f == w.f  none == {}
    <3>1. \A h \in w.c.handles : h \in none \/ f.handle = h => h \in none \/ g.handle = h \/ (q.k = "CLOSE" /\ q.h = h)
      BY <2>1
    <3>2. /\ w \in World /\ w.c \in Conn /\ q \in Req /\ tag \in Tag /\ OnItsWay(w.c) /\ Kept(f, w.c, none)
          /\ Sends(w, q, tag, u)
      BY <1>1, <2>1, <2>3, <2>5
    <3> HIDE DEF f, none
    <3>3. Kept(g, u.c, none)
      BY <3>1, <3>2, SendKept
    <3> QED
      BY <3>3 DEF none
  <2>14. Informed(g, u.c, X)
    BY <2>8, <2>11 DEF Informed
  <2>15. ~AtRest(g)
    BY <2>4, <2>8 DEF AtRest
  <2>16. Phase(g)
    BY <1>1, <2>8, <2>15 DEF Session, Phase, AtRest
  <2>17. Holds(g)
    BY <1>1, <2>8 DEF Session, Holds
  <2>18. Known(g)
    BY <1>1, <2>8 DEF Session, Known
  <2>19. Whole(v, {}, X)
    <3>1. v.f.state # "DISCONNECTED"
      BY <1>1, <2>8, <2>10 DEF Session
    <3> QED
      BY <3>1, <2>10, <2>11, <2>12, <2>13, <2>14, <2>15, <2>16, <2>17, <2>18 DEF Whole, Session, Joint
  <2>20. Leads(w, v, {}, X)
    BY <2>8, <2>10, <2>19 DEF Leads
  <2>21. ASSUME NEW i \in DOMAIN v.c.expect
         PROVE  v.c.expect[i].tag = tag \/ \E j \in DOMAIN w.c.expect : w.c.expect[j].tag = v.c.expect[i].tag
    <3>1. /\ DOMAIN u.c.expect = DOMAIN w.c.expect \cup {w.c.id} /\ u.c.expect[w.c.id].tag = tag
          /\ \A j \in DOMAIN w.c.expect : u.c.expect[j] = w.c.expect[j]
      BY <2>5 DEF Sends
    <3> QED
      BY <3>1, <2>10
  <2> QED
    BY <2>d, <2>8, <2>9, <2>10, <2>20, <2>21
<1> QED
  BY <1>2, <1>3

\* DisconnectLL has left it at rest, or CONNECTED: an operation begins.
LEMMA BeginLeads ==
    ASSUME NEW w, w.c \in Conn, Good(w), AtRest(w.f), NEW v \in World, v.c = w.c,
           v.f.mode = w.f.mode, v.f.file = w.f.file, v.f.handle = w.f.handle, v.f.buf = w.f.buf, v.f.next = w.f.next,
           v.f.info = w.f.info, v.f.pos = w.f.pos, v.f.ooo = w.f.ooo,
           v.f.state = "CONNECTED" \/ (v.f.state = "WAITING" /\ v.f.mode # "CLOSED")
    PROVE  Leads(w, v, {}, {})
<1> DEFINE f == w.f  g == v.f  c == w.c
<1>1. /\ w.f \in Ses /\ Session(w) /\ c.on /\ OnItsWay(c) /\ Expects(f, c) /\ Kept(f, c, {})
      /\ Informed(f, c, {}) /\ \A j \in DOMAIN c.expect : c.expect[j].tag \in {"IGNORE", "STALE"}
  BY OnIsConn, ConnFields DEF Good, Whole, Joint
<1>2. /\ g.mode = f.mode /\ g.file = f.file /\ g.handle = f.handle /\ g.buf = f.buf
      /\ g.next = f.next /\ g.info = f.info /\ g.pos = f.pos /\ g.ooo = f.ooo /\ v.c = c
      /\ g.state = "CONNECTED" \/ (g.state = "WAITING" /\ g.mode # "CLOSED")
  OBVIOUS
<1>3. Phase(f) /\ Holds(f) /\ Known(f)
  BY <1>1 DEF Session
<1>4. AtRest(f)
  OBVIOUS
<1> HIDE DEF f, g, c
<1>5. Phase(g)
  BY <1>2, <1>3, <1>4 DEF Phase, AtRest
<1>6. Holds(g)
  BY <1>2, <1>3 DEF Holds
<1>7. Known(g)
  BY <1>2, <1>3 DEF Known
<1>8. Expects(g, c)
  <2>1. ASSUME NEW i \in DOMAIN c.expect PROVE Fits(g, c.expect[i])
    <3>1. Fits(f, c.expect[i]) /\ c.expect[i].tag \in {"IGNORE", "STALE"}
      BY <1>1 DEF Expects
    <3> QED
      BY <3>1 DEF Fits
  <2> QED
    BY <2>1, <1>1 DEF Expects
<1>9. Kept(g, c, {}) /\ Informed(g, c, {})
  BY <1>1, <1>2 DEF Kept, Informed
<1>10. Whole(v, {}, {})
  BY <1>1, <1>2, <1>5, <1>6, <1>7, <1>8, <1>9 DEF Whole, Session, Joint, g
<1> QED
  BY <1>10 DEF Leads

\* SendRequest: what the operation begins with is sent.
LEMMA SendRequestLeads ==
    ASSUME NEW w, w.c \in Conn, Good(w), w.f.state = "CONNECTED", w.f.mode # "CLOSED"
    PROVE  Leads(w, SendRequest(w), {}, {})
<1> DEFINE g == [w.f EXCEPT !.slow = 1, !.state = "WAITING"]
           v == [w EXCEPT !.f.slow = 1, !.f.state = "WAITING"]
           q == IF w.f.mode = "RETRIEVE" THEN Request("OPEN", w.f.file, 0, 0)
                ELSE IF w.f.mode = "STORE" THEN Request("CREATE", w.f.file, w.f.pos, 0) ELSE Request("REMOVE", w.f.file, 0, 0)
           tag == IF w.f.mode = "REMOVE" THEN "DEFAULT" ELSE "HANDLE"
           e == [req |-> q, tag |-> tag]
<1>1. /\ w \in World /\ w.f \in Ses /\ Session(w) /\ w.f.pos \in Nat
      /\ w.f.mode \in {"RETRIEVE", "STORE", "REMOVE", "ARRAY_INFO"}
  BY OnIsConn, SesFields DEF Good, Whole
<1>2. v = [f |-> g, c |-> w.c]
  <2>1. v = [w EXCEPT !.f = g]
    BY Zenon
  <2> HIDE DEF g, v
  <2> QED
    BY <1>1, <2>1, OnIsConn, Zenon DEF World
<1>d. SendRequest(w) = IF w.f.mode = "ARRAY_INFO" THEN v ELSE Send(v, q, tag)
  <2>1. SendRequest(w) = CASE w.f.mode = "RETRIEVE" -> Send(v, Request("OPEN", w.f.file, 0, 0), "HANDLE")
                           [] w.f.mode = "STORE" -> Send(v, Request("CREATE", w.f.file, w.f.pos, 0), "HANDLE")
                           [] w.f.mode = "REMOVE" -> Send(v, Request("REMOVE", w.f.file, 0, 0), "DEFAULT")
                           [] w.f.mode = "ARRAY_INFO" -> v
    BY Zenon DEF SendRequest
  <2> HIDE DEF v
  <2> QED
    BY <2>1, <1>1
<1>3. /\ g \in Ses /\ g.mode = w.f.mode /\ g.file = w.f.file /\ g.handle = w.f.handle /\ g.buf = w.f.buf
      /\ g.next = w.f.next /\ g.info = w.f.info /\ g.state = "WAITING" /\ g.pos = w.f.pos /\ g.ooo = w.f.ooo
  BY <1>1, Zenon DEF Ses
<1>4. /\ q \in Req /\ (w.f.mode \in {"RETRIEVE", "STORE"} => q.k \in {"OPEN", "CREATE"})
      /\ (w.f.mode = "REMOVE" => q.k = "REMOVE")
  BY <1>1, Requests
<1> HIDE DEF g, v, q
<1>5. v \in World /\ v.f = g /\ v.c = w.c
  BY <1>2, <1>3, WorldOf
<1>6. AtRest(w.f)
  BY DEF AtRest
<1>7. Leads(w, v, {}, {})
  BY <1>3, <1>5, <1>6, BeginLeads
<1>8. ASSUME w.f.mode # "ARRAY_INFO" PROVE Leads(v, Send(v, q, tag), {}, {})
  <2>1. e.req = q /\ e.tag = tag
    OBVIOUS
  <2>2. tag \in Tag
    BY DEF Tag
  <2>3. w.f.handle = NoHandle /\ ~w.f.buf.on
    BY <1>1, <1>6 DEF Session, Phase
  <2>4. (w.f.mode = "REMOVE" <=> tag = "DEFAULT") /\ (w.f.mode # "REMOVE" <=> tag = "HANDLE")
    OBVIOUS
  <2> HIDE DEF e, tag
  <2>5. Fits(v.f, e)
    BY <2>1, <2>3, <2>4, <1>1, <1>3, <1>4, <1>5, <1>8 DEF Fits
  <2>6. ~AtRest(v.f)
    BY <1>3, <1>5 DEF AtRest
  <2>7. \A i \in DOMAIN v.c.expect : v.c.expect[i].tag # "HANDLE"
    BY <1>5, <1>6, ConnFields DEF Good, Whole, Joint
  <2> QED
    BY <2>2, <2>5, <2>6, <2>7, <1>4, <1>5, <1>7, SendLeads DEF e, Leads
<1> QED
  BY <1>7, <1>8, <1>d DEF Leads

\* Do, CONNECTED
LEMMA DoConnectedLeads ==
    ASSUME NEW w, w.c \in Conn, Good(w), w.f.state = "CONNECTED"
    PROVE  Leads(w, DoConnected(w), {}, {})
<1>1. w.f.mode # "CLOSED" => Leads(w, SendRequest(w), {}, {})
  BY SendRequestLeads
<1> QED
  BY <1>1 DEF DoConnected, Leads, Good

\* Do, FILE_SEND: a byte is sent, or the file ends.
LEMMA DoSendLeads ==
    ASSUME NEW w, w.c \in Conn, Good(w), w.f.state = "FILE_SEND"
    PROVE  Leads(w, DoSend(w), {}, {})
<1> DEFINE f == w.f
           b == Head(f.buf.data)
           q == OnHandle(f, "WRITE", f.req_pos, b[2])
           u == Send(w, q, "WRITE_STATUS")
           e == [req |-> q, tag |-> "WRITE_STATUS"]
           data == Tail(f.buf.data)
           p == f.req_pos + 1
           buf == [f.buf EXCEPT !.data = data]
           g == [f EXCEPT !.buf = buf, !.req_pos = p]
           v == [Send(w, q, "WRITE_STATUS") EXCEPT !.f.buf.data = Tail(@), !.f.req_pos = @ + 1]
           x == CloseHandle(w, "DEFAULT")
           h == [x.f EXCEPT !.state = "WAITING"]
           y == [CloseHandle(w, "DEFAULT") EXCEPT !.f.state = "WAITING"]
<1>1. /\ w \in World /\ f \in Ses /\ Session(w) /\ f.req_pos \in Nat /\ f.mode = "STORE" /\ f.buf.on /\ Whole(w, {}, {})
      /\ f.buf \in Buf /\ f.buf.data \in Seq(File \X Nat)
  BY OnIsConn, SesFields DEF Good, Whole, Session, Phase
<1>d. DoSend(w) = w \/ DoSend(w) = y \/ (f.buf.data # <<>> /\ DoSend(w) = v)
  BY Zenon DEF DoSend
<1>2. Leads(w, w, {}, {})
  BY <1>1 DEF Leads
<1>3. Leads(w, y, {}, {})
  <2>1. Leads(w, x, {}, {}) /\ x.f.buf = f.buf /\ x.c \in Conn
    BY <1>1, CloseHandleLeads
  <2>2. x \in World /\ x.f \in Ses /\ x.f.mode = "STORE" /\ Whole(x, {}, {})
    BY <2>1, <1>1, OnIsConn DEF Leads, Whole
  <2>3. y = [f |-> h, c |-> x.c]
    <3> HIDE DEF x
    <3>1. y = [x EXCEPT !.f = h]
      BY Zenon DEF x
    <3> HIDE DEF h, y
    <3> QED
      BY <2>2, <3>1, OnIsConn, Zenon DEF World
  <2> HIDE DEF x
  <2>4. /\ h \in Ses /\ h.mode = x.f.mode /\ h.file = x.f.file /\ h.handle = x.f.handle /\ h.buf = x.f.buf
        /\ h.next = x.f.next /\ h.info = x.f.info /\ h.state = "WAITING" /\ h.pos = x.f.pos /\ h.ooo = x.f.ooo
    BY <2>2, Zenon DEF Ses
  <2> HIDE DEF h, y
  <2>5. y \in World /\ y.f = h /\ y.c = x.c
    BY <2>1, <2>3, <2>4, WorldOf
  <2>6. Rests(x.f, y.f)
    BY <2>1, <2>2, <2>4, <2>5, <1>1 DEF Rests, Moves
  <2>7. Leads(x, y, {}, {})
    BY <2>1, <2>2, <2>5, <2>6, RestsWhole
  <2> QED
    BY <2>1, <2>7 DEF Leads
<1>4. ASSUME f.buf.data # <<>> PROVE Leads(w, v, {}, {})
  <2>1. b \in File \X Nat /\ data \in Seq(File \X Nat)
    BY <1>1, <1>4, HeadTailProperties
  <2>2. b[2] \in Nat /\ p \in Nat
    BY <1>1, <2>1
  <2> HIDE DEF b, data
  <2>3. q \in Req /\ q.k = "WRITE"
    <3>1. \A g1 \in Ses : \A a1 \in Nat : \A a2 \in Nat : OnHandle(g1, "WRITE", a1, a2) \in Req /\ OnHandle(g1, "WRITE", a1, a2).k = "WRITE"
      BY Requests
    <3>2. f \in Ses /\ b[2] \in Nat /\ f.req_pos \in Nat
      BY <1>1, <2>2
    <3> QED
      BY <3>1, <3>2, Zenon
  <2> HIDE DEF q
  <2>4. Fits(f, [req |-> q, tag |-> "WRITE_STATUS"])
    <3>1. e.req = q /\ e.tag = "WRITE_STATUS"
      OBVIOUS
    <3> HIDE DEF e
    <3>2. Fits(f, e)
      BY <2>3, <3>1, <1>1 DEF Fits
    <3> QED
      BY <3>2 DEF e
  <2>5. ~AtRest(f) /\ "WRITE_STATUS" \in Tag /\ "WRITE_STATUS" # "HANDLE"
    BY <1>1 DEF AtRest, Tag
  <2>6. Leads(w, u, {}, {}) /\ Sends(w, q, "WRITE_STATUS", u)
    <3>1. Whole(w, {}, {}) /\ q \in Req /\ Fits(w.f, [req |-> q, tag |-> "WRITE_STATUS"]) /\ ~AtRest(w.f)
          /\ "WRITE_STATUS" \in Tag /\ "WRITE_STATUS" # "HANDLE"
      BY <1>1, <2>3, <2>4, <2>5
    <3> QED
      BY <3>1, SendLeads
  <2>7. u \in World /\ u.f = f /\ u.c \in Conn /\ Whole(u, {}, {})
    BY <2>6 DEF Sends, Leads
  <2>8. v = [f |-> g, c |-> u.c]
    <3> HIDE DEF u
    <3>1. v = [u EXCEPT !.f.buf.data = Tail(@), !.f.req_pos = @ + 1]
      BY Zenon DEF u
    <3>2. v = [u EXCEPT !.f = g]
      <4>1. v = [u EXCEPT !.f = [[u.f EXCEPT !.buf = [u.f.buf EXCEPT !.data = Tail(u.f.buf.data)]] EXCEPT !.req_pos = u.f.req_pos + 1]]
        BY <3>1, <2>7, <1>1, Zenon DEF World, Ses
      <4> QED
        BY <4>1, <2>7, Zenon DEF data
    <3> HIDE DEF g, v
    <3> QED
      BY <2>7, <3>2, OnIsConn, Zenon DEF World
  <2> HIDE DEF u
  <2>9. buf \in Buf /\ buf.on = f.buf.on
    BY <1>1, <2>1, Zenon DEF Buf
  <2> HIDE DEF buf, p
  <2>10. /\ g \in Ses /\ g.mode = f.mode /\ g.file = f.file /\ g.handle = f.handle /\ g.buf = buf
         /\ g.next = f.next /\ g.info = f.info /\ g.state = f.state /\ g.pos = f.pos /\ g.ooo = f.ooo
    BY <1>1, <2>2, <2>9, Zenon DEF Ses
  <2> HIDE DEF g, v
  <2>11. v \in World /\ v.f = g /\ v.c = u.c
    BY <2>7, <2>8, <2>10, WorldOf
  <2>12. Moves(u.f, v.f)
    BY <2>7, <2>9, <2>10, <2>11 DEF Moves
  <2>13. Holds(v.f)
    BY <1>1, <2>10, <2>11 DEF Session, Holds
  <2>14. Whole(v, {}, {})
    BY <1>1, <2>7, <2>11, <2>12, <2>13, HoldsLeads
  <2> QED
    BY <2>14, <2>10, <2>11 DEF Leads
<1> QED
  BY <1>d, <1>2, <1>3, <1>4

\* Close: the connection stays, and what is still expected on it is for nobody but the handle of an OPEN, which is to be
\* closed when it comes (CloseExpectQueue).
LEMMA CloseSessionGood ==
    ASSUME NEW w, Good(w)
    PROVE  Good(CloseSession(w)) /\ CloseSession(w).f.mode = "CLOSED"
<1> DEFINE v == IF w.f.state = "CONNECTING" THEN Disconnect(w) ELSE w
           expect == [i \in DOMAIN v.c.expect |-> [req |-> v.c.expect[i].req, tag |-> TagWhenClosed(v.c.expect[i].tag)]]
           c == [v.c EXCEPT !.expect = expect]
           x == [v EXCEPT !.c = CloseExpectQueue(v.c)]
           y == CloseHandle(x, "IGNORE")
           u == IF v.c.on THEN CloseHandle(x, "IGNORE") ELSE v
           state == IF u.c.on THEN "CONNECTED" ELSE "DISCONNECTED"
           h == [NewSession EXCEPT !.state = state, !.slow = u.f.slow, !.req_pos = u.f.req_pos]
           z == [u EXCEPT !.f = h]
<1>d. CloseSession(w) = z
  BY Zenon DEF CloseSession
<1>1. Whole(v, {}, {})
  <2>1. Leads(w, Disconnect(w), {}, {})
    BY DisconnectLeads DEF Good, Whole, Session
  <2> QED
    BY <2>1 DEF Good, Leads
<1>2. v \in World /\ v.f \in Ses /\ (v.c.on <=> v.c \in Conn) /\ (~v.c.on <=> v.c = NoConn) /\ Session(v)
  BY <1>1, OnIsConn DEF Whole
<1> HIDE DEF v
<1>3. ASSUME v.c.on
      PROVE  /\ Whole(y, {}, Nat) /\ y.f.handle = NoHandle /\ y.c \in Conn
             /\ \A i \in DOMAIN y.c.expect : y.c.expect[i].tag \in {"IGNORE", "STALE"}
  <2>1. /\ v.c \in Conn /\ v.c.expect \in Queue /\ OnItsWay(v.c) /\ Expects(v.f, v.c) /\ Kept(v.f, v.c, {})
    BY <1>1, <1>2, <1>3, ConnFields DEF Whole, Joint
  <2>2. /\ DOMAIN expect = DOMAIN v.c.expect
        /\ \A i \in DOMAIN v.c.expect : /\ expect[i] \in Expected /\ expect[i].req = v.c.expect[i].req
                                        /\ expect[i].tag = TagWhenClosed(v.c.expect[i].tag)
    <3>1. ASSUME NEW i \in DOMAIN v.c.expect
          PROVE  expect[i] \in Expected /\ expect[i].req = v.c.expect[i].req /\ expect[i].tag = TagWhenClosed(v.c.expect[i].tag)
      <4>1. v.c.expect[i] \in Expected
        BY <2>1, QueueHas
      <4>2. TagWhenClosed(v.c.expect[i].tag) \in Tag
        BY DEF TagWhenClosed, Tag
      <4> QED
        BY <4>1, <4>2 DEF Expected
    <3> QED
      BY <3>1
  <2>3. expect \in Queue
    <3>1. DOMAIN v.c.expect \subseteq Nat
      BY <2>1, QueueHas
    <3>2. expect = [i \in DOMAIN v.c.expect |-> expect[i]]
      OBVIOUS
    <3> HIDE DEF expect
    <3> QED
      BY <2>2, <3>1, <3>2, QueueIs
  <2>4. x = [f |-> v.f, c |-> c]
    <3>1. x = [v EXCEPT !.c = c]
      BY Zenon DEF CloseExpectQueue
    <3> HIDE DEF c, x
    <3> QED
      BY <1>2, <3>1, OnIsConn, Zenon DEF World
  <2>5. \A t : TagWhenClosed(t) \in {"IGNORE", "STALE"} /\ (TagWhenClosed(t) = "STALE" <=> t \in {"HANDLE", "STALE"})
    BY DEF TagWhenClosed
  <2> HIDE DEF expect
  <2>6. /\ c \in Conn /\ c.on = v.c.on /\ c.net = v.c.net /\ c.out = v.c.out /\ c.handles = v.c.handles /\ c.refused = v.c.refused
        /\ c.id = v.c.id /\ c.wire = v.c.wire /\ c.expect = expect
    BY <2>1, <2>3, Zenon DEF Conn
  <2> HIDE DEF c, x
  <2>7. x \in World /\ x.f = v.f /\ x.c = c
    BY <1>2, <2>4, <2>6, WorldOf
  <2>8. OnItsWay(c)
    <3>1. Numbered(c)
      BY <2>1, <2>2, <2>6 DEF OnItsWay, Numbered
    <3>3. InOrder(c)
      BY <2>1, <2>6 DEF OnItsWay, InOrder
    <3>4. Answers(c)
      BY <2>1, <2>6 DEF OnItsWay, Answers
    <3>2. Awaited(c)
      BY <2>1, <2>2, <2>6 DEF OnItsWay, Awaited
    <3> QED
      BY <3>1, <3>2, <3>3, <3>4, <2>1, <2>6 DEF OnItsWay
  <2>9. Expects(v.f, c)
    <3>1. ASSUME NEW i \in DOMAIN c.expect PROVE Fits(v.f, c.expect[i]) /\ c.expect[i].tag # "HANDLE"
      <4>1. Fits(v.f, v.c.expect[i])
        BY <2>1, <2>2, <2>6 DEF Expects
      <4>2. c.expect[i].req = v.c.expect[i].req /\ c.expect[i].tag \in {"IGNORE", "STALE"}
            /\ (c.expect[i].tag = "STALE" <=> v.c.expect[i].tag \in {"HANDLE", "STALE"})
        BY <2>2, <2>5, <2>6
      <4> QED
        BY <4>1, <4>2 DEF Fits
    <3> QED
      BY <3>1 DEF Expects
  <2>10. Kept(v.f, c, {})
    <3> SUFFICES ASSUME c.net # "lost", NEW a \in c.handles
                 PROVE  \/ v.f.handle = a
                        \/ \E i \in 1..Len(c.out) : c.out[i].req.k = "CLOSE" /\ c.out[i].req.h = a
                        \/ \E i \in 1..Len(c.wire) : c.wire[i].h = a /\ c.expect[c.wire[i].id].tag \in {"HANDLE", "STALE"}
      BY DEF Kept
    <3>1. \/ v.f.handle = a
          \/ \E i \in 1..Len(c.out) : c.out[i].req.k = "CLOSE" /\ c.out[i].req.h = a
          \/ \E i \in 1..Len(c.wire) : c.wire[i].h = a /\ v.c.expect[c.wire[i].id].tag \in {"HANDLE", "STALE"}
      BY <2>1, <2>6 DEF Kept
    <3>2. ASSUME NEW i \in 1..Len(c.wire), v.c.expect[c.wire[i].id].tag \in {"HANDLE", "STALE"}
          PROVE  c.expect[c.wire[i].id].tag \in {"HANDLE", "STALE"}
      <4>1. c.wire[i].id \in DOMAIN v.c.expect
        BY <2>1, <2>6 DEF OnItsWay, Awaited
      <4> QED
        BY <4>1, <3>2, <2>2, <2>5, <2>6
    <3> QED
      BY <3>1, <3>2
  <2>11. Informed(v.f, c, Nat)
    BY <1>2, SesFields DEF Informed
  <2>12. \A i \in DOMAIN c.expect : c.expect[i].tag \in {"IGNORE", "STALE"}
    BY <2>2, <2>5, <2>6
  <2>13. Whole(x, {}, Nat)
    <3>1. Session(x)
      BY <1>2, <2>6, <2>7 DEF Session
    <3> QED
      BY <3>1, <2>6, <2>7, <2>8, <2>9, <2>10, <2>11, <2>12 DEF Whole, Joint
  <2>14. /\ Leads(x, y, {}, Nat) /\ y.f.handle = NoHandle /\ y.c \in Conn
         /\ \A i \in DOMAIN y.c.expect :
              y.c.expect[i].tag = "IGNORE" \/ \E j \in DOMAIN x.c.expect : x.c.expect[j].tag = y.c.expect[i].tag
    <3>1. x.c \in Conn /\ "IGNORE" \in {"DEFAULT", "IGNORE"} /\ "IGNORE" # "DEFAULT"
      BY <2>6, <2>7
    <3> QED
      BY <3>1, <2>13, CloseHandleLeads
  <2> HIDE DEF y
  <2>15. \A i \in DOMAIN y.c.expect : y.c.expect[i].tag \in {"IGNORE", "STALE"}
    BY <2>7, <2>12, <2>14
  <2> QED
    BY <2>14, <2>15 DEF Leads
<1>4. /\ u \in World /\ (u.c.on <=> u.c \in Conn) /\ (~u.c.on <=> u.c = NoConn) /\ u.f \in Ses /\ (u.c.on <=> v.c.on)
      /\ (v.c.on => u = y)
  <2>1. v.c.on => u = y
    BY Zenon
  <2>2. ~v.c.on => u = v
    BY Zenon
  <2> HIDE DEF u, y
  <2>3. u \in World
    BY <2>1, <2>2, <1>2, <1>3 DEF Whole
  <2>4. u.c.on <=> v.c.on
    BY <2>1, <2>2, <1>3, ConnFields
  <2> QED
    BY <2>1, <2>3, <2>4, OnIsConn
<1> HIDE DEF u, y
<1>5. /\ h \in Ses /\ h.mode = "CLOSED" /\ h.handle = NoHandle /\ h.buf = NoBuf /\ h.next = 1 /\ h.info = {}
      /\ h.state = state /\ h.pos = 0 /\ h.ooo = <<>>
  <2>1. NoHandle \in Nat /\ NoBuf \in Buf /\ <<>> \in Seq(Answer) /\ 1 \in 1..(K + 1) /\ NoFile \in File /\ -1 \in Int
    BY Numbers DEF NoHandle, NoBuf, Buf, File
  <2>2. NewSession \in Ses /\ NewSession.mode = "CLOSED" /\ NewSession.handle = NoHandle /\ NewSession.buf = NoBuf /\ NewSession.next = 1
        /\ NewSession.info = {} /\ NewSession.pos = 0 /\ NewSession.ooo = <<>>
    BY <2>1 DEF NewSession, Ses
  <2>3. u.f.slow \in Nat /\ u.f.req_pos \in Nat /\ state \in {"CONNECTED", "DISCONNECTED"}
    BY <1>4, SesFields
  <2> HIDE DEF state
  <2>4. /\ h \in Ses /\ h.mode = NewSession.mode /\ h.handle = NewSession.handle /\ h.buf = NewSession.buf /\ h.next = NewSession.next
        /\ h.info = NewSession.info /\ h.state = state /\ h.pos = NewSession.pos /\ h.ooo = NewSession.ooo
    BY <2>2, <2>3, Zenon DEF Ses
  <2> HIDE DEF h
  <2> QED
    BY <2>2, <2>4
<1>6. z = [f |-> h, c |-> u.c]
  <2>1. z = [u EXCEPT !.f = h]
    BY Zenon
  <2> HIDE DEF h, z
  <2>2. u \in World
    BY <1>4
  <2> QED
    BY <2>1, <2>2, OnIsConn, Zenon DEF World
<1>7. state = "CONNECTED" \/ state = "DISCONNECTED"
  OBVIOUS
<1>8. state = "DISCONNECTED" <=> ~u.c.on
  OBVIOUS
<1> HIDE DEF h, z, state
<1>9. z \in World /\ z.f = h /\ z.c = u.c
  BY <1>4, <1>5, <1>6, WorldOf, OnIsConn
<1>10. Phase(h) /\ Known(h) /\ Holds(h)
  <2>1. NoBuf.on = FALSE /\ Len(<<>>) = 0
    BY DEF NoBuf
  <2>2. Phase(h)
    BY <2>1, <1>5, <1>7 DEF Phase, AtRest
  <2>3. Holds(h) /\ Known(h)
    BY <2>1, <1>5, <1>7, Numbers DEF Holds, Known
  <2> QED
    BY <2>2, <2>3
<1>11. ASSUME u.c.on
       PROVE  /\ OnItsWay(u.c) /\ Expects(h, u.c) /\ Kept(h, u.c, {}) /\ Informed(h, u.c, {})
              /\ \A i \in DOMAIN u.c.expect : u.c.expect[i].tag \in {"IGNORE", "STALE"}
  <2>1. /\ OnItsWay(u.c) /\ Expects(u.f, u.c) /\ Kept(u.f, u.c, {}) /\ u.f.handle = NoHandle
        /\ \A i \in DOMAIN u.c.expect : u.c.expect[i].tag \in {"IGNORE", "STALE"}
    BY <1>3, <1>4, <1>11 DEF Whole, Joint
  <2>2. Expects(h, u.c)
    <3>1. ASSUME NEW i \in DOMAIN u.c.expect PROVE Fits(h, u.c.expect[i]) /\ u.c.expect[i].tag # "HANDLE"
      <4>1. Fits(u.f, u.c.expect[i]) /\ u.c.expect[i].tag \in {"IGNORE", "STALE"}
        BY <2>1 DEF Expects
      <4> QED
        BY <4>1 DEF Fits
    <3> QED
      BY <3>1 DEF Expects
  <2>3. Kept(h, u.c, {}) /\ Informed(h, u.c, {})
    BY <2>1, <1>5 DEF Kept, Informed
  <2> QED
    BY <2>1, <2>2, <2>3
<1>12. Good(z) /\ z.f.mode = "CLOSED"
  BY <1>5, <1>8, <1>9, <1>10, <1>11 DEF Good, Whole, Session, Joint
<1> QED
  BY <1>d, <1>12

-----------------------------------------------------------------------------
(* SendArrayInfoRequests.                                                  *)

\* The files that still need information are finitely many,
LEMMA NeededAre ==
    ASSUME NEW f \in Ses, NEW m \in Nat
    PROVE  /\ IsFiniteSet(Needed(f, m)) /\ Cardinality(Needed(f, m)) \in Nat /\ Needed(f, m) \subseteq Nat
           /\ \A i \in Needed(f, m) : f.next <= i /\ i < m /\ <<i, i>> \notin f.info
<1>1. f.next \in Nat /\ f.next > 0
  BY SesFields, Numbers
<1>2. Needed(f, m) \subseteq f.next..(m - 1)
  BY DEF Needed
<1>3. IsFiniteSet(f.next..(m - 1))
  <2>1. f.next \in Int /\ m - 1 \in Int
    BY <1>1
  <2> QED
    BY <2>1, FS_Interval
<1>4. IsFiniteSet(Needed(f, m))
  BY <1>2, <1>3, FS_Subset
<1>5. Cardinality(Needed(f, m)) \in Nat
  BY <1>4, FS_CardinalityType
<1>6. \A i \in f.next..(m - 1) : i \in Nat /\ f.next <= i /\ i < m
  BY <1>1
<1> QED
  BY <1>2, <1>4, <1>5, <1>6 DEF Needed

\* The index of the file that SendArrayInfoRequests asks about next is one of the array or just behind it.
LEMMA NextIs == \A f \in Ses : f.next \in Nat /\ f.next \in 1..(K + 1) /\ f.next > 0
<1> SUFFICES ASSUME NEW f \in Ses PROVE f.next \in Nat /\ f.next \in 1..(K + 1) /\ f.next > 0
  OBVIOUS
<1>1. f.next \in 1..(K + 1)
  BY SesFields
<1> QED
  BY <1>1, Numbers

\* counted one by one as the loop goes on,
LEMMA NeededNext ==
    ASSUME NEW f \in Ses, NEW m \in Nat, f.next <= m
    PROVE  Cardinality(Needed(f, m + 1)) = IF <<m, m>> \notin f.info THEN Cardinality(Needed(f, m)) + 1 ELSE Cardinality(Needed(f, m))
<1>1. f.next \in Nat
  BY SesFields, Numbers
<1>2. f.next..((m + 1) - 1) = (f.next..(m - 1)) \cup {m} /\ m \notin f.next..(m - 1)
  BY <1>1
<1>3. Needed(f, m + 1) = IF <<m, m>> \notin f.info THEN Needed(f, m) \cup {m} ELSE Needed(f, m)
  BY <1>2 DEF Needed
<1>4. m \notin Needed(f, m)
  BY <1>2 DEF Needed
<1>5. IsFiniteSet(Needed(f, m))
  BY NeededAre
<1>6. Cardinality(Needed(f, m) \cup {m}) = Cardinality(Needed(f, m)) + 1
  BY <1>4, <1>5, FS_AddElement
<1> QED
  BY <1>3, <1>6

\* a later one after more of them,
LEMMA NeededLater ==
    ASSUME NEW f \in Ses, NEW m \in Nat, NEW i \in Needed(f, m), NEW j \in Needed(f, m), i < j
    PROVE  Cardinality(Needed(f, i)) < Cardinality(Needed(f, j))
<1>1. i \in Nat /\ j \in Nat /\ f.next <= i /\ <<i, i>> \notin f.info /\ i + 1 \in Nat /\ f.next \in Nat
  <2>1. f.next \in Nat
    BY NextIs
  <2>2. \A x \in Needed(f, m) : x \in Nat /\ f.next <= x /\ <<x, x>> \notin f.info
    BY NeededAre
  <2>3. i \in Nat /\ j \in Nat /\ f.next <= i /\ <<i, i>> \notin f.info
    BY <2>2, Zenon
  <2>4. i + 1 \in Nat
    BY <2>3
  <2> QED
    BY <2>1, <2>3, <2>4
<1>2. Cardinality(Needed(f, i + 1)) = Cardinality(Needed(f, i)) + 1
  BY <1>1, NeededNext
<1>3. Needed(f, i + 1) \subseteq Needed(f, j)
  <2>1. f.next..((i + 1) - 1) \subseteq f.next..(j - 1)
    BY <1>1
  <2> QED
    BY <2>1 DEF Needed
<1>4. Cardinality(Needed(f, i + 1)) <= Cardinality(Needed(f, j))
  <2>1. IsFiniteSet(Needed(f, j)) /\ Needed(f, i + 1) \in SUBSET Needed(f, j)
    BY <1>1, <1>3, NeededAre
  <2> QED
    BY <2>1, FS_Subset
<1>5. Cardinality(Needed(f, i)) \in Nat /\ Cardinality(Needed(f, j)) \in Nat
  BY <1>1, NeededAre
<1> QED
  BY <1>2, <1>4, <1>5

\* and each of the numbers is that of one file.
LEMMA NeededRanks ==
    ASSUME NEW f \in Ses, NEW m \in Nat, f.next <= m, NEW n \in 0..(Cardinality(Needed(f, m)) - 1)
    PROVE  \E i \in Needed(f, m) : Cardinality(Needed(f, i)) = n
<1> DEFINE Rank(x) == Cardinality(Needed(f, x))  S == {x \in f.next..m : Rank(x) > n}
<1>1. f.next \in Nat /\ Rank(m) \in Nat /\ n \in Nat /\ Rank(m) > n
  <2>1. f.next \in Nat
    BY NextIs
  <2>2. Rank(m) \in Nat /\ n \in 0..(Rank(m) - 1)
    BY NeededAre
  <2> HIDE DEF Rank
  <2> QED
    BY <2>1, <2>2
<1>2. m \in S /\ S \in SUBSET Nat
  BY <1>1
<1>3. \E x \in S : \A y \in S : x <= y
  <2> HIDE DEF S
  <2> QED
    BY <1>2, Least
<1>4. PICK x \in S : \A y \in S : x <= y
  BY <1>3
<1>5. x \in f.next..m /\ Rank(x) > n /\ x \in Nat
  BY <1>1
<1>6. x # f.next
  <2>1. f.next..(f.next - 1) = {}
    BY <1>1
  <2>2. Needed(f, f.next) = {}
    BY <2>1 DEF Needed
  <2>3. Rank(f.next) = 0
    BY <2>2, FS_EmptySet
  <2> QED
    BY <2>3, <1>1, <1>5
<1> DEFINE i == x - 1
<1>7. i \in Nat /\ f.next <= i /\ i < m /\ i + 1 = x /\ i \in f.next..m /\ i < x /\ i \in f.next..(m - 1)
  BY <1>1, <1>5, <1>6
<1> HIDE DEF i
<1>8. i \notin S
  BY <1>4, <1>5, <1>7
<1>9. Rank(i) \in Nat /\ ~(Rank(i) > n)
  <2>1. Rank(i) \in Nat
    BY <1>7, NeededAre
  <2> QED
    BY <2>1, <1>7, <1>8
<1>10. Rank(x) = IF <<i, i>> \notin f.info THEN Rank(i) + 1 ELSE Rank(i)
  BY <1>7, NeededNext
<1>11. <<i, i>> \notin f.info /\ Rank(i) = n
  <2> HIDE DEF Rank
  <2> QED
    BY <1>1, <1>5, <1>9, <1>10
<1>12. i \in Needed(f, m)
  BY <1>7, <1>11 DEF Needed
<1> QED
  BY <1>11, <1>12

\* The loop ends.
LEMMA ArrayEndIs ==
    ASSUME NEW w \in World, w.c \in Conn
    PROVE  ArrayEnd(w) \in w.f.next..(K + 1) /\ EndsBefore(w, ArrayEnd(w))
<1> DEFINE S == {m \in w.f.next..(K + 1) : EndsBefore(w, m)}
<1>1. w.f.next \in 1..(K + 1) /\ K \in Nat
  BY OnIsConn, SesFields, Numbers
<1>2. K + 1 \in S /\ S \in SUBSET Nat
  BY <1>1 DEF EndsBefore
<1>3. PICK x \in S : \A y \in S : x <= y
  <2> HIDE DEF S
  <2> QED
    BY <1>2, Least
<1>4. x \in w.f.next..(K + 1) /\ EndsBefore(w, x)
  OBVIOUS
<1>5. ASSUME NEW l \in w.f.next..(x - 1) PROVE ~EndsBefore(w, l)
  <2>1. l \in w.f.next..(K + 1) /\ l < x
    BY <1>1, <1>4
  <2>2. l \notin S
    BY <2>1, <1>1, <1>3, <1>4
  <2> QED
    BY <2>1, <2>2
<1>6. \E m \in w.f.next..(K + 1) : EndsBefore(w, m) /\ \A l \in w.f.next..(m - 1) : ~EndsBefore(w, l)
  BY <1>4, <1>5
<1> QED
  BY <1>6 DEF ArrayEnd

\* The request with the number id asks about one of them, and each has its request.
LEMMA AsksAre ==
    ASSUME NEW w \in World, w.c \in Conn, NEW m \in Nat, w.f.next <= m, NEW n, n = Cardinality(Needed(w.f, m)),
           NEW id \in w.c.id..(w.c.id + n - 1)
    PROVE  /\ Asks(w, Needed(w.f, m), id) \in Req /\ Asks(w, Needed(w.f, m), id).k = "STAT"
           /\ Asks(w, Needed(w.f, m), id).for = w.f.file /\ Asks(w, Needed(w.f, m), id).pos \in Needed(w.f, m)
           /\ w.c.id + Cardinality(Needed(w.f, Asks(w, Needed(w.f, m), id).pos)) = id
<1> DEFINE S == Needed(w.f, m)
           i == CHOOSE i \in S : w.c.id + Cardinality(Needed(w.f, i)) = id
<1>1. w.f \in Ses /\ w.c.id \in Nat /\ n \in Nat
  BY OnIsConn, ConnFields, NeededAre
<1>2. id - w.c.id \in 0..(n - 1)
  BY <1>1
<1>3. \E x \in S : Cardinality(Needed(w.f, x)) = id - w.c.id
  BY <1>1, <1>2, NeededRanks
<1>4. \E x \in S : w.c.id + Cardinality(Needed(w.f, x)) = id
  BY <1>1, <1>3
<1>5. i \in S /\ w.c.id + Cardinality(Needed(w.f, i)) = id
  <2> HIDE DEF S
  <2> QED
    BY <1>4
<1>6. i \in Nat
  BY <1>1, <1>5, NeededAre
<1>7. Asks(w, S, id) = Request("STAT", w.f.file, i, 0)
  BY DEF Asks
<1> HIDE DEF i, S
<1>9. \A ff \in Ses : \A at \in Nat : Request("STAT", ff.file, at, 0) \in Req /\ Request("STAT", ff.file, at, 0).k = "STAT" /\ Request("STAT", ff.file, at, 0).for = ff.file
      /\ Request("STAT", ff.file, at, 0).pos = at
  BY Requests
<1>8. Request("STAT", w.f.file, i, 0) \in Req /\ Request("STAT", w.f.file, i, 0).k = "STAT" /\ Request("STAT", w.f.file, i, 0).for = w.f.file
      /\ Request("STAT", w.f.file, i, 0).pos = i
  BY <1>1, <1>6, <1>9, Zenon
<1> QED
  BY <1>5, <1>7, <1>8 DEF S

\* Each file that needs information is asked about by one of the requests of the round.
LEMMA AskedOnce ==
    ASSUME NEW w \in World, w.c \in Conn, NEW m \in Nat, w.f.next <= m, NEW n, n = Cardinality(Needed(w.f, m)), NEW i \in Needed(w.f, m)
    PROVE  \E id \in w.c.id..(w.c.id + n - 1) : Asks(w, Needed(w.f, m), id).pos = i
<1> DEFINE S == Needed(w.f, m)  id == w.c.id + Cardinality(Needed(w.f, i))
<1>1. w.f \in Ses /\ w.c.id \in Nat /\ n \in Nat /\ i \in Nat /\ w.f.next <= i /\ i < m /\ Cardinality(Needed(w.f, i)) \in Nat
      /\ w.f.next \in Nat
  <2>1. w.f \in Ses /\ w.c.id \in Nat
    BY OnIsConn, ConnFields
  <2>2. w.f.next \in Nat /\ n \in Nat
    BY <2>1, NextIs, NeededAre
  <2>3. \A x \in Needed(w.f, m) : x \in Nat /\ w.f.next <= x /\ x < m
    BY <2>1, NeededAre
  <2>4. i \in Nat /\ w.f.next <= i /\ i < m
    BY <2>3
  <2>5. Cardinality(Needed(w.f, i)) \in Nat
    BY <2>1, <2>4, NeededAre
  <2> QED
    BY <2>1, <2>2, <2>4, <2>5
<1>2. Cardinality(Needed(w.f, i)) < n
  <2>1. Cardinality(Needed(w.f, i + 1)) = Cardinality(Needed(w.f, i)) + 1
    BY <1>1, NeededAre, NeededNext
  <2>2. Needed(w.f, i + 1) \in SUBSET S
    <3>1. w.f.next..((i + 1) - 1) \subseteq w.f.next..(m - 1)
      BY <1>1
    <3> QED
      BY <3>1 DEF Needed
  <2>3. Cardinality(Needed(w.f, i + 1)) <= Cardinality(S)
    BY <2>2, <1>1, FS_Subset, NeededAre
  <2> QED
    BY <2>1, <2>3, <1>1
<1>3. id \in w.c.id..(w.c.id + n - 1)
  BY <1>1, <1>2
<1> DEFINE j == Asks(w, S, id).pos
<1>4. j \in S /\ w.c.id + Cardinality(Needed(w.f, j)) = id
  <2> HIDE DEF id
  <2> QED
    BY <1>3, AsksAre
<1>5. j \in Nat /\ Cardinality(Needed(w.f, j)) \in Nat
  <2>1. j \in Nat
    BY <1>1, <1>4, NeededAre
  <2> HIDE DEF j
  <2> QED
    BY <2>1, <1>1, NeededAre
<1> HIDE DEF j
<1>6. Cardinality(Needed(w.f, j)) = Cardinality(Needed(w.f, i))
  BY <1>1, <1>4, <1>5
<1>7. ~(i < j)
  BY <1>1, <1>4, <1>5, <1>6, NeededLater
<1>8. ~(j < i)
  BY <1>1, <1>4, <1>5, <1>6, NeededLater
<1>9. j = i
  BY <1>1, <1>5, <1>7, <1>8
<1> HIDE DEF id
<1> QED
  BY <1>3, <1>9 DEF j

\* What a call of it sends: requests with the next n numbers.
AsksFor(w, m, n, v) ==
    /\ v \in World /\ v.c \in Conn /\ v.f = [w.f EXCEPT !.next = m]
    /\ v.c.net = w.c.net /\ v.c.wire = w.c.wire /\ v.c.handles = w.c.handles /\ v.c.refused = w.c.refused
    /\ v.c.id = w.c.id + n /\ w.c.id \in Nat /\ n \in Nat
    /\ DOMAIN v.c.expect = DOMAIN w.c.expect \cup (w.c.id..(w.c.id + n - 1))
    /\ \A i \in w.c.id..(w.c.id + n - 1) : v.c.expect[i].req = Asks(w, Needed(w.f, m), i) /\ v.c.expect[i].tag = "INFO"
    /\ \A i \in DOMAIN w.c.expect : i \notin w.c.id..(w.c.id + n - 1) /\ v.c.expect[i] = w.c.expect[i]
    /\ Len(w.c.out) \in Nat /\ Len(v.c.out) = Len(w.c.out) + n
    /\ \A i \in 1..Len(w.c.out) : v.c.out[i] = w.c.out[i]
    /\ \A k \in 1..n : /\ v.c.out[Len(w.c.out) + k].id = w.c.id + k - 1
                      /\ v.c.out[Len(w.c.out) + k].req = Asks(w, Needed(w.f, m), w.c.id + k - 1)

\* SendArrayInfoRequests does what AsksFor says: as many requests as files need information, each with the number it is expected under.
LEMMA AskIs ==
    ASSUME NEW w \in World, w.c \in Conn, Numbered(w.c), NEW m \in 1..(K + 1), w.f.next <= m
    PROVE  AsksFor(w, m, Cardinality(Needed(w.f, m)), Ask(w, m))
<1> DEFINE asked == Needed(w.f, m)  n == Cardinality(asked)  v == Ask(w, m)
           A(i) == Asks(w, asked, i)
           ids == w.c.id..(w.c.id + n - 1)
           more == [k \in 1..n |-> [id |-> w.c.id + k - 1, req |-> A(w.c.id + k - 1)]]
           out == w.c.out \o more
           D == DOMAIN w.c.expect \cup ids
           expect == [i \in D |-> IF i \in ids THEN [req |-> A(i), tag |-> "INFO"] ELSE w.c.expect[i]]
           id == w.c.id + n
           c == [[[w.c EXCEPT !.id = id] EXCEPT !.out = out] EXCEPT !.expect = expect]
           g == [w.f EXCEPT !.next = m]
<1>1. w.f \in Ses /\ w.c.id \in Nat /\ w.c.out \in Seq(Sent) /\ w.c.expect \in Queue /\ Len(w.c.out) \in Nat /\ m \in Nat
  <2>1. w.f \in Ses /\ w.c.id \in Nat /\ w.c.out \in Seq(Sent) /\ w.c.expect \in Queue
    BY OnIsConn, ConnFields
  <2> QED
    BY <2>1, LenProperties, Numbers
<1>0. asked = Needed(w.f, m) /\ n = Cardinality(Needed(w.f, m))
  OBVIOUS
<1>2. n \in Nat /\ id \in Nat
  <2>1. n \in Nat
    BY <1>1, NeededAre
  <2> QED
    BY <2>1, <1>1
<1>3. v = [f |-> g, c |-> c]
  BY Zenon DEF Ask
<1> HIDE DEF v, asked, n
<1>4. \A i \in ids : A(i) \in Req
  BY <1>0, <1>1, AsksAre
<1> HIDE DEF A
<1>5. /\ more \in Seq(Sent) /\ Len(more) = n
      /\ \A k \in 1..n : more[k] = [id |-> w.c.id + k - 1, req |-> A(w.c.id + k - 1)]
  <2>1. ASSUME NEW k \in 1..n PROVE [id |-> w.c.id + k - 1, req |-> A(w.c.id + k - 1)] \in Sent
    <3>1. w.c.id + k - 1 \in ids /\ w.c.id + k - 1 \in Nat
      BY <1>1, <1>2
    <3>2. A(w.c.id + k - 1) \in Req
      BY <3>1, <1>4
    <3> QED
      BY <3>1, <3>2 DEF Sent
  <2> QED
    BY <2>1, <1>2
<1> HIDE DEF more
<1>6. /\ out \in Seq(Sent) /\ Len(out) = Len(w.c.out) + n
      /\ \A i \in 1..(Len(w.c.out) + n) : out[i] = IF i <= Len(w.c.out) THEN w.c.out[i] ELSE more[i - Len(w.c.out)]
  BY <1>1, <1>5, ConcatProperties
<1>7. \A i \in DOMAIN w.c.expect : i \in Nat /\ i \notin ids /\ w.c.expect[i] \in Expected
  <2>1. \A i \in DOMAIN w.c.expect : i \in Nat /\ i < w.c.id /\ w.c.expect[i] \in Expected
    BY <1>1, QueueHas DEF Numbered
  <2> QED
    BY <2>1, <1>1, <1>2
<1>8. /\ DOMAIN expect = D /\ \A i \in ids : expect[i] = [req |-> A(i), tag |-> "INFO"]
      /\ \A i \in DOMAIN w.c.expect : expect[i] = w.c.expect[i]
  BY <1>7
<1>9. \A i \in ids : [req |-> A(i), tag |-> "INFO"] \in Expected
  BY <1>4 DEF Expected, Tag
<1>10. expect \in Queue
  <2>1. D \subseteq Nat
    BY <1>1, <1>2, <1>7
  <2>2. \A i \in D : expect[i] \in Expected
    BY <1>7, <1>8, <1>9
  <2>3. expect = [i \in D |-> expect[i]]
    OBVIOUS
  <2> HIDE DEF expect, D
  <2> QED
    BY <2>1, <2>2, <2>3, QueueIs
<1> HIDE DEF out, expect, id
<1>11. /\ c \in Conn /\ c.net = w.c.net /\ c.wire = w.c.wire /\ c.handles = w.c.handles /\ c.refused = w.c.refused
       /\ c.id = id /\ c.out = out /\ c.expect = expect
  BY <1>1, <1>2, <1>6, <1>10, Zenon DEF Conn
<1>12. g \in Ses
  BY <1>1, Zenon DEF Ses
<1> HIDE DEF c, g
<1>13. v \in World /\ v.f = g /\ v.c = c
  <2>1. [f |-> g, c |-> c] \in World /\ [f |-> g, c |-> c].f = g /\ [f |-> g, c |-> c].c = c
    BY <1>11, <1>12, WorldOf
  <2> QED
    BY <2>1, <1>3, Zenon
<1>14. \A i \in 1..Len(w.c.out) : out[i] = w.c.out[i]
  BY <1>1, <1>2, <1>6
<1>15. \A k \in 1..n : out[Len(w.c.out) + k] = [id |-> w.c.id + k - 1, req |-> A(w.c.id + k - 1)]
  <2> TAKE k \in 1..n
  <2>1. Len(w.c.out) + k \in 1..(Len(w.c.out) + n) /\ ~(Len(w.c.out) + k <= Len(w.c.out)) /\ (Len(w.c.out) + k) - Len(w.c.out) = k
    BY <1>1, <1>2
  <2>2. out[Len(w.c.out) + k] = more[k]
    BY <2>1, <1>6
  <2> QED
    BY <2>2, <1>5
<1>16. v.c.id = w.c.id + n /\ Len(v.c.out) = Len(w.c.out) + n
  BY <1>6, <1>11, <1>13 DEF id
<1>17. v.c.net = w.c.net /\ v.c.wire = w.c.wire /\ v.c.handles = w.c.handles /\ v.c.refused = w.c.refused /\ v.c.expect = expect /\ v.c.out = out
  BY <1>11, <1>13
<1>18. DOMAIN v.c.expect = DOMAIN w.c.expect \cup ids
  BY <1>8, <1>17 DEF D
<1>19. v.f = [w.f EXCEPT !.next = m]
  BY <1>13 DEF g
<1>20. \A i \in ids : v.c.expect[i].req = A(i) /\ v.c.expect[i].tag = "INFO"
  <2> TAKE i \in ids
  <2> DEFINE q == A(i)
  <2>1. v.c.expect[i] = [req |-> q, tag |-> "INFO"]
    BY <1>8, <1>17
  <2> HIDE DEF q
  <2>2. v.c.expect[i].req = q /\ v.c.expect[i].tag = "INFO"
    BY <2>1
  <2> QED
    BY <2>2 DEF q
<1>21. \A i \in DOMAIN w.c.expect : i \notin ids /\ v.c.expect[i] = w.c.expect[i]
  BY <1>7, <1>8, <1>17
<1>22. v \in World /\ v.c \in Conn
  BY <1>11, <1>13
<1>23. \A i \in 1..Len(w.c.out) : v.c.out[i] = w.c.out[i]
  BY <1>14, <1>17
<1>24. \A k \in 1..n : v.c.out[Len(w.c.out) + k].id = w.c.id + k - 1 /\ v.c.out[Len(w.c.out) + k].req = A(w.c.id + k - 1)
  <2> TAKE k \in 1..n
  <2> DEFINE q == A(w.c.id + k - 1)  x == w.c.id + k - 1
  <2>1. v.c.out[Len(w.c.out) + k] = [id |-> x, req |-> q]
    BY <1>15, <1>17
  <2> HIDE DEF q, x
  <2>2. v.c.out[Len(w.c.out) + k].id = x /\ v.c.out[Len(w.c.out) + k].req = q
    BY <2>1
  <2> QED
    BY <2>2 DEF q, x
<1>25. AsksFor(w, m, n, v)
  BY <1>1, <1>2, <1>16, <1>17, <1>18, <1>19, <1>20, <1>21, <1>22, <1>23, <1>24, Zenon DEF AsksFor, A, asked
<1> QED
  BY <1>25 DEF v, n, asked

\* After a round of SendArrayInfoRequests everything that is on its way is still expected, and in order.
LEMMA AskOnItsWay ==
    ASSUME NEW w \in World, w.c \in Conn, OnItsWay(w.c), NEW m \in 1..(K + 1), w.f.next <= m, NEW n, n = Cardinality(Needed(w.f, m)),
           NEW v, AsksFor(w, m, n, v)
    PROVE  OnItsWay(v.c)
<1> DEFINE c == v.c  A(i) == Asks(w, Needed(w.f, m), i)  ids == w.c.id..(w.c.id + n - 1)  l == Len(w.c.out)
<1>1. /\ c.wire = w.c.wire /\ c.handles = w.c.handles /\ c.refused = w.c.refused /\ c.id = w.c.id + n /\ w.c.id \in Nat /\ n \in Nat
  BY DEF AsksFor
<1>2. /\ DOMAIN c.expect = DOMAIN w.c.expect \cup ids
      /\ \A i \in ids : c.expect[i].req = A(i)
      /\ \A i \in DOMAIN w.c.expect : c.expect[i] = w.c.expect[i]
  BY DEF AsksFor
<1>3. /\ l \in Nat /\ Len(c.out) = l + n
      /\ \A i \in 1..l : c.out[i] = w.c.out[i]
      /\ \A k \in 1..n : c.out[l + k].id = w.c.id + k - 1 /\ c.out[l + k].req = A(w.c.id + k - 1)
  BY DEF AsksFor
<1>4. \A i \in ids : i \in Nat /\ w.c.id <= i /\ i < w.c.id + n
  BY <1>1
<1>5. DOMAIN w.c.expect \subseteq Nat
  BY ConnFields, QueueHas
<1> HIDE DEF c, A, ids, l
<1>6. \A i \in 1..Len(c.out) : i \in 1..l \/ \E k \in 1..n : i = l + k
  <2> TAKE i \in 1..Len(c.out)
  <2>1. CASE i <= l
    BY <2>1, <1>1, <1>3
  <2>2. CASE ~(i <= l)
    <3>1. i - l \in 1..n /\ i = l + (i - l)
      BY <2>2, <1>1, <1>3
    <3> QED
      BY <3>1
  <2> QED
    BY <2>1, <2>2
<1>7. \A k \in 1..n : w.c.id + k - 1 \in ids
  BY <1>1 DEF ids
<1>8. Numbered(c)
  <2>1. 0 < w.c.id /\ \A i \in DOMAIN w.c.expect : 0 < i /\ i < w.c.id
    BY DEF OnItsWay, Numbered
  <2>2. ASSUME NEW i \in DOMAIN c.expect PROVE 0 < i /\ i < w.c.id + n
    <3>1. CASE i \in DOMAIN w.c.expect
      BY <3>1, <2>1, <1>1, <1>5
    <3>2. CASE i \in ids
      BY <3>2, <2>1, <1>1, <1>4
    <3> QED
      BY <3>1, <3>2, <1>2
  <2>3. 0 < w.c.id + n
    BY <2>1, <1>1
  <2> QED
    BY <2>2, <2>3, <1>1 DEF Numbered
<1>9. ASSUME NEW i \in 1..Len(c.out)
      PROVE c.out[i].id \in DOMAIN c.expect /\ c.expect[c.out[i].id].req = c.out[i].req
  <2>1. CASE i \in 1..l
    <3>1. w.c.out[i].id \in DOMAIN w.c.expect /\ w.c.expect[w.c.out[i].id].req = w.c.out[i].req
      BY <2>1 DEF OnItsWay, Awaited, l
    <3> QED
      BY <2>1, <3>1, <1>2, <1>3
  <2>2. CASE \E k \in 1..n : i = l + k
    <3>1. PICK k \in 1..n : i = l + k
      BY <2>2
    <3>2. c.out[i].id = w.c.id + k - 1 /\ c.out[i].req = A(w.c.id + k - 1)
      BY <3>1, <1>3
    <3>3. w.c.id + k - 1 \in ids
      BY <1>7
    <3> QED
      BY <3>2, <3>3, <1>2
  <2> QED
    BY <2>1, <2>2, <1>6
<1>10. ASSUME NEW i \in 1..Len(c.wire)
       PROVE c.wire[i].id \in DOMAIN c.expect /\ c.expect[c.wire[i].id].req = c.wire[i].req
  <2>1. w.c.wire[i].id \in DOMAIN w.c.expect /\ w.c.expect[w.c.wire[i].id].req = w.c.wire[i].req
    BY <1>1 DEF OnItsWay, Awaited
  <2> QED
    BY <2>1, <1>1, <1>2
<1>11. \A i \in 1..l : w.c.out[i].id < w.c.id /\ w.c.out[i].id \in Nat
  BY <1>5 DEF OnItsWay, Awaited, Numbered, l
<1>12. \A i \in 1..Len(w.c.wire) : w.c.wire[i].id < w.c.id /\ w.c.wire[i].id \in Nat
  BY <1>5 DEF OnItsWay, Awaited, Numbered
<1>13. InOrder(c)
  <2>1. ASSUME NEW i \in 1..Len(c.out), NEW j \in 1..Len(c.out), i < j PROVE c.out[i].id < c.out[j].id
    <3>1. CASE j \in 1..l
      <4>1. i \in 1..l
        BY <2>1, <3>1, <1>3
      <4> QED
        BY <2>1, <3>1, <4>1, <1>3 DEF OnItsWay, InOrder, l
    <3>2. CASE \E k \in 1..n : j = l + k
      <4>1. PICK k \in 1..n : j = l + k
        BY <3>2
      <4>2. c.out[j].id = w.c.id + k - 1
        BY <4>1, <1>3
      <4>3. CASE i \in 1..l
        <5>1. c.out[i].id < w.c.id /\ c.out[i].id \in Nat
          BY <4>3, <1>3, <1>11
        <5> QED
          BY <5>1, <4>2, <1>1
      <4>4. CASE \E x \in 1..n : i = l + x
        <5>1. PICK x \in 1..n : i = l + x
          BY <4>4
        <5>2. c.out[i].id = w.c.id + x - 1
          BY <5>1, <1>3
        <5>3. x < k
          BY <2>1, <4>1, <5>1, <1>1, <1>3
        <5> QED
          BY <4>2, <5>2, <5>3, <1>1
      <4> QED
        BY <4>3, <4>4, <1>6
    <3> QED
      BY <3>1, <3>2, <1>6
  <2>2. ASSUME NEW i \in 1..Len(c.wire), NEW j \in 1..Len(c.out) PROVE c.wire[i].id < c.out[j].id
    <3>1. CASE j \in 1..l
      <4>1. \A x \in 1..Len(w.c.wire), y \in 1..l : w.c.wire[x].id < w.c.out[y].id
        BY DEF OnItsWay, InOrder, l
      <4> QED
        BY <3>1, <4>1, <1>1, <1>3
    <3>2. CASE \E k \in 1..n : j = l + k
      <4>1. PICK k \in 1..n : j = l + k
        BY <3>2
      <4>2. c.out[j].id = w.c.id + k - 1
        BY <4>1, <1>3
      <4>3. c.wire[i].id < w.c.id /\ c.wire[i].id \in Nat
        BY <1>1, <1>12
      <4>4. w.c.id <= w.c.id + k - 1 /\ w.c.id + k - 1 \in Nat /\ w.c.id \in Nat
        BY <1>1
      <4> DEFINE x == c.wire[i].id  y == w.c.id + k - 1
      <4>5. x \in Nat /\ y \in Nat /\ w.c.id \in Nat /\ x < w.c.id /\ w.c.id <= y
        BY <4>3, <4>4
      <4> HIDE DEF x, y
      <4>6. x < y
        BY <4>5
      <4> QED
        BY <4>2, <4>6 DEF x, y
    <3> QED
      BY <3>1, <3>2, <1>6
  <2> QED
    BY <1>1, <2>1, <2>2 DEF OnItsWay, InOrder
<1>14. Answers(c)
  BY <1>1 DEF OnItsWay, Answers
<1> QED
  BY <1>1, <1>8, <1>9, <1>10, <1>13, <1>14 DEF OnItsWay, Awaited, c

\* Every file up to the end of the loop is known, or there is a request about it.
LEMMA AskWhole ==
    ASSUME NEW w, w.c \in Conn, Good(w), w.f.mode = "ARRAY_INFO", w.f.state = "WAITING", NEW m \in 1..(K + 1), w.f.next <= m,
           NEW n, n = Cardinality(Needed(w.f, m)), NEW v, AsksFor(w, m, n, v)
    PROVE  Leads(w, v, {}, {}) /\ v.f.next = m /\ v.f.state = "WAITING" /\ v.c \in Conn
<1> DEFINE f == w.f  g == v.f  c == v.c  A(i) == Asks(w, Needed(w.f, m), i)  ids == w.c.id..(w.c.id + n - 1)
<1>1. /\ w \in World /\ w.f \in Ses /\ w.c.on /\ Session(w) /\ OnItsWay(w.c) /\ Expects(f, w.c) /\ Kept(f, w.c, {})
      /\ Informed(f, w.c, {})
  BY OnIsConn, ConnFields DEF Good, Whole, Joint
<1>2. OnItsWay(c)
  BY <1>1, AskOnItsWay
<1>3. v \in World /\ c \in Conn /\ g = [f EXCEPT !.next = m]
  BY DEF AsksFor
<1>4. /\ g.mode = f.mode /\ g.file = f.file /\ g.handle = f.handle /\ g.buf = f.buf /\ g.state = f.state
      /\ g.next = m /\ g.info = f.info /\ g.pos = f.pos /\ g.ooo = f.ooo
  <2> HIDE DEF g
  <2> QED
    BY <1>1, <1>3, Zenon DEF Ses
<1>5. /\ c.net = w.c.net /\ c.wire = w.c.wire /\ c.handles = w.c.handles /\ c.refused = w.c.refused
      /\ DOMAIN c.expect = DOMAIN w.c.expect \cup ids
      /\ \A i \in ids : c.expect[i].req = A(i) /\ c.expect[i].tag = "INFO"
      /\ \A i \in DOMAIN w.c.expect : c.expect[i] = w.c.expect[i]
      /\ Len(w.c.out) \in Nat /\ Len(c.out) = Len(w.c.out) + n /\ n \in Nat
      /\ \A i \in 1..Len(w.c.out) : c.out[i] = w.c.out[i]
  BY DEF AsksFor
<1>6. \A i \in ids : A(i).k = "STAT" /\ A(i).for = f.file
  <2>1. m \in Nat
    BY Numbers
  <2> QED
    BY <1>1, <2>1, AsksAre
<1>7. \A i \in Needed(f, m) : \E id \in ids : A(id).pos = i
  <2>1. m \in Nat
    BY Numbers
  <2>2. \A i \in Needed(w.f, m) : \E id \in w.c.id..(w.c.id + n - 1) : Asks(w, Needed(w.f, m), id).pos = i
    BY <1>1, <2>1, AskedOnce
  <2> QED
    BY <2>2, Zenon
<1>8. f.mode = "ARRAY_INFO" /\ f.state = "WAITING"
  OBVIOUS
<1>9. f.next \in Nat /\ m \in Nat
  BY <1>1, NextIs, Numbers
<1> HIDE DEF f, g, c, A, ids
<1>10. Expects(g, c)
  <2>1. ASSUME NEW i \in DOMAIN c.expect PROVE Fits(g, c.expect[i]) /\ (c.expect[i].tag = "HANDLE" => i \in DOMAIN w.c.expect)
    <3>1. CASE i \in DOMAIN w.c.expect
      <4>1. Fits(f, w.c.expect[i])
        BY <3>1, <1>1 DEF Expects
      <4>2. Fits(g, w.c.expect[i])
        BY <4>1, <1>4 DEF Fits
      <4> QED
        BY <4>2, <3>1, <1>5
    <3>2. CASE i \in ids
      <4>1. c.expect[i].req = A(i) /\ c.expect[i].tag = "INFO"
        BY <3>2, <1>5
      <4> QED
        BY <4>1, <3>2, <1>4, <1>6, <1>8 DEF Fits
    <3> QED
      BY <3>1, <3>2, <1>5
  <2>2. ASSUME NEW i \in DOMAIN c.expect, NEW j \in DOMAIN c.expect, c.expect[i].tag = "HANDLE", c.expect[j].tag = "HANDLE" PROVE i = j
    <3>1. i \in DOMAIN w.c.expect /\ j \in DOMAIN w.c.expect
      BY <2>1, <2>2
    <3> QED
      BY <3>1, <2>2, <1>1, <1>5 DEF Expects
  <2> QED
    BY <2>1, <2>2 DEF Expects
<1>11. Kept(g, c, {})
  <2> SUFFICES ASSUME c.net # "lost", NEW h \in c.handles
               PROVE  \/ g.handle = h
                      \/ \E i \in 1..Len(c.out) : c.out[i].req.k = "CLOSE" /\ c.out[i].req.h = h
                      \/ \E i \in 1..Len(c.wire) : c.wire[i].h = h /\ c.expect[c.wire[i].id].tag \in {"HANDLE", "STALE"}
    BY DEF Kept
  <2>1. \/ f.handle = h
        \/ \E i \in 1..Len(w.c.out) : w.c.out[i].req.k = "CLOSE" /\ w.c.out[i].req.h = h
        \/ \E i \in 1..Len(w.c.wire) : w.c.wire[i].h = h /\ w.c.expect[w.c.wire[i].id].tag \in {"HANDLE", "STALE"}
    BY <1>1, <1>5 DEF Kept
  <2>2. CASE \E i \in 1..Len(w.c.out) : w.c.out[i].req.k = "CLOSE" /\ w.c.out[i].req.h = h
    <3>1. PICK i \in 1..Len(w.c.out) : w.c.out[i].req.k = "CLOSE" /\ w.c.out[i].req.h = h
      BY <2>2
    <3>2. i \in 1..Len(c.out) /\ c.out[i] = w.c.out[i]
      BY <1>5
    <3> QED
      BY <3>1, <3>2
  <2>3. CASE \E i \in 1..Len(w.c.wire) : w.c.wire[i].h = h /\ w.c.expect[w.c.wire[i].id].tag \in {"HANDLE", "STALE"}
    <3>1. PICK i \in 1..Len(w.c.wire) : w.c.wire[i].h = h /\ w.c.expect[w.c.wire[i].id].tag \in {"HANDLE", "STALE"}
      BY <2>3
    <3>2. w.c.wire[i].id \in DOMAIN w.c.expect
      BY <1>1 DEF OnItsWay, Awaited
    <3> QED
      BY <3>1, <3>2, <1>5
  <2> QED
    BY <2>1, <2>2, <2>3, <1>4
<1>12. Informed(g, c, {})
  <2> SUFFICES ASSUME NEW i \in 1..(m - 1)
               PROVE  \/ <<i, i>> \in g.info
                      \/ <<g.file, i>> \in c.refused
                      \/ \E j \in DOMAIN c.expect : c.expect[j].tag = "INFO" /\ c.expect[j].req.pos = i
    BY <1>4 DEF Informed
  <2>1. CASE i < f.next
    <3>1. i \in 1..(f.next - 1)
      BY <2>1, <1>9
    <3>2. \/ <<i, i>> \in f.info
          \/ <<f.file, i>> \in w.c.refused
          \/ \E j \in DOMAIN w.c.expect : w.c.expect[j].tag = "INFO" /\ w.c.expect[j].req.pos = i
      BY <3>1, <1>1, <1>8 DEF Informed
    <3> QED
      BY <3>2, <1>4, <1>5
  <2>2. CASE ~(i < f.next) /\ <<i, i>> \notin f.info
    <3>1. i \in f.next..(m - 1)
      BY <2>2, <1>9
    <3>2. i \in Needed(f, m)
      BY <2>2, <3>1 DEF Needed
    <3>3. PICK id \in ids : A(id).pos = i
      BY <3>2, <1>7
    <3>4. c.expect[id].tag = "INFO" /\ c.expect[id].req.pos = i /\ id \in DOMAIN c.expect
      BY <3>3, <1>5
    <3> QED
      BY <3>4
  <2> QED
    BY <2>1, <2>2, <1>4
<1>13. ~AtRest(g)
  BY <1>4, <1>8 DEF AtRest
<1>14. Phase(g) /\ Holds(g) /\ Known(g) /\ g.state # "DISCONNECTED"
  <2>1. Phase(f) /\ Holds(f) /\ Known(f)
    BY <1>1 DEF Session, f
  <2>2. Phase(g)
    BY <2>1, <1>4 DEF Phase, AtRest
  <2>3. Holds(g)
    BY <2>1, <1>4 DEF Holds
  <2>4. Known(g)
    BY <2>1, <1>4, <1>8 DEF Known
  <2> QED
    BY <2>2, <2>3, <2>4, <1>4, <1>8
<1>15. v \in World /\ v.f = g /\ v.c = c /\ c \in Conn /\ c.on
  BY <1>3, ConnFields DEF g, c
<1>16. Whole(v, {}, {})
  BY <1>2, <1>10, <1>11, <1>12, <1>13, <1>14, <1>15 DEF Whole, Session, Joint
<1> QED
  BY <1>16, <1>4, <1>8, <1>15 DEF Leads, f

\* SendArrayInfoRequests ends the operation when every file has been asked about and nothing is expected any more.
LEMMA SendArrayInfoLeads ==
    ASSUME NEW w, w.c \in Conn, Good(w), w.f.mode = "ARRAY_INFO", w.f.state = "WAITING"
    PROVE  Leads(w, SendArrayInfo(w), {}, {})
<1> DEFINE m == ArrayEnd(w)  n == Cardinality(Needed(w.f, m))  v == Ask(w, m)
           g == [v.f EXCEPT !.state = "DONE"]  u == [v EXCEPT !.f.state = "DONE"]
<1>1. w \in World /\ w.f \in Ses /\ Numbered(w.c) /\ w.c.expect \in Queue
  BY OnIsConn, ConnFields DEF Good, Whole, Joint, OnItsWay
<1>2. m \in w.f.next..(K + 1) /\ EndsBefore(w, m)
  BY <1>1, ArrayEndIs
<1> HIDE DEF m
<1>3. m \in 1..(K + 1) /\ w.f.next <= m /\ K \in Nat
  BY <1>1, <1>2, NextIs, Numbers
<1>4. AsksFor(w, m, n, v)
  BY <1>1, <1>3, AskIs
<1>d. SendArrayInfo(w) = IF DOMAIN v.c.expect = {} THEN u ELSE v
  BY Zenon DEF SendArrayInfo, m
<1> HIDE DEF v
<1>5. Leads(w, v, {}, {}) /\ v.f.next = m /\ v.f.state = "WAITING" /\ v.c \in Conn
  BY <1>3, <1>4, AskWhole
<1>6. ASSUME DOMAIN v.c.expect = {} PROVE Leads(w, u, {}, {})
  <2>1. v \in World /\ v.f \in Ses /\ Session(v) /\ Joint(v, {}, {}) /\ v.c.on /\ v.f.mode = "ARRAY_INFO"
    BY <1>5, OnIsConn, ConnFields DEF Leads, Whole
  <2>2. u = [f |-> g, c |-> v.c]
    <3>1. u = [v EXCEPT !.f = g]
      BY Zenon
    <3> HIDE DEF g, u
    <3> QED
      BY <2>1, <3>1, OnIsConn, Zenon DEF World
  <2>3. /\ g \in Ses /\ g.mode = v.f.mode /\ g.file = v.f.file /\ g.handle = v.f.handle /\ g.buf = v.f.buf
        /\ g.next = v.f.next /\ g.info = v.f.info /\ g.state = "DONE" /\ g.pos = v.f.pos /\ g.ooo = v.f.ooo
    BY <2>1, Zenon DEF Ses
  <2> HIDE DEF g, u
  <2>4. u \in World /\ u.f = g /\ u.c = v.c
    BY <2>2, <2>3, <1>5, WorldOf
  <2>5. m = K + 1
    <3>1. DOMAIN w.c.expect = {} /\ w.c.id..(w.c.id + n - 1) = {} /\ w.c.id \in Nat /\ n \in Nat
      BY <1>4, <1>6 DEF AsksFor
    <3>2. n = 0
      BY <3>1
    <3>3. QueueSize(w.c) = 0
      BY <3>1, FS_EmptySet DEF QueueSize
    <3>4. m > K \/ 0 + 0 >= MaxFlight
      BY <1>2, <3>2, <3>3 DEF EndsBefore
    <3> QED
      BY <3>4, <1>3, Numbers
  <2>6. Phase(g)
    BY <2>1, <2>3, <1>5 DEF Session, Phase, AtRest
  <2>7. Holds(g)
    BY <2>1, <2>3 DEF Session, Holds
  <2>8. Known(g)
    BY <2>1, <2>3, <2>5, <1>5 DEF Session, Known
  <2>9. OnItsWay(v.c) /\ Kept(v.f, v.c, {}) /\ Informed(v.f, v.c, {})
    BY <2>1 DEF Joint
  <2>10. Kept(g, v.c, {}) /\ Informed(g, v.c, {})
    BY <2>3, <2>9 DEF Kept, Informed
  <2>11. Expects(g, v.c) /\ \A i \in DOMAIN v.c.expect : v.c.expect[i].tag \in {"IGNORE", "STALE"}
    BY <1>6 DEF Expects
  <2>12. Whole(u, {}, {})
    BY <2>1, <2>3, <2>4, <2>6, <2>7, <2>8, <2>9, <2>10, <2>11 DEF Whole, Session, Joint
  <2> QED
    BY <2>3, <2>4, <2>12, <1>5 DEF Leads
<1> QED
  BY <1>5, <1>6, <1>d

\* Do, by the state of the connection and the operation
LEMMA DoStateLeads ==
    ASSUME NEW w, Good(w)
    PROVE  Leads(w, DoState(w), {}, {})
<1> DEFINE conn1 == [w.f EXCEPT !.state = "CONNECTED"]  v == [w EXCEPT !.f.state = "CONNECTED"]
           susp1 == [w.f EXCEPT !.susp = Len(w.f.buf.data) >= MaxBuf]  u == [w EXCEPT !.f.susp = Len(w.f.buf.data) >= MaxBuf]
<1>1. w \in World /\ w.f \in Ses /\ (w.c.on <=> w.c \in Conn) /\ Whole(w, {}, {}) /\ Session(w)
  BY OnIsConn DEF Good, Whole
<1>2. Leads(w, w, {}, {})
  BY <1>1 DEF Leads
<1>3. CASE w.f.error # "OK" \/ ~w.c.on
  <2>1. DoState(w) = w
    BY <1>3, Zenon DEF DoState
  <2> QED
    BY <2>1, <1>2
<1>4. CASE ~(w.f.error # "OK" \/ ~w.c.on) /\ w.f.state = "CONNECTING"
  <2>d. DoState(w) = IF w.c.net = "lost" THEN Disconnect(w) ELSE IF w.c.net = "syn" THEN w ELSE DoConnected(v)
    BY <1>4, Zenon DEF DoState
  <2>1. v = [f |-> conn1, c |-> w.c]
    <3>1. v = [w EXCEPT !.f = conn1]
      BY Zenon
    <3> HIDE DEF conn1, v
    <3> QED
      BY <1>1, <3>1, OnIsConn, Zenon DEF World
  <2>2. /\ conn1 \in Ses /\ conn1.mode = w.f.mode /\ conn1.file = w.f.file /\ conn1.handle = w.f.handle /\ conn1.buf = w.f.buf
        /\ conn1.next = w.f.next /\ conn1.info = w.f.info /\ conn1.state = "CONNECTED" /\ conn1.pos = w.f.pos /\ conn1.ooo = w.f.ooo
    BY <1>1, Zenon DEF Ses
  <2> HIDE DEF conn1, v
  <2>3. v \in World /\ v.f = conn1 /\ v.c = w.c
    BY <2>1, <2>2, <1>1, <1>4, WorldOf
  <2>4. Leads(w, v, {}, {})
    <3>1. AtRest(w.f) /\ w.c \in Conn
      BY <1>1, <1>4 DEF AtRest
    <3> QED
      BY <3>1, <2>2, <2>3, BeginLeads
  <2>5. Leads(v, DoConnected(v), {}, {})
    <3>1. v.c \in Conn /\ Good(v) /\ v.f.state = "CONNECTED"
      BY <2>2, <2>3, <2>4, <1>1, <1>4 DEF Leads, Good
    <3> QED
      BY <3>1, DoConnectedLeads
  <2>6. Leads(w, Disconnect(w), {}, {})
    BY <1>1, DisconnectLeads DEF Session
  <2>7. Leads(w, DoConnected(v), {}, {})
    BY <2>4, <2>5 DEF Leads
  <2> QED
    BY <2>6, <2>7, <2>d, <1>2
<1>5. CASE ~(w.f.error # "OK" \/ ~w.c.on) /\ w.f.state = "CONNECTED"
  <2>1. Leads(w, DoConnected(w), {}, {})
    BY <1>1, <1>5, DoConnectedLeads
  <2> QED
    BY <2>1, <1>5 DEF DoState
<1>6. CASE ~(w.f.error # "OK" \/ ~w.c.on) /\ w.f.state = "FILE_RECV"
  <2>d. DoState(w) = u
    BY <1>6, Zenon DEF DoState
  <2>1. u = [f |-> susp1, c |-> w.c]
    <3>1. u = [w EXCEPT !.f = susp1]
      BY Zenon
    <3> HIDE DEF susp1, u
    <3> QED
      BY <1>1, <3>1, OnIsConn, Zenon DEF World
  <2> DEFINE b == Len(w.f.buf.data) >= MaxBuf
  <2>b. b \in BOOLEAN /\ susp1 = [w.f EXCEPT !.susp = b]
    OBVIOUS
  <2> HIDE DEF b, susp1
  <2>2. /\ susp1 \in Ses /\ susp1.mode = w.f.mode /\ susp1.file = w.f.file /\ susp1.handle = w.f.handle /\ susp1.buf = w.f.buf
        /\ susp1.next = w.f.next /\ susp1.info = w.f.info /\ susp1.state = w.f.state /\ susp1.pos = w.f.pos /\ susp1.ooo = w.f.ooo
    BY <1>1, <2>b, Zenon DEF Ses
  <2> HIDE DEF u
  <2>3. u \in World /\ u.f = susp1 /\ u.c = w.c
    BY <2>1, <2>2, <1>1, <1>6, WorldOf
  <2>4. Rests(w.f, u.f)
    BY <2>2, <2>3 DEF Rests, Moves
  <2>5. Leads(w, u, {}, {})
    BY <2>3, <2>4, <1>1, <1>6, RestsWhole
  <2> QED
    BY <2>5, <2>d
<1>7. CASE ~(w.f.error # "OK" \/ ~w.c.on) /\ w.f.state = "FILE_SEND"
  <2>1. Leads(w, DoSend(w), {}, {})
    BY <1>1, <1>7, DoSendLeads
  <2> QED
    BY <2>1, <1>7 DEF DoState
<1>8. CASE ~(w.f.error # "OK" \/ ~w.c.on) /\ w.f.state = "WAITING"
  <2>1. w.f.mode = "ARRAY_INFO" => Leads(w, SendArrayInfo(w), {}, {})
    BY <1>1, <1>8, SendArrayInfoLeads
  <2> QED
    BY <2>1, <1>2, <1>8 DEF DoState
<1>9. CASE ~(w.f.error # "OK" \/ ~w.c.on) /\ w.f.state \in {"DISCONNECTED", "DONE"}
  BY <1>2, <1>9 DEF DoState
<1> QED
  BY <1>1, <1>3, <1>4, <1>5, <1>6, <1>7, <1>8, <1>9, SesFields

-----------------------------------------------------------------------------
(* Users.                                                                  *)

\* A request changes the connection only.
LEMMA SendSession ==
    ASSUME NEW w \in World, NEW q, NEW tag
    PROVE  Send(w, q, tag).f = w.f
<1> DEFINE v == Send(w, q, tag)
<1>1. \E d : v = [w EXCEPT !.c = d]
  BY Zenon DEF Send
<1> HIDE DEF v
<1>2. PICK d : v = [w EXCEPT !.c = d]
  BY <1>1
<1>3. v.f = w.f
  BY <1>2, Zenon DEF World
<1> QED
  BY <1>3 DEF v

\* Read: more is requested (RequestMoreData).
LEMMA RequestLeads ==
    ASSUME NEW w, w.c \in Conn, Good(w), w.f.mode = "RETRIEVE", w.f.buf.on
    PROVE  Leads(w, RequestMoreData(w), {}, {}) /\ RequestMoreData(w).f.buf = w.f.buf
<1> DEFINE to == w.f.req_pos + SizeRead  g == [w.f EXCEPT !.req_pos = to]  v == [w EXCEPT !.f.req_pos = @ + SizeRead]
           q == OnHandle(w.f, "READ", w.f.req_pos, SizeRead)
<1>1. w \in World /\ w.f \in Ses /\ w.f.req_pos \in Nat /\ SizeRead \in Nat
  <2>1. w \in World /\ w.f \in Ses
    BY OnIsConn DEF Good, Whole
  <2> QED
    BY <2>1, SesFields, Numbers
<1>2. to \in Nat
  BY <1>1
<1>3. v = [f |-> g, c |-> w.c]
  <2>1. v = [w EXCEPT !.f = g]
    BY Zenon
  <2> HIDE DEF g, v
  <2> QED
    BY <1>1, <2>1, OnIsConn, Zenon DEF World
<1> HIDE DEF to
<1>4. /\ g \in Ses /\ g.mode = w.f.mode /\ g.file = w.f.file /\ g.handle = w.f.handle /\ g.buf = w.f.buf
      /\ g.next = w.f.next /\ g.info = w.f.info /\ g.state = w.f.state /\ g.pos = w.f.pos /\ g.ooo = w.f.ooo
  BY <1>1, <1>2, Zenon DEF Ses
<1>d. RequestMoreData(w) = Send(v, q, "DATA")
  BY Zenon DEF RequestMoreData
<1> HIDE DEF g, v
<1>5. v \in World /\ v.f = g /\ v.c = w.c
  BY <1>3, <1>4, WorldOf
<1>6. Leads(w, v, {}, {})
  <2>1. Rests(w.f, v.f)
    BY <1>4, <1>5 DEF Rests, Moves
  <2> QED
    BY <2>1, <1>5, RestsWhole DEF Good
<1>7. q = OnHandle(v.f, "READ", w.f.req_pos, SizeRead)
  BY <1>4, <1>5 DEF OnHandle, Request
<1>8. Leads(v, Send(v, OnHandle(v.f, "READ", w.f.req_pos, SizeRead), "DATA"), {}, {})
  <2>1. Whole(v, {}, {}) /\ v.f.mode = "RETRIEVE" /\ v.f.buf.on /\ v.c \in Conn
    BY <1>4, <1>5, <1>6 DEF Leads
  <2> QED
    BY <2>1, <1>1, ReadLeads
<1>9. Send(v, q, "DATA").f = v.f
  BY <1>5, SendSession
<1> HIDE DEF q
<1>10. Leads(v, Send(v, q, "DATA"), {}, {})
  BY <1>7, <1>8
<1>11. Leads(w, Send(v, q, "DATA"), {}, {})
  BY <1>6, <1>10 DEF Leads
<1> QED
  BY <1>d, <1>4, <1>5, <1>9, <1>11

\* A session that holds a buffer has a connection.
LEMMA BufHasConn ==
    ASSUME NEW w, Good(w), w.f.buf.on
    PROVE  w \in World /\ w.f \in Ses /\ w.c \in Conn /\ ~AtRest(w.f)
<1>1. w \in World /\ Session(w)
  BY DEF Good, Whole
<1>2. ~AtRest(w.f)
  BY <1>1 DEF Session, Phase
<1>3. w.c.on
  BY <1>1, <1>2 DEF Session, AtRest
<1> QED
  BY <1>1, <1>2, <1>3, OnIsConn

\* Read takes a byte.
Takes(w) == [w EXCEPT !.f.buf.data = Tail(@), !.f.pos = @ + 1]
\* Read: the byte that is taken is the one of the file at the position, and the invariant is kept.
LEMMA TakesGood ==
    ASSUME NEW w, Good(w), w.f.mode = "RETRIEVE", w.f.buf.data # <<>>
    PROVE  /\ Good(Takes(w)) /\ Takes(w).f.mode = w.f.mode /\ Takes(w).f.file = w.f.file /\ Takes(w).f.pos = w.f.pos + 1
           /\ w.f.pos + 1 <= N /\ Head(w.f.buf.data) = <<w.f.file, w.f.pos>>
<1> DEFINE data == Tail(w.f.buf.data)  to == w.f.pos + 1  n == Len(w.f.buf.data)
           b == [w.f.buf EXCEPT !.data = data]  g == [[w.f EXCEPT !.buf = b] EXCEPT !.pos = to]  v == Takes(w)
<1>1. w \in World /\ w.f \in Ses /\ Session(w)
  BY OnIsConn DEF Good, Whole
<1>2. w.f.buf.on
  BY <1>1 DEF Session, Phase, NoBuf
<1>3. w.c \in Conn
  BY <1>2, BufHasConn
<1>4. /\ w.f.buf \in Buf /\ w.f.buf.data \in Seq(File \X Nat) /\ w.f.pos \in Nat /\ w.f.file \in File /\ n \in Nat
      /\ w.f.buf.data = Bytes(w.f.file, w.f.pos, n) /\ w.f.pos + n <= N /\ N \in Nat
  <2>1. w.f.buf \in Buf /\ w.f.buf.data \in Seq(File \X Nat) /\ w.f.pos \in Nat /\ w.f.file \in File
    BY <1>1, SesFields
  <2>2. w.f.buf.data = Bytes(w.f.file, w.f.pos, n) /\ w.f.pos + n <= N
    BY <1>1 DEF Session, Holds
  <2> QED
    BY <2>1, <2>2, LenProperties, Numbers
<1>5. n > 0
  BY <1>4, EmptySeq
<1>6. Head(w.f.buf.data) = <<w.f.file, w.f.pos>> /\ data = Bytes(w.f.file, w.f.pos + 1, n - 1)
  <2> DEFINE file == w.f.file  p == w.f.pos  s == w.f.buf.data
  <2>1. file \in File /\ p \in Nat /\ n \in Nat /\ n > 0 /\ s = Bytes(file, p, n) /\ data = Tail(s)
    BY <1>4, <1>5
  <2> HIDE DEF file, p, n, s, data
  <2>2. Head(Bytes(file, p, n)) = <<file, p>> /\ Tail(Bytes(file, p, n)) = Bytes(file, p + 1, n - 1)
    BY <2>1, BytesFront
  <2>3. Head(s) = <<file, p>> /\ data = Bytes(file, p + 1, n - 1)
    BY <2>1, <2>2
  <2> QED
    BY <2>3 DEF file, p, s
<1>7. v = [f |-> g, c |-> w.c]
  <2>1. v = [w EXCEPT !.f = g]
    BY Zenon DEF Takes
  <2> HIDE DEF g, v
  <2> QED
    BY <1>1, <2>1, OnIsConn, Zenon DEF World
<1>8. to \in Nat /\ n - 1 \in Nat /\ to + (n - 1) <= N /\ to <= N /\ to = w.f.pos + 1
  <2> DEFINE p == w.f.pos
  <2>1. p \in Nat /\ to = p + 1 /\ p + n <= N
    BY <1>4
  <2>2. n \in Nat /\ n > 0 /\ N \in Nat
    BY <1>4, <1>5
  <2> HIDE DEF n, p, to
  <2>3. to \in Nat /\ n - 1 \in Nat /\ to + (n - 1) <= N /\ to <= N
    BY <2>1, <2>2
  <2> QED
    BY <2>1, <2>3 DEF p
<1> HIDE DEF to, n
<1>9. data \in Seq(File \X Nat) /\ Len(data) = n - 1 /\ data = Bytes(w.f.file, to, n - 1)
  <2>1. data = Bytes(w.f.file, to, n - 1)
    BY <1>6, <1>8
  <2> HIDE DEF data
  <2>2. w.f.file \in File /\ to \in Nat /\ n - 1 \in Nat
    BY <1>4, <1>8
  <2> QED
    BY <2>1, <2>2, BytesAre
<1> HIDE DEF data
<1>10. b \in Buf /\ b.on = w.f.buf.on /\ b.data = data
  BY <1>4, <1>9, Zenon DEF Buf
<1> HIDE DEF b
<1>11. /\ g \in Ses /\ g.mode = w.f.mode /\ g.file = w.f.file /\ g.handle = w.f.handle /\ g.buf = b
       /\ g.next = w.f.next /\ g.info = w.f.info /\ g.state = w.f.state /\ g.pos = to /\ g.ooo = w.f.ooo
  BY <1>1, <1>8, <1>10, Zenon DEF Ses
<1> HIDE DEF g, v
<1>12. v \in World /\ v.f = g /\ v.c = w.c
  BY <1>3, <1>7, <1>11, WorldOf
<1>13. Moves(w.f, v.f)
  BY <1>10, <1>11, <1>12 DEF Moves
<1>14. Holds(g)
  <2>1. g.buf.data = Bytes(g.file, g.pos, Len(g.buf.data)) /\ g.pos + Len(g.buf.data) <= N
    BY <1>8, <1>9, <1>10, <1>11
  <2> QED
    BY <2>1, <1>1, <1>8, <1>11 DEF Session, Holds
<1>15. Whole(v, {}, {})
  BY <1>2, <1>3, <1>12, <1>13, <1>14, HoldsLeads DEF Good
<1>16. Good(v) /\ v.f.mode = w.f.mode /\ v.f.file = w.f.file /\ v.f.pos = w.f.pos + 1
  BY <1>8, <1>11, <1>12, <1>15 DEF Good
<1>17. w.f.pos + 1 <= N
  BY <1>8
<1> QED
  BY <1>6, <1>16, <1>17 DEF v

\* Write: a byte is put into the buffer of a store.
LEMMA WritesGood ==
    ASSUME NEW w, Good(w), w.f.mode = "STORE", w.f.state = "FILE_SEND", w.f.pos < N, NEW x \in File \X Nat,
           NEW data, data = Append(w.f.buf.data, x), NEW to, to = w.f.pos + 1
    PROVE  Good([f |-> [[w.f EXCEPT !.pos = to] EXCEPT !.buf = [w.f.buf EXCEPT !.data = data]], c |-> w.c])
<1> DEFINE b == [w.f.buf EXCEPT !.data = data]  g == [[w.f EXCEPT !.pos = to] EXCEPT !.buf = b]  v == [f |-> g, c |-> w.c]
<1>1. w \in World /\ w.f \in Ses /\ Session(w)
  BY OnIsConn DEF Good, Whole
<1>2. w.f.buf.on
  BY <1>1 DEF Session, Phase
<1>3. w.c \in Conn
  BY <1>2, BufHasConn
<1>4. w.f.buf \in Buf /\ w.f.buf.data \in Seq(File \X Nat) /\ w.f.pos \in Nat /\ N \in Nat
  BY <1>1, SesFields, Numbers
<1>5. data \in Seq(File \X Nat) /\ to \in Nat /\ to <= N
  BY <1>4, AppendProperties
<1>6. b \in Buf /\ b.on = w.f.buf.on
  BY <1>4, <1>5, Zenon DEF Buf
<1> HIDE DEF b
<1>7. /\ g \in Ses /\ g.mode = w.f.mode /\ g.file = w.f.file /\ g.handle = w.f.handle /\ g.buf = b
      /\ g.next = w.f.next /\ g.info = w.f.info /\ g.state = w.f.state /\ g.pos = to /\ g.ooo = w.f.ooo
  BY <1>1, <1>5, <1>6, Zenon DEF Ses
<1> HIDE DEF g
<1>8. v \in World /\ v.f = g /\ v.c = w.c
  BY <1>3, <1>7, WorldOf
<1> HIDE DEF v
<1>9. Moves(w.f, v.f)
  BY <1>6, <1>7, <1>8 DEF Moves
<1>10. Holds(g)
  BY <1>1, <1>5, <1>7 DEF Session, Holds
<1>11. Good(v)
  BY <1>2, <1>3, <1>8, <1>9, <1>10, HoldsLeads DEF Good
<1> QED
  BY <1>11 DEF v, g, b

\* StoreStatus notes the end of what is stored.
LEMMA EndsGood ==
    ASSUME NEW w, Good(w), w.f.mode = "STORE", w.f.state = "FILE_SEND"
    PROVE  Leads(w, [f |-> [w.f EXCEPT !.eof = TRUE], c |-> w.c], {}, {})
<1> DEFINE g == [w.f EXCEPT !.eof = TRUE]  v == [f |-> g, c |-> w.c]
<1>1. w \in World /\ w.f \in Ses /\ Session(w)
  BY OnIsConn DEF Good, Whole
<1>2. w.f.buf.on
  BY <1>1 DEF Session, Phase
<1>3. w.c \in Conn
  BY <1>2, BufHasConn
<1>7. /\ g \in Ses /\ g.mode = w.f.mode /\ g.file = w.f.file /\ g.handle = w.f.handle /\ g.buf = w.f.buf
      /\ g.next = w.f.next /\ g.info = w.f.info /\ g.state = w.f.state /\ g.pos = w.f.pos /\ g.ooo = w.f.ooo
  BY <1>1, Zenon DEF Ses
<1> HIDE DEF g
<1>8. v \in World /\ v.f = g /\ v.c = w.c
  BY <1>3, <1>7, WorldOf
<1> HIDE DEF v
<1>9. Rests(w.f, v.f)
  BY <1>7, <1>8 DEF Rests, Moves
<1>10. Leads(w, v, {}, {})
  BY <1>3, <1>8, <1>9, RestsWhole DEF Good
<1> QED
  BY <1>10 DEF v, g

\* Open begins an operation.
Opened(f, mode, file, at) == [[[f EXCEPT !.mode = mode] EXCEPT !.file = file] EXCEPT !.pos = at]
\* Open: the operation begins with a session at rest, whose expectations are all of operations that
\* were closed.
LEMMA OpenGood ==
    ASSUME NEW w, Good(w), w.f.mode = "CLOSED", NEW mode \in {"RETRIEVE", "STORE", "REMOVE", "ARRAY_INFO"},
           NEW file \in File, NEW at \in 0..N
    PROVE  /\ Good([f |-> Opened(w.f, mode, file, at), c |-> w.c])
           /\ Opened(w.f, mode, file, at).mode = mode /\ Opened(w.f, mode, file, at).file = file
           /\ Opened(w.f, mode, file, at).pos = at
<1> DEFINE f == w.f  c == w.c  g == Opened(w.f, mode, file, at)  v == [f |-> g, c |-> w.c]
<1>1. w \in World /\ f \in Ses /\ Session(w) /\ Joint(w, {}, {}) /\ (c = NoConn \/ c \in Conn) /\ at \in Nat /\ at <= N
  BY OnIsConn, Numbers DEF Good, Whole
<1>2. /\ g \in Ses /\ g.mode = mode /\ g.file = file /\ g.handle = f.handle /\ g.buf = f.buf
      /\ g.next = f.next /\ g.info = f.info /\ g.state = f.state /\ g.pos = at /\ g.ooo = f.ooo
  BY <1>1, Zenon DEF Ses, Opened
<1>3. f.mode = "CLOSED"
  OBVIOUS
<1>4. Phase(f) /\ Holds(f) /\ Known(f) /\ (f.state = "DISCONNECTED" <=> ~c.on)
  BY <1>1 DEF Session
<1>5. AtRest(f) /\ ~f.buf.on /\ f.handle = NoHandle /\ f.buf = NoBuf /\ f.ooo = <<>> /\ f.next = 1
      /\ f.state \in {"CONNECTED", "DISCONNECTED"}
  BY <1>3, <1>4 DEF Phase, Known, AtRest
<1>6. c.on => /\ OnItsWay(c) /\ Expects(f, c) /\ Kept(f, c, {}) /\ Informed(f, c, {})
              /\ \A i \in DOMAIN c.expect : c.expect[i].tag \in {"IGNORE", "STALE"}
  BY <1>1, <1>5 DEF Joint
<1> HIDE DEF g
<1>7. v \in World /\ v.f = g /\ v.c = c
  BY <1>1, <1>2, WorldOf
<1> HIDE DEF v, f, c
<1>8. Phase(g)
  BY <1>2, <1>5 DEF Phase, AtRest
<1>9. Holds(g)
  <2>1. Bytes(file, at, 0) = <<>> /\ NoBuf.data = <<>> /\ Len(<<>>) = 0
    BY <1>1, BytesNone DEF NoBuf
  <2> QED
    BY <2>1, <1>1, <1>2, <1>5, Numbers DEF Holds
<1>10. Known(g)
  BY <1>2, <1>4, <1>5 DEF Known
<1>11. c.on => Expects(g, c) /\ Kept(g, c, {}) /\ Informed(g, c, {})
  <2> HAVE c.on
  <2>1. ASSUME NEW i \in DOMAIN c.expect PROVE Fits(g, c.expect[i]) /\ c.expect[i].tag # "HANDLE"
    <3>1. Fits(f, c.expect[i]) /\ c.expect[i].tag \in {"IGNORE", "STALE"}
      BY <1>6 DEF Expects
    <3> QED
      BY <3>1 DEF Fits
  <2>2. Expects(g, c)
    BY <2>1 DEF Expects
  <2>3. Kept(g, c, {})
    BY <1>2, <1>6 DEF Kept
  <2>4. Informed(g, c, {})
    BY <1>2, <1>5 DEF Informed
  <2> QED
    BY <2>2, <2>3, <2>4
<1>12. Good(v)
  BY <1>2, <1>4, <1>6, <1>7, <1>8, <1>9, <1>10, <1>11 DEF Good, Whole, Session, Joint
<1> QED
  BY <1>2, <1>12 DEF v, g, c

-----------------------------------------------------------------------------
(* The network and the server.                                             *)

\* A connection is there.
LEMMA EstablishedGood ==
    ASSUME NEW w, Good(w), w.c \in Conn, w.c.net = "syn"
    PROVE  Leads(w, [f |-> w.f, c |-> [w.c EXCEPT !.net = "up"]], {}, {})
<1> DEFINE c == w.c  d == [w.c EXCEPT !.net = "up"]  f == w.f  v == [f |-> w.f, c |-> d]
<1>1. w \in World /\ f \in Ses /\ c.on /\ Session(w) /\ Joint(w, {}, {})
  BY OnIsConn, ConnFields DEF Good, Whole
<1>2. /\ d \in Conn /\ d.on = c.on /\ d.net = "up" /\ d.out = c.out /\ d.handles = c.handles /\ d.refused = c.refused
      /\ d.id = c.id /\ d.wire = c.wire /\ d.expect = c.expect
  BY Zenon DEF Conn
<1>3. /\ OnItsWay(c) /\ Expects(f, c) /\ Kept(f, c, {}) /\ Informed(f, c, {}) /\ c.net = "syn"
      /\ (AtRest(f) => \A i \in DOMAIN c.expect : c.expect[i].tag \in {"IGNORE", "STALE"})
  BY <1>1 DEF Joint
<1>4. Phase(f) /\ Holds(f) /\ Known(f) /\ (f.state = "DISCONNECTED" <=> ~c.on)
  BY <1>1 DEF Session
<1> HIDE DEF d
<1>5. v \in World /\ v.f = f /\ v.c = d
  BY <1>1, <1>2, WorldOf
<1> HIDE DEF v, f, c
<1>6. OnItsWay(d)
  BY <1>2, <1>3 DEF OnItsWay, Numbered, Awaited, Answers, InOrder
<1>7. Expects(f, d) /\ Kept(f, d, {}) /\ Informed(f, d, {})
  BY <1>2, <1>3 DEF Expects, Kept, Informed
<1>8. Whole(v, {}, {})
  BY <1>1, <1>2, <1>3, <1>4, <1>5, <1>6, <1>7 DEF Whole, Session, Joint
<1> QED
  BY <1>5, <1>8 DEF Leads, v, f, c, d

\* A connection is lost: some answers still come.
LEMMA LoseGood ==
    ASSUME NEW w, Good(w), w.c \in Conn, NEW n \in 0..Len(w.c.wire)
    PROVE  Leads(w, [f |-> w.f, c |-> [[[w.c EXCEPT !.net = "lost"] EXCEPT !.wire = SubSeq(w.c.wire, 1, n)] EXCEPT !.out = <<>>]], {}, {})
<1> DEFINE c == w.c  wire == SubSeq(w.c.wire, 1, n)
           d == [[[w.c EXCEPT !.net = "lost"] EXCEPT !.wire = wire] EXCEPT !.out = <<>>]  f == w.f  v == [f |-> w.f, c |-> d]
<1>1. w \in World /\ f \in Ses /\ c.on /\ Session(w) /\ Joint(w, {}, {}) /\ c.wire \in Seq(Answer) /\ Len(c.wire) \in Nat
  <2>1. w \in World /\ f \in Ses /\ c.on /\ Session(w) /\ Joint(w, {}, {}) /\ c.wire \in Seq(Answer)
    BY OnIsConn, ConnFields DEF Good, Whole
  <2> QED
    BY <2>1, LenProperties
<1>2. wire \in Seq(Answer) /\ Len(wire) = n /\ n \in Nat /\ n <= Len(c.wire) /\ \A i \in 1..n : wire[i] = c.wire[i]
  <2> DEFINE s == w.c.wire
  <2>1. s \in Seq(Answer) /\ Len(s) \in Nat /\ n \in 0..Len(s) /\ wire = SubSeq(s, 1, n)
    BY <1>1
  <2> HIDE DEF s
  <2>2. \A i \in 1..n : s[i] \in Answer
    BY <2>1, ElementOfSeq
  <2>3. SubSeq(s, 1, n) \in Seq(Answer) /\ Len(SubSeq(s, 1, n)) = n /\ \A i \in 1..n : SubSeq(s, 1, n)[i] = s[i]
    BY <2>1, <2>2, SubSeqProperties
  <2> QED
    BY <2>1, <2>3 DEF s
<1> HIDE DEF wire
<1>3. /\ d \in Conn /\ d.on = c.on /\ d.net = "lost" /\ d.out = <<>> /\ d.handles = c.handles /\ d.refused = c.refused
      /\ d.id = c.id /\ d.wire = wire /\ d.expect = c.expect
  <2>1. <<>> \in Seq(Sent)
    OBVIOUS
  <2> QED
    BY <1>2, <2>1, Zenon DEF Conn
<1>4. /\ OnItsWay(c) /\ Expects(f, c) /\ Informed(f, c, {})
      /\ (AtRest(f) => \A i \in DOMAIN c.expect : c.expect[i].tag \in {"IGNORE", "STALE"})
  BY <1>1 DEF Joint
<1>5. Phase(f) /\ Holds(f) /\ Known(f) /\ (f.state = "DISCONNECTED" <=> ~c.on)
  BY <1>1 DEF Session
<1> HIDE DEF d
<1>6. v \in World /\ v.f = f /\ v.c = d
  BY <1>1, <1>3, WorldOf
<1> HIDE DEF v, f, c
<1>7. OnItsWay(d)
  <2>1. \A i \in 1..Len(d.wire) : i \in 1..Len(c.wire) /\ d.wire[i] = c.wire[i]
    BY <1>1, <1>2, <1>3
  <2>2. Len(d.out) = 0
    BY <1>3
  <2>3. Numbered(d)
    BY <1>3, <1>4 DEF OnItsWay, Numbered
  <2>4. Awaited(d)
    BY <2>1, <2>2, <1>3, <1>4 DEF OnItsWay, Awaited
  <2>5. Answers(d)
    BY <2>1, <1>3, <1>4 DEF OnItsWay, Answers
  <2>6. InOrder(d)
    BY <2>1, <2>2, <1>4 DEF OnItsWay, InOrder
  <2> QED
    BY <2>3, <2>4, <2>5, <2>6, <1>3, <1>4 DEF OnItsWay
<1>8. Expects(f, d) /\ Kept(f, d, {}) /\ Informed(f, d, {})
  BY <1>3, <1>4 DEF Expects, Kept, Informed
<1>9. Whole(v, {}, {})
  BY <1>1, <1>3, <1>4, <1>5, <1>6, <1>7, <1>8 DEF Whole, Session, Joint
<1> QED
  BY <1>6, <1>9 DEF Leads, v, f, c, d, wire

\* The server answers what it has been asked first: the answer is behind all others, and what it
\* has opened or closed meanwhile is told by it.
Answered(c, a, handles, refused) ==
    [[[[c EXCEPT !.out = Tail(c.out)] EXCEPT !.wire = Append(c.wire, a)] EXCEPT !.handles = handles] EXCEPT !.refused = refused]

\* What an answer a to the first request may be
Fitting(c, a, handles, refused) ==
    /\ a \in Answer /\ a.id = Head(c.out).id /\ a.req = Head(c.out).req /\ Right(a)
    /\ a.req.k = "STAT" /\ a.t # "attrs" => <<a.req.for, a.req.pos>> \in refused
    /\ refused \in SUBSET (File \X Nat) /\ c.refused \subseteq refused
    /\ handles \in SUBSET Nat /\ 0 \notin handles
    /\ \A h \in handles : h \in c.handles \/ (a.t = "handle" /\ h = a.h)
    /\ a.req.k = "CLOSE" => a.req.h \notin handles

\* An answer takes the first request from the way to the server and is the last on the way back.
LEMMA AnsweredIs ==
    ASSUME NEW c \in Conn, c.out # <<>>, NEW a, NEW handles, NEW refused, Fitting(c, a, handles, refused)
    PROVE  LET d == Answered(c, a, handles, refused) IN
           /\ d \in Conn /\ d.on = c.on /\ d.net = c.net /\ d.handles = handles /\ d.refused = refused /\ d.id = c.id /\ d.expect = c.expect
           /\ Len(c.out) \in Nat /\ Len(c.out) > 0 /\ Len(d.out) = Len(c.out) - 1 /\ \A i \in 1..(Len(c.out) - 1) : d.out[i] = c.out[i + 1]
           /\ Len(c.wire) \in Nat /\ Len(d.wire) = Len(c.wire) + 1 /\ d.wire[Len(c.wire) + 1] = a
           /\ \A i \in 1..Len(c.wire) : d.wire[i] = c.wire[i]
           /\ a.id = c.out[1].id /\ a.req = c.out[1].req
<1> DEFINE d == Answered(c, a, handles, refused)  out == Tail(c.out)  wire == Append(c.wire, a)
<1>1. c.out \in Seq(Sent) /\ c.wire \in Seq(Answer) /\ a \in Answer
  BY ConnFields DEF Fitting
<1>2. /\ out \in Seq(Sent) /\ Len(c.out) \in Nat /\ Len(c.out) > 0 /\ Len(out) = Len(c.out) - 1
      /\ \A i \in 1..(Len(c.out) - 1) : out[i] = c.out[i + 1] /\ Head(c.out) = c.out[1]
  <2> DEFINE s == c.out
  <2>1. s \in Seq(Sent) /\ s # <<>> /\ out = Tail(s)
    BY <1>1
  <2> HIDE DEF s
  <2>2. Len(s) \in Nat /\ Len(s) > 0 /\ Head(s) = s[1]
    BY <2>1, LenProperties, EmptySeq
  <2>3. Tail(s) \in Seq(Sent) /\ Len(Tail(s)) = Len(s) - 1 /\ \A i \in 1..(Len(s) - 1) : Tail(s)[i] = s[i + 1]
    BY <2>1, HeadTailProperties
  <2> QED
    BY <2>1, <2>2, <2>3 DEF s
<1>h. Head(c.out) = c.out[1]
  BY <1>1
<1>3. /\ wire \in Seq(Answer) /\ Len(c.wire) \in Nat /\ Len(wire) = Len(c.wire) + 1 /\ wire[Len(c.wire) + 1] = a
      /\ \A i \in 1..Len(c.wire) : wire[i] = c.wire[i]
  <2> DEFINE s == c.wire
  <2>1. s \in Seq(Answer) /\ wire = Append(s, a)
    BY <1>1
  <2> HIDE DEF s
  <2>2. Len(s) \in Nat /\ Append(s, a) \in Seq(Answer) /\ Len(Append(s, a)) = Len(s) + 1
        /\ \A i \in 1..(Len(s) + 1) : Append(s, a)[i] = IF i = Len(s) + 1 THEN a ELSE s[i]
    BY <2>1, <1>1, LenProperties, AppendProperties
  <2>3. /\ Append(s, a)[Len(s) + 1] = a /\ \A i \in 1..Len(s) : Append(s, a)[i] = s[i]
    BY <2>2
  <2> QED
    BY <2>1, <2>2, <2>3 DEF s
<1> HIDE DEF out, wire
<1>4. handles \in SUBSET Nat /\ refused \in SUBSET (File \X Nat)
  BY DEF Fitting
<1>5. d = [[[[c EXCEPT !.out = out] EXCEPT !.wire = wire] EXCEPT !.handles = handles] EXCEPT !.refused = refused]
  BY Zenon DEF Answered, out, wire
<1>6. /\ d \in Conn /\ d.on = c.on /\ d.net = c.net /\ d.handles = handles /\ d.refused = refused /\ d.id = c.id /\ d.expect = c.expect
      /\ d.out = out /\ d.wire = wire
  <2> DEFINE e == [[[[c EXCEPT !.out = out] EXCEPT !.wire = wire] EXCEPT !.handles = handles] EXCEPT !.refused = refused]
  <2>1. /\ e \in Conn /\ e.on = c.on /\ e.net = c.net /\ e.handles = handles /\ e.refused = refused /\ e.id = c.id /\ e.expect = c.expect
        /\ e.out = out /\ e.wire = wire
    BY <1>2, <1>3, <1>4, Zenon DEF Conn
  <2> HIDE DEF e, d
  <2>2. d = e
    BY <1>5 DEF e
  <2> QED
    BY <2>1, <2>2
<1> HIDE DEF d
<1>7. a.id = c.out[1].id /\ a.req = c.out[1].req
  BY <1>h DEF Fitting
<1>8. /\ d \in Conn /\ d.on = c.on /\ d.net = c.net /\ d.handles = handles /\ d.refused = refused /\ d.id = c.id /\ d.expect = c.expect
      /\ Len(c.out) \in Nat /\ Len(c.out) > 0 /\ Len(d.out) = Len(c.out) - 1 /\ \A i \in 1..(Len(c.out) - 1) : d.out[i] = c.out[i + 1]
      /\ Len(c.wire) \in Nat /\ Len(d.wire) = Len(c.wire) + 1 /\ d.wire[Len(c.wire) + 1] = a
      /\ \A i \in 1..Len(c.wire) : d.wire[i] = c.wire[i]
      /\ a.id = c.out[1].id /\ a.req = c.out[1].req
  BY <1>2, <1>3, <1>6, <1>7
<1> QED
  BY <1>8 DEF d

\* Whatever the server answers, the invariant of the session and its connection is kept.
LEMMA AnsweredGood ==
    ASSUME NEW w, Good(w), w.c \in Conn, w.c.out # <<>>, NEW a, NEW handles, NEW refused, Fitting(w.c, a, handles, refused)
    PROVE  Leads(w, [f |-> w.f, c |-> Answered(w.c, a, handles, refused)], {}, {})
<1> DEFINE c == w.c  d == Answered(w.c, a, handles, refused)  f == w.f  v == [f |-> w.f, c |-> d]
           l == Len(c.out)  m == Len(c.wire)
<1>1. w \in World /\ f \in Ses /\ c.on /\ Session(w) /\ Joint(w, {}, {}) /\ c.expect \in Queue
  BY OnIsConn, ConnFields DEF Good, Whole
<1>2. /\ d \in Conn /\ d.on = c.on /\ d.net = c.net /\ d.handles = handles /\ d.refused = refused /\ d.id = c.id /\ d.expect = c.expect
      /\ l \in Nat /\ l > 0 /\ Len(d.out) = l - 1 /\ \A i \in 1..(l - 1) : d.out[i] = c.out[i + 1]
      /\ m \in Nat /\ Len(d.wire) = m + 1 /\ d.wire[m + 1] = a /\ \A i \in 1..m : d.wire[i] = c.wire[i]
      /\ a.id = c.out[1].id /\ a.req = c.out[1].req
  BY AnsweredIs
<1>3. /\ OnItsWay(c) /\ Expects(f, c) /\ Kept(f, c, {}) /\ Informed(f, c, {})
      /\ (AtRest(f) => \A i \in DOMAIN c.expect : c.expect[i].tag \in {"IGNORE", "STALE"})
  BY <1>1 DEF Joint
<1>4. Phase(f) /\ Holds(f) /\ Known(f) /\ (f.state = "DISCONNECTED" <=> ~c.on)
  BY <1>1 DEF Session
<1>5. /\ Right(a) /\ (a.req.k = "STAT" /\ a.t # "attrs" => <<a.req.for, a.req.pos>> \in refused)
      /\ c.refused \subseteq refused /\ 0 \notin handles
      /\ \A h \in handles : h \in c.handles \/ (a.t = "handle" /\ h = a.h)
      /\ (a.req.k = "CLOSE" => a.req.h \notin handles)
  BY DEF Fitting
<1> HIDE DEF d
<1>6. v \in World /\ v.f = f /\ v.c = d
  BY <1>1, <1>2, WorldOf
<1>7. /\ \A i \in 1..l : c.out[i].id \in DOMAIN c.expect /\ c.expect[c.out[i].id].req = c.out[i].req
      /\ \A i \in 1..m : c.wire[i].id \in DOMAIN c.expect /\ c.expect[c.wire[i].id].req = c.wire[i].req
      /\ \A i, j \in 1..l : i < j => c.out[i].id < c.out[j].id
      /\ \A i, j \in 1..m : i < j => c.wire[i].id < c.wire[j].id
      /\ \A i \in 1..m, j \in 1..l : c.wire[i].id < c.out[j].id
  BY <1>3 DEF OnItsWay, Awaited, InOrder
<1>8. a.id \in DOMAIN c.expect /\ c.expect[a.id].req = a.req
  <2>1. 1 \in 1..l
    BY <1>2
  <2> QED
    BY <2>1, <1>2, <1>7
<1> HIDE DEF v, f, c, l, m
<1>9. \A i \in 1..Len(d.wire) : i \in 1..m \/ i = m + 1
  BY <1>2
<1>10. \A i \in 1..Len(d.out) : i \in 1..(l - 1) /\ i + 1 \in 1..l /\ d.out[i] = c.out[i + 1]
  BY <1>2
<1>11. Awaited(d)
  <2>1. ASSUME NEW i \in 1..Len(d.out) PROVE d.out[i].id \in DOMAIN d.expect /\ d.expect[d.out[i].id].req = d.out[i].req
    BY <1>2, <1>7, <1>10
  <2>2. ASSUME NEW i \in 1..Len(d.wire) PROVE d.wire[i].id \in DOMAIN d.expect /\ d.expect[d.wire[i].id].req = d.wire[i].req
    <3>1. CASE i \in 1..m
      BY <3>1, <1>2, <1>7
    <3>2. CASE i = m + 1
      BY <3>2, <1>2, <1>8
    <3> QED
      BY <3>1, <3>2, <1>9
  <2> QED
    BY <2>1, <2>2 DEF Awaited
<1>12. Answers(d)
  <2>1. ASSUME NEW i \in 1..Len(d.wire)
        PROVE  /\ Right(d.wire[i])
               /\ d.wire[i].req.k = "STAT" /\ d.wire[i].t # "attrs" => <<d.wire[i].req.for, d.wire[i].req.pos>> \in d.refused
    <3>1. CASE i \in 1..m
      <4>1. i \in 1..Len(c.wire)
        BY <3>1 DEF m
      <4>2. /\ Right(c.wire[i])
            /\ c.wire[i].req.k = "STAT" /\ c.wire[i].t # "attrs" => <<c.wire[i].req.for, c.wire[i].req.pos>> \in c.refused
        BY <4>1, <1>3 DEF OnItsWay, Answers
      <4> QED
        BY <4>2, <3>1, <1>2, <1>5
    <3>2. CASE i = m + 1
      BY <3>2, <1>2, <1>5
    <3> QED
      BY <3>1, <3>2, <1>9
  <2> QED
    BY <2>1 DEF Answers
<1>13. InOrder(d)
  <2>1. ASSUME NEW i \in 1..Len(d.out), NEW j \in 1..Len(d.out), i < j PROVE d.out[i].id < d.out[j].id
    <3>1. i + 1 < j + 1
      BY <2>1
    <3> QED
      BY <3>1, <1>7, <1>10
  <2>2. ASSUME NEW i \in 1..Len(d.wire), NEW j \in 1..Len(d.wire), i < j PROVE d.wire[i].id < d.wire[j].id
    <3>1. i \in 1..m
      BY <2>2, <1>2
    <3>2. CASE j \in 1..m
      BY <3>1, <3>2, <2>2, <1>2, <1>7
    <3>3. CASE j = m + 1
      <4>1. 1 \in 1..l
        BY <1>2
      <4> QED
        BY <3>1, <3>3, <4>1, <1>2, <1>7
    <3> QED
      BY <3>2, <3>3, <1>9
  <2>3. ASSUME NEW i \in 1..Len(d.wire), NEW j \in 1..Len(d.out) PROVE d.wire[i].id < d.out[j].id
    <3>1. CASE i \in 1..m
      BY <3>1, <1>2, <1>7, <1>10
    <3>2. CASE i = m + 1
      <4>1. 1 \in 1..l /\ 1 < j + 1
        BY <1>2
      <4> QED
        BY <3>2, <4>1, <1>2, <1>7, <1>10
    <3> QED
      BY <3>1, <3>2, <1>9
  <2> QED
    BY <2>1, <2>2, <2>3 DEF InOrder
<1>14. OnItsWay(d)
  <2>1. Numbered(d)
    BY <1>2, <1>3 DEF OnItsWay, Numbered
  <2> QED
    BY <2>1, <1>2, <1>5, <1>11, <1>12, <1>13 DEF OnItsWay
<1>15. Expects(f, d) /\ Informed(f, d, {})
  BY <1>2, <1>3, <1>5 DEF Expects, Informed
<1>16. Kept(f, d, {})
  <2> SUFFICES ASSUME d.net # "lost", NEW h \in d.handles
               PROVE  \/ f.handle = h
                      \/ \E i \in 1..Len(d.out) : d.out[i].req.k = "CLOSE" /\ d.out[i].req.h = h
                      \/ \E i \in 1..Len(d.wire) : d.wire[i].h = h /\ d.expect[d.wire[i].id].tag \in {"HANDLE", "STALE"}
    BY DEF Kept
  <2>1. CASE h \in c.handles
    <3>1. \/ f.handle = h
          \/ \E i \in 1..l : c.out[i].req.k = "CLOSE" /\ c.out[i].req.h = h
          \/ \E i \in 1..m : c.wire[i].h = h /\ c.expect[c.wire[i].id].tag \in {"HANDLE", "STALE"}
      BY <2>1, <1>2, <1>3 DEF Kept, l, m
    <3>2. CASE \E i \in 1..l : c.out[i].req.k = "CLOSE" /\ c.out[i].req.h = h
      <4>1. PICK i \in 1..l : c.out[i].req.k = "CLOSE" /\ c.out[i].req.h = h
        BY <3>2
      <4>2. i # 1
        BY <4>1, <1>2, <1>5
      <4>3. i - 1 \in 1..(l - 1) /\ (i - 1) + 1 = i /\ i - 1 \in 1..Len(d.out)
        BY <4>2, <1>2
      <4>4. d.out[i - 1] = c.out[i]
        BY <4>3, <1>10
      <4> QED
        BY <4>1, <4>3, <4>4
    <3>3. CASE \E i \in 1..m : c.wire[i].h = h /\ c.expect[c.wire[i].id].tag \in {"HANDLE", "STALE"}
      <4>1. PICK i \in 1..m : c.wire[i].h = h /\ c.expect[c.wire[i].id].tag \in {"HANDLE", "STALE"}
        BY <3>3
      <4>2. i \in 1..Len(d.wire) /\ d.wire[i] = c.wire[i]
        BY <1>2
      <4> QED
        BY <4>1, <4>2, <1>2
    <3> QED
      BY <3>1, <3>2, <3>3
  <2>2. CASE a.t = "handle" /\ h = a.h
    <3>1. a.req.k \in {"OPEN", "CREATE"}
      BY <2>2, <1>5 DEF Right
    <3>2. c.expect[a.id].tag \in {"HANDLE", "STALE"}
      <4>1. Fits(f, c.expect[a.id])
        BY <1>3, <1>8 DEF Expects
      <4> QED
        BY <4>1, <3>1, <1>8 DEF Fits
    <3>3. m + 1 \in 1..Len(d.wire) /\ d.wire[m + 1] = a
      BY <1>2
    <3> QED
      BY <3>2, <3>3, <2>2, <1>2
  <2> QED
    BY <2>1, <2>2, <1>2, <1>5
<1>17. Whole(v, {}, {})
  BY <1>1, <1>2, <1>3, <1>4, <1>6, <1>14, <1>15, <1>16 DEF Whole, Session, Joint
<1> QED
  BY <1>6, <1>17 DEF Leads, v, f, c, d

\* The request that the server reads is a request that is expected.
LEMMA FirstIs ==
    ASSUME NEW c \in Conn, OnItsWay(c), c.out # <<>>
    PROVE  LET r == Head(c.out) IN r.id \in Nat /\ r.id > 0 /\ r.req \in Req
<1> DEFINE r == Head(c.out)
<1>1. c.out \in Seq(Sent) /\ c.expect \in Queue
  BY ConnFields
<1>2. r \in Sent /\ r = c.out[1] /\ 1 \in 1..Len(c.out)
  <2> DEFINE s == c.out
  <2>1. s \in Seq(Sent) /\ s # <<>>
    BY <1>1
  <2> HIDE DEF s
  <2>2. Len(s) \in Nat /\ Len(s) > 0 /\ Head(s) = s[1]
    BY <2>1, LenProperties, EmptySeq
  <2>3. s[1] \in Sent
    BY <2>1, <2>2, ElementOfSeq
  <2> QED
    BY <2>2, <2>3 DEF s
<1> HIDE DEF r
<1>3. r.id \in Nat /\ r.req \in Req
  BY <1>2, Zenon DEF Sent
<1>4. r.id > 0
  BY <1>2 DEF OnItsWay, Awaited, Numbered
<1> QED
  BY <1>3, <1>4 DEF r

\* What the server does when it grants a request
HandlesAfter(c, a) ==
    CASE a.t = "handle" -> c.handles \cup {a.h}
      [] Head(c.out).req.k = "CLOSE" -> c.handles \ {Head(c.out).req.h}
      [] OTHER -> c.handles

\* An answer that grants a request is one to it.
LEMMA GrantedFits ==
    ASSUME NEW c \in Conn, OnItsWay(c), c.out # <<>>, NEW a \in Granted(Head(c.out))
    PROVE  Fitting(c, a, HandlesAfter(c, a), c.refused)
<1> DEFINE r == Head(c.out)  q == r.req
           reply == [id |-> r.id, req |-> q, t |-> "status", code |-> "ok", h |-> NoHandle, data |-> <<>>, of |-> 0]
           most == IF q.n < N - q.pos THEN q.n ELSE N - q.pos
           S == IF ShortReads THEN 1..most ELSE {most}
<1>1. r.id \in Nat /\ r.id > 0 /\ q \in Req /\ c.handles \in SUBSET Nat /\ c.refused \in SUBSET (File \X Nat) /\ 0 \notin c.handles
  BY FirstIs, ConnFields DEF OnItsWay
<1>2. /\ q.k \in {"OPEN", "CREATE", "REMOVE", "STAT", "FSTAT", "READ", "WRITE", "CLOSE"}
      /\ q.for \in File /\ q.pos \in Nat /\ q.n \in Nat /\ q.h \in Nat
  BY <1>1, ReqFields
<1>g. a \in Granted(r)
  OBVIOUS
<1>3. \/ q.k \in {"OPEN", "CREATE"} /\ a = [[reply EXCEPT !.t = "handle"] EXCEPT !.h = r.id]
      \/ q.k \in {"STAT", "FSTAT"} /\ a = [[reply EXCEPT !.t = "attrs"] EXCEPT !.of = q.pos]
      \/ q.k = "READ" /\ q.pos >= N /\ a = [reply EXCEPT !.code = "eof"]
      \/ q.k = "READ" /\ q.pos < N /\ \E x \in S : a = [[reply EXCEPT !.t = "data"] EXCEPT !.data = Bytes(q.for, q.pos, x)]
      \/ q.k \in {"REMOVE", "WRITE", "CLOSE"} /\ a = reply
  <2> HIDE DEF S, reply
  <2>1. CASE q.k \in {"OPEN", "CREATE"}
    <3>1. Granted(r) = {[reply EXCEPT !.t = "handle", !.h = r.id]}
      BY <2>1 DEF Granted, reply
    <3> QED
      BY <3>1, <2>1, <1>g, Zenon
  <2>2. CASE q.k \in {"STAT", "FSTAT"}
    <3>1. Granted(r) = {[reply EXCEPT !.t = "attrs", !.of = q.pos]}
      BY <2>2 DEF Granted, reply
    <3> QED
      BY <3>1, <2>2, <1>g, Zenon
  <2>3. CASE q.k = "READ" /\ q.pos >= N
    <3>1. Granted(r) = {[reply EXCEPT !.code = "eof"]}
      <4>1. ~(q.pos < N)
        BY <2>3, <1>2, Numbers
      <4> QED
        BY <2>3, <4>1, Zenon DEF Granted, reply
    <3> QED
      BY <3>1, <2>3, <1>g, Zenon
  <2>4. CASE q.k = "READ" /\ q.pos < N
    <3>1. Granted(r) = {[reply EXCEPT !.t = "data", !.data = Bytes(q.for, q.pos, x)] : x \in S}
      <4>1. ~(q.pos >= N)
        BY <2>4, <1>2, Numbers
      <4> QED
        BY <2>4, <4>1, Zenon DEF Granted, reply, S
    <3> QED
      BY <3>1, <2>4, <1>g, Zenon
  <2>5. CASE q.k \in {"REMOVE", "WRITE", "CLOSE"}
    <3>1. Granted(r) = {reply}
      BY <2>5 DEF Granted, reply
    <3> QED
      BY <3>1, <2>5, <1>g, Zenon
  <2>6. q.k = "READ" => q.pos >= N \/ q.pos < N
    BY <1>2, Numbers
  <2> QED
    BY <2>1, <2>2, <2>3, <2>4, <2>5, <2>6, <1>2
<1>4. /\ reply \in Answer /\ reply.id = r.id /\ reply.req = q /\ reply.t = "status" /\ reply.code = "ok" /\ reply.h = NoHandle
      /\ reply.data = <<>> /\ reply.of = 0
  <2>1. NoHandle \in Nat /\ <<>> \in Seq(File \X Nat) /\ 0 \in Nat
    BY DEF NoHandle
  <2> HIDE DEF r
  <2> QED
    BY <1>1, <2>1 DEF Answer
<1>5. \A x \in S : q.k = "READ" /\ q.pos < N => /\ x \in Nat /\ x <= q.n /\ q.pos + x <= N
                                                  /\ Bytes(q.for, q.pos, x) \in Seq(File \X Nat) /\ Len(Bytes(q.for, q.pos, x)) = x
                                                  /\ (ShortReads \/ x = q.n \/ q.pos + x = N)
  <2> SUFFICES ASSUME NEW x \in S, q.k = "READ", q.pos < N
               PROVE  /\ x \in Nat /\ x <= q.n /\ q.pos + x <= N
                      /\ Bytes(q.for, q.pos, x) \in Seq(File \X Nat) /\ Len(Bytes(q.for, q.pos, x)) = x
                      /\ (ShortReads \/ x = q.n \/ q.pos + x = N)
    OBVIOUS
  <2> DEFINE n == q.n  p == q.pos
  <2>1. n \in Nat /\ p \in Nat /\ N \in Nat /\ p < N /\ most = (IF n < N - p THEN n ELSE N - p)
    BY <1>2, Numbers
  <2>s. x \in 1..most \/ x = most
    OBVIOUS
  <2>t. ShortReads \/ x = most
    OBVIOUS
  <2> HIDE DEF n, p, most
  <2>2. most \in Nat /\ most <= n /\ p + most <= N /\ (most = n \/ p + most = N)
    BY <2>1
  <2>3. x \in Nat /\ x <= n /\ p + x <= N /\ (ShortReads \/ x = n \/ p + x = N)
    BY <2>1, <2>2, <2>s, <2>t
  <2>4. q.for \in File /\ q.pos \in Nat /\ x \in Nat
    BY <1>2, <2>3
  <2> QED
    BY <2>3, <2>4, BytesAre DEF n, p
<1> HIDE DEF r, S, reply
<1>6. /\ a \in Answer /\ a.id = r.id /\ a.req = q
      /\ \/ q.k \in {"OPEN", "CREATE"} /\ a.t = "handle" /\ a.h = r.id
         \/ q.k \in {"STAT", "FSTAT"} /\ a.t = "attrs" /\ a.of = q.pos /\ a.h = NoHandle
         \/ q.k = "READ" /\ q.pos >= N /\ a.t = "status" /\ a.code = "eof" /\ a.h = NoHandle
         \/ q.k = "READ" /\ q.pos < N /\ a.t = "data" /\ a.h = NoHandle /\ \E x \in S : a.data = Bytes(q.for, q.pos, x)
         \/ q.k \in {"REMOVE", "WRITE", "CLOSE"} /\ a.t = "status" /\ a.code = "ok" /\ a.h = NoHandle
  <2>1. CASE q.k \in {"OPEN", "CREATE"} /\ a = [[reply EXCEPT !.t = "handle"] EXCEPT !.h = r.id]
    <3>1. a \in Answer /\ a.id = reply.id /\ a.req = reply.req /\ a.t = "handle" /\ a.h = r.id
      BY <2>1, <1>1, <1>4, Zenon DEF Answer
    <3> QED
      BY <3>1, <2>1, <1>4
  <2>2. CASE q.k \in {"STAT", "FSTAT"} /\ a = [[reply EXCEPT !.t = "attrs"] EXCEPT !.of = q.pos]
    <3>1. a \in Answer /\ a.id = reply.id /\ a.req = reply.req /\ a.t = "attrs" /\ a.of = q.pos /\ a.h = reply.h
      BY <2>2, <1>2, <1>4, Zenon DEF Answer
    <3> QED
      BY <3>1, <2>2, <1>4
  <2>3. CASE q.k = "READ" /\ q.pos >= N /\ a = [reply EXCEPT !.code = "eof"]
    <3>1. a \in Answer /\ a.id = reply.id /\ a.req = reply.req /\ a.t = reply.t /\ a.code = "eof" /\ a.h = reply.h
      BY <2>3, <1>4, Zenon DEF Answer
    <3> QED
      BY <3>1, <2>3, <1>4
  <2>4. CASE q.k = "READ" /\ q.pos < N /\ \E x \in S : a = [[reply EXCEPT !.t = "data"] EXCEPT !.data = Bytes(q.for, q.pos, x)]
    <3>1. PICK x \in S : a = [[reply EXCEPT !.t = "data"] EXCEPT !.data = Bytes(q.for, q.pos, x)]
      BY <2>4
    <3>2. Bytes(q.for, q.pos, x) \in Seq(File \X Nat)
      BY <2>4, <1>5
    <3>3. a \in Answer /\ a.id = reply.id /\ a.req = reply.req /\ a.t = "data" /\ a.data = Bytes(q.for, q.pos, x) /\ a.h = reply.h
      BY <3>1, <3>2, <1>4, Zenon DEF Answer
    <3> QED
      BY <3>3, <2>4, <1>4
  <2>5. CASE q.k \in {"REMOVE", "WRITE", "CLOSE"} /\ a = reply
    BY <2>5, <1>4
  <2> QED
    BY <2>1, <2>2, <2>3, <2>4, <2>5, <1>3
<1>7. Right(a)
  <2>1. CASE q.k = "READ" /\ q.pos < N /\ a.t = "data" /\ a.h = NoHandle /\ \E x \in S : a.data = Bytes(q.for, q.pos, x)
    <3>1. PICK x \in S : a.data = Bytes(q.for, q.pos, x)
      BY <2>1
    <3>2. /\ x <= q.n /\ q.pos + x <= N /\ Len(a.data) = x /\ (ShortReads \/ x = q.n \/ q.pos + x = N)
      BY <3>1, <2>1, <1>5
    <3> QED
      BY <3>1, <3>2, <2>1, <1>6 DEF Right
  <2>2. CASE ~(q.k = "READ" /\ q.pos < N /\ a.t = "data")
    BY <2>2, <1>1, <1>6 DEF Right
  <2> QED
    BY <2>1, <2>2, <1>6
<1>8. /\ HandlesAfter(c, a) \in SUBSET Nat /\ 0 \notin HandlesAfter(c, a)
      /\ \A h \in HandlesAfter(c, a) : h \in c.handles \/ (a.t = "handle" /\ h = a.h)
      /\ q.k = "CLOSE" => q.h \notin HandlesAfter(c, a)
  <2>1. CASE a.t = "handle"
    <3>1. HandlesAfter(c, a) = c.handles \cup {a.h}
      <4>1. q.k # "CLOSE"
        BY <2>1, <1>6
      <4> QED
        BY <2>1, <4>1 DEF HandlesAfter, r
    <3> QED
      BY <3>1, <2>1, <1>1, <1>6
  <2>2. CASE a.t # "handle" /\ q.k = "CLOSE"
    <3>1. HandlesAfter(c, a) = c.handles \ {q.h}
      BY <2>2 DEF HandlesAfter, r
    <3> QED
      BY <3>1, <1>1
  <2>3. CASE a.t # "handle" /\ q.k # "CLOSE"
    <3>1. HandlesAfter(c, a) = c.handles
      BY <2>3 DEF HandlesAfter, r
    <3> QED
      BY <3>1, <2>3, <1>1
  <2> QED
    BY <2>1, <2>2, <2>3
<1>9. a.req.k = "STAT" => a.t = "attrs"
  BY <1>6
<1> QED
  BY <1>1, <1>6, <1>7, <1>8, <1>9 DEF Fitting, r

\* So is one that refuses it.
LEMMA RefusedFits ==
    ASSUME NEW c \in Conn, OnItsWay(c), c.out # <<>>
    PROVE  Fitting(c, Refused(Head(c.out)), IF Head(c.out).req.k = "CLOSE" THEN c.handles \ {Head(c.out).req.h} ELSE c.handles,
                   IF Head(c.out).req.k = "STAT" THEN c.refused \cup {<<Head(c.out).req.for, Head(c.out).req.pos>>} ELSE c.refused)
<1> DEFINE r == Head(c.out)  q == r.req  a == Refused(r)
           handles == IF q.k = "CLOSE" THEN c.handles \ {q.h} ELSE c.handles
           refused == IF q.k = "STAT" THEN c.refused \cup {<<q.for, q.pos>>} ELSE c.refused
<1>1. r.id \in Nat /\ r.id > 0 /\ q \in Req /\ c.handles \in SUBSET Nat /\ c.refused \in SUBSET (File \X Nat) /\ 0 \notin c.handles
  BY FirstIs, ConnFields DEF OnItsWay
<1>2. q.for \in File /\ q.pos \in Nat
  BY <1>1, ReqFields
<1> HIDE DEF r
<1>3. a \in Answer /\ a.id = r.id /\ a.req = q /\ a.t = "status" /\ a.code = "fail" /\ a.h = NoHandle
  <2>1. NoHandle \in Nat /\ <<>> \in Seq(File \X Nat) /\ 0 \in Nat
    BY DEF NoHandle
  <2> QED
    BY <1>1, <2>1 DEF Answer, Refused
<1> HIDE DEF a
<1>4. Right(a)
  BY <1>3 DEF Right
<1>5. /\ handles \in SUBSET Nat /\ 0 \notin handles /\ (\A h \in handles : h \in c.handles) /\ (q.k = "CLOSE" => q.h \notin handles)
  BY <1>1
<1>6. /\ refused \in SUBSET (File \X Nat) /\ c.refused \subseteq refused /\ (q.k = "STAT" => <<q.for, q.pos>> \in refused)
  BY <1>1, <1>2
<1> HIDE DEF handles, refused
<1>7. Fitting(c, a, handles, refused)
  BY <1>3, <1>4, <1>5, <1>6 DEF Fitting, r
<1> QED
  BY <1>7 DEF a, handles, refused, r

-----------------------------------------------------------------------------
(* The steps.                                                              *)

\* What the user has read does not depend on where the session is.
LEMMA ReadsKept ==
    ASSUME NEW f, NEW u, Reads(f, u), NEW g, g.mode = f.mode, g.file = f.file, g.pos = f.pos
    PROVE  Reads(g, u)
BY DEF Reads

\* The fields of the user of a session have their types.
LEMMA UserFields ==
    ASSUME NEW u \in User
    PROVE  u.open.file \in File /\ u.open.from \in Nat /\ u.got \in Seq(File \X Nat) /\ u.eof \in BOOLEAN
BY Zenon DEF User

\* What the invariant says of one session.
LEMMA SessionIs ==
    ASSUME IInv, NEW s \in Sessions
    PROVE  /\ W(s) \in World /\ W(s).f = ses[s] /\ W(s).c = conn[s] /\ Good(W(s)) /\ Reads(ses[s], user[s])
           /\ ses[s] \in Ses /\ user[s] \in User /\ (conn[s].on <=> conn[s] \in Conn) /\ (~conn[s].on <=> conn[s] = NoConn)
           /\ Session(W(s)) /\ opens \in Nat /\ faults \in Nat
<1>1. Good(W(s)) /\ Reads(ses[s], user[s]) /\ ses[s] \in Ses /\ user[s] \in User /\ opens \in Nat /\ faults \in Nat
  BY DEF IInv
<1>2. W(s).f = ses[s] /\ W(s).c = conn[s]
  BY DEF W
<1>3. W(s) \in World /\ Session(W(s))
  BY <1>1 DEF Good, Whole
<1> QED
  BY <1>1, <1>2, <1>3, OnIsConn

\* A step of one session, with its connection and its user
LEMMA OneSession ==
    ASSUME IInv, NEW s \in Sessions, NEW g, NEW c, NEW u \in User,
           ses' = [ses EXCEPT ![s] = g], conn' = [conn EXCEPT ![s] = c], user' = [user EXCEPT ![s] = u],
           Good([f |-> g, c |-> c]), Reads(g, u), opens' \in Nat, faults' \in Nat
    PROVE  IInv'
<1>1. ses \in [Sessions -> Ses] /\ conn \in [Sessions -> {NoConn} \cup Conn] /\ user \in [Sessions -> User]
      /\ \A i \in Sessions : Good(W(i)) /\ Reads(ses[i], user[i])
  BY DEF IInv
<1>2. g \in Ses /\ c \in {NoConn} \cup Conn
  <2> DEFINE v == [f |-> g, c |-> c]
  <2>1. v \in World /\ v.f = g /\ v.c = c
    BY DEF Good, Whole
  <2> HIDE DEF v
  <2> QED
    BY <2>1, OnIsConn
<1>3. ses' \in [Sessions -> Ses] /\ conn' \in [Sessions -> {NoConn} \cup Conn] /\ user' \in [Sessions -> User]
  BY <1>1, <1>2
<1>4. ASSUME NEW i \in Sessions PROVE Good(W(i)') /\ Reads(ses'[i], user'[i])
  <2>1. CASE i = s
    <3>1. W(i)' = [f |-> g, c |-> c] /\ ses'[i] = g /\ user'[i] = u
      BY <2>1, <1>1 DEF W
    <3> QED
      BY <3>1
  <2>2. CASE i # s
    <3>1. W(i)' = W(i) /\ ses'[i] = ses[i] /\ user'[i] = user[i]
      BY <2>2, <1>1 DEF W
    <3> QED
      BY <3>1, <1>1
  <2> QED
    BY <2>1, <2>2
<1> QED
  BY <1>3, <1>4 DEF IInv

\* A step of one session that stays with its operation and what has been read
LEMMA LeadsOn ==
    ASSUME IInv, NEW s \in Sessions, NEW w, Leads(W(s), w, {}, {}), SetW(s, w), user' = user, opens' \in Nat, faults' \in Nat
    PROVE  IInv'
<1>1. /\ W(s).f = ses[s] /\ Reads(ses[s], user[s]) /\ user[s] \in User
  BY SessionIs
<1>2. w \in World /\ Good(w) /\ w.f.mode = ses[s].mode /\ w.f.file = ses[s].file /\ w.f.pos = ses[s].pos
  BY <1>1 DEF Leads, Good, Whole
<1>3. Reads(w.f, user[s])
  BY <1>1, <1>2, ReadsKept
<1>4. ses' = [ses EXCEPT ![s] = w.f] /\ conn' = [conn EXCEPT ![s] = w.c]
  BY DEF SetW
<1>5. user' = [user EXCEPT ![s] = user[s]]
  BY DEF IInv
<1>6. w = [f |-> w.f, c |-> w.c]
  BY <1>2, OnIsConn
<1>7. Good([f |-> w.f, c |-> w.c])
  BY <1>2, <1>6
<1> QED
  BY <1>1, <1>3, <1>4, <1>5, <1>7, OneSession

\* Do, with the answers it handles and the state it is in, keeps the invariant.
LEMMA DoKeeps == ASSUME IInv, NEW s \in Sessions, Do(s) PROVE IInv'
<1> DEFINE S == IF ses[s].state = "CONNECTING" THEN {W(s)} ELSE HandleReplies(W(s))
<1>1. /\ W(s) \in World /\ W(s).c = conn[s] /\ Good(W(s)) /\ (conn[s].on <=> conn[s] \in Conn) /\ opens \in Nat /\ faults \in Nat
  BY SessionIs
<1>2. conn[s].on /\ user' = user /\ opens' = opens /\ faults' = faults /\ \E w \in S : SetW(s, DoState(w))
  BY DEF Do
<1>3. PICK w \in S : SetW(s, DoState(w))
  BY <1>2
<1>4. Leads(W(s), w, {}, {})
  <2>1. CASE w = W(s)
    BY <2>1, <1>1 DEF Leads, Good
  <2>2. CASE w \in HandleReplies(W(s))
    <3>1. W(s).c \in Conn
      BY <1>1, <1>2
    <3> QED
      BY <3>1, <2>2, <1>1, HandleRepliesLeads
  <2> QED
    BY <1>3, <2>1, <2>2
<1>5. Leads(w, DoState(w), {}, {})
  BY <1>4, DoStateLeads DEF Leads, Good
<1>6. Leads(W(s), DoState(w), {}, {})
  BY <1>4, <1>5 DEF Leads
<1>7. opens' \in Nat /\ faults' \in Nat
  BY <1>1, <1>2
<1> QED
  BY <1>2, <1>3, <1>6, <1>7, LeadsOn

\* A session whose connection is given up
LEMMA DisconnectKeeps ==
    ASSUME IInv, NEW s \in Sessions, SetW(s, Disconnect(W(s))), user' = user, opens' \in Nat, faults' \in Nat
    PROVE  IInv'
<1>1. W(s) \in World /\ Holds(W(s).f) /\ Known(W(s).f)
  BY SessionIs DEF Session
<1>2. Leads(W(s), Disconnect(W(s)), {}, {})
  BY <1>1, DisconnectLeads
<1> QED
  BY <1>2, LeadsOn

\* Do of a session that disconnects another one (GetBetterConnection) keeps the invariant.
LEMMA InterruptKeeps == ASSUME IInv, NEW s \in Sessions, NEW o \in Sessions, Interrupt(s, o) PROVE IInv'
<1>1. SetW(o, Disconnect(W(o))) /\ user' = user /\ opens' = opens /\ faults' = faults
  BY DEF Interrupt
<1>2. opens' \in Nat /\ faults' \in Nat
  BY <1>1 DEF IInv
<1> QED
  BY <1>1, <1>2, DisconnectKeeps

\* Disconnecting an idle session (Do, idle_timer) keeps the invariant.
LEMMA IdleTimeoutKeeps == ASSUME IInv, NEW s \in Sessions, IdleTimeout(s) PROVE IInv'
<1>1. SetW(s, Disconnect(W(s))) /\ user' = user /\ opens' = opens /\ faults' = faults
  BY DEF IdleTimeout
<1>2. opens' \in Nat /\ faults' \in Nat
  BY <1>1 DEF IInv
<1> QED
  BY <1>1, <1>2, DisconnectKeeps

\* Disconnecting a session nothing has come for (CheckTimeout) keeps the invariant.
LEMMA TimeoutKeeps == ASSUME IInv, NEW s \in Sessions, Timeout(s) PROVE IInv'
<1>1. SetW(s, Disconnect(W(s))) /\ user' = user /\ opens' = opens /\ faults' = faults + 1
  BY DEF Timeout
<1>2. opens' \in Nat /\ faults' \in Nat
  BY <1>1 DEF IInv
<1> QED
  BY <1>1, <1>2, DisconnectKeeps

\* A new connection has nothing on its way.
LEMMA ConnectGood ==
    ASSUME NEW w, Good(w), w.f.state = "DISCONNECTED", w.f.mode # "CLOSED"
    PROVE  Leads(w, [f |-> [w.f EXCEPT !.state = "CONNECTING"], c |-> NewConn], {}, {})
<1> DEFINE f == w.f  g == [w.f EXCEPT !.state = "CONNECTING"]  c == NewConn  v == [f |-> g, c |-> c]
<1>1. w \in World /\ f \in Ses /\ Session(w)
  BY OnIsConn DEF Good, Whole
<1>2. /\ g \in Ses /\ g.mode = f.mode /\ g.file = f.file /\ g.handle = f.handle /\ g.buf = f.buf
      /\ g.next = f.next /\ g.info = f.info /\ g.state = "CONNECTING" /\ g.pos = f.pos /\ g.ooo = f.ooo
  BY <1>1, Zenon DEF Ses
<1>3. <<>> \in Queue
  <2>1. <<>> = [i \in {} |-> <<>>[i]] /\ \A i \in {} : <<>>[i] \in Expected
    OBVIOUS
  <2> DEFINE q == <<>>
  <2>2. q = [i \in {} |-> q[i]] /\ \A i \in {} : q[i] \in Expected
    BY <2>1
  <2> HIDE DEF q
  <2>3. {} \subseteq Nat
    OBVIOUS
  <2>4. q \in Queue
    BY <2>2, <2>3, QueueIs
  <2> QED
    BY <2>4 DEF q
<1>4. c \in Conn /\ c.on /\ c.out = <<>> /\ c.wire = <<>> /\ DOMAIN c.expect = {} /\ c.handles = {} /\ c.id = 1
  BY <1>3 DEF NewConn, Conn
<1>5. Phase(f) /\ Holds(f) /\ Known(f) /\ AtRest(f)
  BY <1>1 DEF Session, AtRest
<1>6. f.state = "DISCONNECTED" /\ f.mode # "CLOSED"
  OBVIOUS
<1> HIDE DEF g, c
<1>7. v \in World /\ v.f = g /\ v.c = c
  BY <1>2, <1>4, WorldOf
<1> HIDE DEF v, f
<1>8. OnItsWay(c)
  <2>1. Len(c.out) = 0 /\ Len(c.wire) = 0
    BY <1>4
  <2> QED
    BY <2>1, <1>4 DEF OnItsWay, Numbered, Awaited, Answers, InOrder
<1>9. Expects(g, c) /\ Kept(g, c, {})
  BY <1>4 DEF Expects, Kept
<1>10. Phase(g) /\ Holds(g) /\ Known(g) /\ g.next = 1
  <2>1. g.next = 1
    BY <1>2, <1>5, <1>6 DEF Known
  <2>2. Phase(g)
    BY <1>2, <1>5, <1>6 DEF Phase, AtRest
  <2>3. Holds(g)
    BY <1>2, <1>5 DEF Holds
  <2>4. Known(g)
    BY <2>1, <1>2, <1>5 DEF Known
  <2> QED
    BY <2>1, <2>2, <2>3, <2>4
<1>11. Informed(g, c, {})
  BY <1>10 DEF Informed
<1>12. Whole(v, {}, {})
  BY <1>2, <1>4, <1>7, <1>8, <1>9, <1>10, <1>11 DEF Whole, Session, Joint
<1> QED
  BY <1>2, <1>7, <1>12 DEF Leads, v, g, c, f

\* Starting ssh (Do, DISCONNECTED) keeps the invariant.
LEMMA ConnectKeeps == ASSUME IInv, NEW s \in Sessions, Connect(s) PROVE IInv'
<1> DEFINE w == [f |-> [ses[s] EXCEPT !.state = "CONNECTING"], c |-> NewConn]
<1>1. W(s).f = ses[s] /\ Good(W(s)) /\ opens \in Nat /\ faults \in Nat
  BY SessionIs
<1>2. /\ ses[s].state = "DISCONNECTED" /\ ses[s].mode # "CLOSED" /\ user' = user /\ opens' = opens /\ faults' = faults
      /\ ses' = [ses EXCEPT ![s].state = "CONNECTING"] /\ conn' = [conn EXCEPT ![s] = NewConn]
  BY DEF Connect, NeedsConnection
<1>3. Leads(W(s), w, {}, {})
  <2>1. Leads(W(s), [f |-> [W(s).f EXCEPT !.state = "CONNECTING"], c |-> NewConn], {}, {})
    BY <1>1, <1>2, ConnectGood
  <2> QED
    BY <2>1, <1>1
<1>4. SetW(s, w)
  <2>1. w.f = [ses[s] EXCEPT !.state = "CONNECTING"] /\ w.c = NewConn
    BY Zenon
  <2>2. ses' = [ses EXCEPT ![s] = [ses[s] EXCEPT !.state = "CONNECTING"]]
    BY <1>2, Zenon
  <2> QED
    BY <2>1, <2>2, <1>2, Zenon DEF SetW
<1> HIDE DEF w
<1>5. opens' \in Nat /\ faults' \in Nat
  BY <1>1, <1>2
<1> QED
  BY <1>2, <1>3, <1>4, <1>5, LeadsOn

\* MoveConnectionHere: what is expected on the connection is all of operations that were closed, and no
\* handle is used by the session that gives it up.
LEMMA TakenGood ==
    ASSUME NEW w, Good(w), w.f.state = "DISCONNECTED", w.f.mode # "CLOSED",
           NEW v, Good(v), v.c \in Conn, AtRest(v.f)
    PROVE  Leads(w, [f |-> [w.f EXCEPT !.state = "CONNECTED"], c |-> v.c], {}, {})
<1> DEFINE f == w.f  g == [w.f EXCEPT !.state = "CONNECTED"]  c == v.c  h == v.f  z == [f |-> g, c |-> c]
<1>1. w \in World /\ f \in Ses /\ Session(w) /\ v \in World /\ Session(v) /\ Joint(v, {}, {}) /\ c.on
  BY OnIsConn, ConnFields DEF Good, Whole
<1>2. /\ g \in Ses /\ g.mode = f.mode /\ g.file = f.file /\ g.handle = f.handle /\ g.buf = f.buf
      /\ g.next = f.next /\ g.info = f.info /\ g.state = "CONNECTED" /\ g.pos = f.pos /\ g.ooo = f.ooo
  BY <1>1, Zenon DEF Ses
<1>3. Phase(f) /\ Holds(f) /\ Known(f)
  BY <1>1 DEF Session
<1>4. f.state = "DISCONNECTED" /\ f.mode # "CLOSED" /\ AtRest(f) /\ c \in Conn
  BY DEF AtRest
<1>5. OnItsWay(c) /\ Expects(h, c) /\ Kept(h, c, {}) /\ \A i \in DOMAIN c.expect : c.expect[i].tag \in {"IGNORE", "STALE"}
  BY <1>1 DEF Joint
<1>6. h.handle = NoHandle
  BY <1>1 DEF Session, Phase
<1> HIDE DEF g
<1>7. z \in World /\ z.f = g /\ z.c = c
  BY <1>2, <1>4, WorldOf
<1> HIDE DEF z, f, c, h
<1>8. Expects(g, c)
  <2>1. ASSUME NEW i \in DOMAIN c.expect PROVE Fits(g, c.expect[i]) /\ c.expect[i].tag # "HANDLE"
    <3>1. Fits(h, c.expect[i]) /\ c.expect[i].tag \in {"IGNORE", "STALE"}
      BY <1>5 DEF Expects
    <3> QED
      BY <3>1 DEF Fits
  <2> QED
    BY <2>1 DEF Expects
<1>9. Kept(g, c, {})
  BY <1>5, <1>6 DEF Kept, OnItsWay, NoHandle
<1>10. Phase(g) /\ Holds(g) /\ Known(g) /\ g.next = 1
  <2>1. g.next = 1
    BY <1>2, <1>3, <1>4 DEF Known
  <2>2. Phase(g)
    BY <1>2, <1>3, <1>4 DEF Phase, AtRest
  <2>3. Holds(g)
    BY <1>2, <1>3 DEF Holds
  <2>4. Known(g)
    BY <2>1, <1>2, <1>3 DEF Known
  <2> QED
    BY <2>1, <2>2, <2>3, <2>4
<1>11. Informed(g, c, {})
  BY <1>10 DEF Informed
<1>12. Whole(z, {}, {})
  BY <1>1, <1>2, <1>5, <1>7, <1>8, <1>9, <1>10, <1>11 DEF Whole, Session, Joint
<1> QED
  BY <1>2, <1>7, <1>12 DEF Leads, z, g, c, f

\* Taking over the connection of an idle session (MoveConnectionHere) keeps the invariant.
LEMMA TakeKeeps == ASSUME IInv, NEW s \in Sessions, NEW o \in Sessions, TakeConnection(s, o) PROVE IInv'
<1> DEFINE g == [ses[s] EXCEPT !.state = "CONNECTED"]  w == [f |-> g, c |-> conn[o]]  v == Disconnect(W(o))
<1>1. /\ W(s).f = ses[s] /\ Good(W(s)) /\ W(o).c = conn[o] /\ W(o).f = ses[o] /\ Good(W(o)) /\ W(o) \in World /\ Session(W(o))
      /\ (conn[o].on <=> conn[o] \in Conn) /\ Reads(ses[s], user[s]) /\ Reads(ses[o], user[o])
  BY SessionIs
<1>2. /\ ses[s].state = "DISCONNECTED" /\ ses[s].mode # "CLOSED" /\ user' = user /\ opens' = opens /\ faults' = faults
      /\ o # s /\ conn[o].on /\ ses[o].state = "CONNECTED" /\ ses[o].mode = "CLOSED"
      /\ ses' = [ses EXCEPT ![s].state = "CONNECTED", ![o] = v.f]
      /\ conn' = [conn EXCEPT ![s] = conn[o], ![o] = NoConn]
  BY DEF TakeConnection, NeedsConnection, Idle
<1>3. Leads(W(s), w, {}, {})
  <2>1. AtRest(W(o).f)
    BY <1>1, <1>2 DEF AtRest
  <2>2. Leads(W(s), [f |-> [W(s).f EXCEPT !.state = "CONNECTED"], c |-> W(o).c], {}, {})
    BY <1>1, <1>2, <2>1, TakenGood
  <2> QED
    BY <2>2, <1>1
<1>4. Leads(W(o), v, {}, {}) /\ v.c = NoConn
  BY <1>1, DisconnectLeads DEF Session
<1>5. ses' = [[ses EXCEPT ![s] = g] EXCEPT ![o] = v.f]
  <2> HIDE DEF v
  <2> QED
    BY <1>2, Zenon
<1>6. w.f = g /\ w.c = conn[o]
  OBVIOUS
<1> HIDE DEF g, w, v
<1>7. w \in World /\ Good(w) /\ Reads(w.f, user[s]) /\ w = [f |-> w.f, c |-> w.c]
  <2>1. w \in World /\ Good(w) /\ w.f.mode = ses[s].mode /\ w.f.file = ses[s].file /\ w.f.pos = ses[s].pos
    BY <1>1, <1>3 DEF Leads, Good, Whole
  <2> QED
    BY <2>1, <1>1, ReadsKept, OnIsConn
<1>8. v \in World /\ Good(v) /\ Reads(v.f, user[o]) /\ v = [f |-> v.f, c |-> v.c]
  <2>1. v \in World /\ Good(v) /\ v.f.mode = ses[o].mode /\ v.f.file = ses[o].file /\ v.f.pos = ses[o].pos
    BY <1>1, <1>4 DEF Leads, Good, Whole
  <2> QED
    BY <2>1, <1>1, ReadsKept, OnIsConn
<1>9. w.f \in Ses /\ w.c \in {NoConn} \cup Conn /\ v.f \in Ses /\ v.c \in {NoConn} \cup Conn
  BY <1>7, <1>8, OnIsConn
<1>10. ses \in [Sessions -> Ses] /\ conn \in [Sessions -> {NoConn} \cup Conn] /\ user \in [Sessions -> User]
       /\ opens \in Nat /\ faults \in Nat /\ \A i \in Sessions : Good(W(i)) /\ Reads(ses[i], user[i])
  BY DEF IInv
<1>11. /\ ses' \in [Sessions -> Ses] /\ conn' \in [Sessions -> {NoConn} \cup Conn]
       /\ ses'[s] = w.f /\ conn'[s] = w.c /\ ses'[o] = v.f /\ conn'[o] = v.c
       /\ \A i \in Sessions \ {s, o} : ses'[i] = ses[i] /\ conn'[i] = conn[i]
  BY <1>2, <1>4, <1>5, <1>6, <1>9, <1>10
<1>12. ASSUME NEW i \in Sessions PROVE Good(W(i)') /\ Reads(ses'[i], user'[i])
  <2>1. CASE i = s
    <3>1. W(i)' = [f |-> w.f, c |-> w.c] /\ ses'[i] = w.f /\ user'[i] = user[s]
      BY <2>1, <1>2, <1>11 DEF W
    <3> QED
      BY <3>1, <1>7
  <2>2. CASE i = o
    <3>1. W(i)' = [f |-> v.f, c |-> v.c] /\ ses'[i] = v.f /\ user'[i] = user[o]
      BY <2>2, <1>2, <1>11 DEF W
    <3> QED
      BY <3>1, <1>8
  <2>3. CASE i # s /\ i # o
    <3>1. W(i)' = W(i) /\ ses'[i] = ses[i] /\ user'[i] = user[i]
      BY <2>3, <1>2, <1>11 DEF W
    <3> QED
      BY <3>1, <1>10
  <2> QED
    BY <2>1, <2>2, <2>3
<1> QED
  BY <1>2, <1>10, <1>11, <1>12 DEF IInv

\* The connection coming up keeps the invariant.
LEMMA EstablishedKeeps == ASSUME IInv, NEW s \in Sessions, Established(s) PROVE IInv'
<1> DEFINE d == [conn[s] EXCEPT !.net = "up"]  w == [f |-> ses[s], c |-> d]
<1>1. W(s).f = ses[s] /\ W(s).c = conn[s] /\ Good(W(s)) /\ opens \in Nat /\ faults \in Nat /\ (conn[s].on <=> conn[s] \in Conn)
  BY SessionIs
<1>2. /\ conn[s].on /\ conn[s].net = "syn" /\ user' = user /\ opens' = opens /\ faults' = faults /\ ses' = ses
      /\ conn' = [conn EXCEPT ![s].net = "up"]
  BY DEF Established
<1>3. Leads(W(s), w, {}, {})
  <2>1. Leads(W(s), [f |-> W(s).f, c |-> [W(s).c EXCEPT !.net = "up"]], {}, {})
    BY <1>1, <1>2, EstablishedGood
  <2> QED
    BY <2>1, <1>1
<1>4. conn' = [conn EXCEPT ![s] = d]
  BY <1>2, Zenon
<1>5. ses' = [ses EXCEPT ![s] = ses[s]]
  BY <1>2 DEF IInv
<1> HIDE DEF d
<1>6. SetW(s, w)
  BY <1>4, <1>5 DEF SetW
<1> HIDE DEF w
<1>7. opens' \in Nat /\ faults' \in Nat
  BY <1>1, <1>2
<1> QED
  BY <1>2, <1>3, <1>6, <1>7, LeadsOn

\* The loss of a connection keeps the invariant: the loss is seen by Do later.
LEMMA LoseKeeps == ASSUME IInv, NEW s \in Sessions, Lose(s) PROVE IInv'
<1>1. W(s).f = ses[s] /\ W(s).c = conn[s] /\ Good(W(s)) /\ opens \in Nat /\ faults \in Nat /\ (conn[s].on <=> conn[s] \in Conn)
  BY SessionIs
<1>2. PICK n \in 0..Len(conn[s].wire) : conn' = [conn EXCEPT ![s].net = "lost", ![s].wire = SubSeq(conn[s].wire, 1, n), ![s].out = <<>>]
  <2>1. \E n \in 0..Len(conn[s].wire) : conn' = [conn EXCEPT ![s].net = "lost", ![s].wire = SubSeq(@, 1, n), ![s].out = <<>>]
    BY DEF Lose
  <2>2. PICK n \in 0..Len(conn[s].wire) : conn' = [conn EXCEPT ![s].net = "lost", ![s].wire = SubSeq(@, 1, n), ![s].out = <<>>]
    BY <2>1
  <2>3. [conn EXCEPT ![s].net = "lost", ![s].wire = SubSeq(@, 1, n), ![s].out = <<>>]
        = [conn EXCEPT ![s].net = "lost", ![s].wire = SubSeq(conn[s].wire, 1, n), ![s].out = <<>>]
    OBVIOUS
  <2> QED
    BY <2>2, <2>3
<1> DEFINE d == [[[conn[s] EXCEPT !.net = "lost"] EXCEPT !.wire = SubSeq(conn[s].wire, 1, n)] EXCEPT !.out = <<>>]
           w == [f |-> ses[s], c |-> d]
<1>3. conn[s].on /\ user' = user /\ opens' = opens /\ faults' = faults + 1 /\ ses' = ses
  BY DEF Lose
<1>4. Leads(W(s), w, {}, {})
  <2>1. n \in 0..Len(W(s).c.wire)
    BY <1>1
  <2>2. Leads(W(s), [f |-> W(s).f, c |-> [[[W(s).c EXCEPT !.net = "lost"] EXCEPT !.wire = SubSeq(W(s).c.wire, 1, n)] EXCEPT !.out = <<>>]], {}, {})
    BY <1>1, <1>3, <2>1, LoseGood
  <2> QED
    BY <2>2, <1>1
<1>5. conn' = [conn EXCEPT ![s] = d]
  BY <1>2, Zenon
<1>6. ses' = [ses EXCEPT ![s] = ses[s]]
  BY <1>3 DEF IInv
<1> HIDE DEF d
<1>7. SetW(s, w)
  BY <1>5, <1>6 DEF SetW
<1> HIDE DEF w
<1>8. opens' \in Nat /\ faults' \in Nat
  BY <1>1, <1>3
<1> QED
  BY <1>3, <1>4, <1>7, <1>8, LeadsOn

\* An answer of the server, granting or refusing, keeps the invariant.
LEMMA ServerKeeps == ASSUME IInv, NEW s \in Sessions, ServerAnswers(s) PROVE IInv'
<1> DEFINE r == Head(conn[s].out)
<1>1. W(s).f = ses[s] /\ W(s).c = conn[s] /\ Good(W(s)) /\ opens \in Nat /\ faults \in Nat /\ (conn[s].on <=> conn[s] \in Conn)
  BY SessionIs
<1>2. conn[s].on /\ conn[s].out # <<>> /\ user' = user /\ opens' = opens /\ ses' = ses
  BY DEF ServerAnswers
<1>3. conn[s] \in Conn /\ OnItsWay(conn[s])
  BY <1>1, <1>2 DEF Good, Whole, Joint
<1>4. \/ /\ faults' = faults
         /\ \E a \in Granted(r) : conn' = [conn EXCEPT ![s].out = Tail(@), ![s].wire = Append(@, a), ![s].handles = HandlesAfter(conn[s], a)]
      \/ /\ faults' = faults + 1
         /\ conn' = [conn EXCEPT ![s].out = Tail(@), ![s].wire = Append(@, Refused(r)),
                                 ![s].handles = IF r.req.k = "CLOSE" THEN @ \ {r.req.h} ELSE @,
                                 ![s].refused = IF r.req.k = "STAT" THEN @ \cup {<<r.req.for, r.req.pos>>} ELSE @]
  BY Zenon DEF ServerAnswers, HandlesAfter
<1>5. ses' = [ses EXCEPT ![s] = ses[s]]
  BY <1>2 DEF IInv
<1>6. ASSUME NEW a, NEW handles, NEW refused, Fitting(conn[s], a, handles, refused),
             conn' = [conn EXCEPT ![s] = Answered(conn[s], a, handles, refused)], faults' \in Nat
      PROVE  IInv'
  <2> DEFINE d == Answered(conn[s], a, handles, refused)  w == [f |-> ses[s], c |-> d]
  <2>1. Leads(W(s), w, {}, {})
    <3>1. Leads(W(s), [f |-> W(s).f, c |-> Answered(W(s).c, a, handles, refused)], {}, {})
      BY <1>1, <1>2, <1>3, <1>6, AnsweredGood
    <3> QED
      BY <3>1, <1>1
  <2> HIDE DEF d
  <2>2. SetW(s, w)
    BY <1>5, <1>6 DEF SetW, d
  <2> HIDE DEF w
  <2>3. opens' \in Nat
    BY <1>1, <1>2
  <2> QED
    BY <2>1, <2>2, <2>3, <1>2, <1>6, LeadsOn
<1>7. CASE faults' = faults /\ \E a \in Granted(r) : conn' = [conn EXCEPT ![s].out = Tail(@), ![s].wire = Append(@, a), ![s].handles = HandlesAfter(conn[s], a)]
  <2>1. PICK a \in Granted(r) : conn' = [conn EXCEPT ![s].out = Tail(@), ![s].wire = Append(@, a), ![s].handles = HandlesAfter(conn[s], a)]
    BY <1>7
  <2>2. Fitting(conn[s], a, HandlesAfter(conn[s], a), conn[s].refused)
    BY <1>2, <1>3, GrantedFits
  <2>3. conn' = [conn EXCEPT ![s] = Answered(conn[s], a, HandlesAfter(conn[s], a), conn[s].refused)]
    <3> DEFINE H == HandlesAfter(conn[s], a)
    <3>1. conn' = [conn EXCEPT ![s].out = Tail(@), ![s].wire = Append(@, a), ![s].handles = H]
      BY <2>1
    <3> HIDE DEF H
    <3>2. conn' = [conn EXCEPT ![s] = [[[conn[s] EXCEPT !.out = Tail(conn[s].out)] EXCEPT !.wire = Append(conn[s].wire, a)] EXCEPT !.handles = H]]
      BY <3>1
    <3> DEFINE e == [[[conn[s] EXCEPT !.out = Tail(conn[s].out)] EXCEPT !.wire = Append(conn[s].wire, a)] EXCEPT !.handles = H]
    <3>3. e = [e EXCEPT !.refused = conn[s].refused]
      BY <1>3, Zenon DEF Conn
    <3>4. Answered(conn[s], a, H, conn[s].refused) = [e EXCEPT !.refused = conn[s].refused]
      BY Zenon DEF Answered
    <3> HIDE DEF e
    <3> QED
      BY <3>2, <3>3, <3>4 DEF e, H
  <2>4. faults' \in Nat
    BY <1>1, <1>7
  <2> QED
    BY <2>2, <2>3, <2>4, <1>6
<1>8. CASE /\ faults' = faults + 1
           /\ conn' = [conn EXCEPT ![s].out = Tail(@), ![s].wire = Append(@, Refused(r)),
                                   ![s].handles = IF r.req.k = "CLOSE" THEN @ \ {r.req.h} ELSE @,
                                   ![s].refused = IF r.req.k = "STAT" THEN @ \cup {<<r.req.for, r.req.pos>>} ELSE @]
  <2> DEFINE c == conn[s]  a == Refused(r)  H == IF r.req.k = "CLOSE" THEN c.handles \ {r.req.h} ELSE c.handles
             R == IF r.req.k = "STAT" THEN c.refused \cup {<<r.req.for, r.req.pos>>} ELSE c.refused
  <2>1. Fitting(c, a, H, R)
    BY <1>2, <1>3, RefusedFits
  <2>2. conn' = [conn EXCEPT ![s] = Answered(c, a, H, R)]
    <3>1. conn' = [conn EXCEPT ![s].out = Tail(c.out), ![s].wire = Append(c.wire, a), ![s].handles = H, ![s].refused = R]
      BY <1>8
    <3> HIDE DEF c, a, H, R
    <3>2. conn' = [conn EXCEPT ![s] = [[[[conn[s] EXCEPT !.out = Tail(c.out)] EXCEPT !.wire = Append(c.wire, a)] EXCEPT !.handles = H] EXCEPT !.refused = R]]
      BY <3>1, Zenon
    <3> QED
      BY <3>2 DEF Answered, c
  <2>3. faults' \in Nat
    BY <1>1, <1>8
  <2> QED
    BY <2>1, <2>2, <2>3, <1>6
<1> QED
  BY <1>4, <1>7, <1>8

\* A new user's file, and a user who has gone
LEMMA UserStarts ==
    ASSUME NEW file \in File, NEW at \in 0..N
    PROVE  LET u == [open |-> [file |-> file, from |-> at], got |-> <<>>, eof |-> FALSE] IN
           u \in User /\ u.open.file = file /\ u.open.from = at /\ Len(u.got) = 0 /\ u.got = Bytes(file, at, 0)
<1> DEFINE u == [open |-> [file |-> file, from |-> at], got |-> <<>>, eof |-> FALSE]
<1>1. at \in Nat /\ <<>> \in Seq(File \X Nat) /\ Len(<<>>) = 0
  BY Numbers
<1>2. u \in User /\ u.open.file = file /\ u.open.from = at /\ u.got = <<>>
  BY <1>1 DEF User
<1>3. Bytes(file, at, 0) = <<>>
  BY <1>1, BytesNone
<1> HIDE DEF u
<1>4. u \in User /\ u.open.file = file /\ u.open.from = at /\ Len(u.got) = 0 /\ u.got = Bytes(file, at, 0)
  BY <1>1, <1>2, <1>3
<1> QED
  BY <1>4 DEF u

\* Open keeps the invariant.
LEMMA OpensKeeps == ASSUME IInv, NEW s \in Sessions, UserOpens(s) PROVE IInv'
<1>1. /\ W(s).f = ses[s] /\ W(s).c = conn[s] /\ Good(W(s)) /\ opens \in Nat /\ faults \in Nat
  BY SessionIs
<1>0. PICK mode \in ModesOf[s] :
        \E x \in CASE mode = "RETRIEVE" -> GetFrom [] mode = "STORE" -> PutFrom [] OTHER -> {0} : Open(s, mode, x)
  BY DEF UserOpens
<1>2. PICK at \in CASE mode = "RETRIEVE" -> GetFrom [] mode = "STORE" -> PutFrom [] OTHER -> {0} : Open(s, mode, at)
  BY <1>0
<1>3. mode \in {"RETRIEVE", "STORE", "REMOVE", "ARRAY_INFO"} /\ at \in 0..N
  <2>1. mode \in {"RETRIEVE", "STORE", "REMOVE", "ARRAY_INFO"}
    BY Numbers
  <2>2. CASE mode = "RETRIEVE"
    BY <2>1, <2>2, Numbers
  <2>3. CASE mode = "STORE"
    BY <2>1, <2>3, Numbers
  <2>4. CASE mode # "RETRIEVE" /\ mode # "STORE"
    <3>1. at = 0
      BY <2>4
    <3> QED
      BY <3>1, <2>1, Numbers
  <2> QED
    BY <2>1, <2>2, <2>3, <2>4
<1> DEFINE file == <<s, opens + 1>>
           g == Opened(ses[s], mode, file, at)
           u == [open |-> [file |-> file, from |-> at], got |-> <<>>, eof |-> FALSE]
<1>4. file \in File
  BY <1>1 DEF File
<1>5. /\ ses[s].mode = "CLOSED" /\ opens' = opens + 1 /\ conn' = conn /\ faults' = faults
      /\ ses' = [ses EXCEPT ![s].mode = mode, ![s].file = file, ![s].pos = at]
      /\ user' = [user EXCEPT ![s] = u]
  BY <1>2 DEF Open
<1> HIDE DEF file
<1>6. Good([f |-> g, c |-> conn[s]]) /\ g.mode = mode /\ g.file = file /\ g.pos = at
  <2>1. /\ Good([f |-> Opened(W(s).f, mode, file, at), c |-> W(s).c])
        /\ Opened(W(s).f, mode, file, at).mode = mode /\ Opened(W(s).f, mode, file, at).file = file
        /\ Opened(W(s).f, mode, file, at).pos = at
    BY <1>1, <1>3, <1>4, <1>5, OpenGood
  <2> QED
    BY <2>1, <1>1
<1>7. u \in User /\ u.open.file = file /\ u.open.from = at /\ Len(u.got) = 0 /\ u.got = Bytes(file, at, 0)
  BY <1>3, <1>4, UserStarts
<1>8. ses' = [ses EXCEPT ![s] = g]
  BY <1>5, Zenon DEF Opened
<1>9. conn' = [conn EXCEPT ![s] = conn[s]]
  BY <1>5 DEF IInv
<1> HIDE DEF g, u
<1>10. Reads(g, u)
  <2>1. at + 0 <= N /\ at + 0 = at
    BY <1>3, Numbers
  <2> QED
    BY <2>1, <1>6, <1>7 DEF Reads
<1>11. opens' \in Nat /\ faults' \in Nat
  BY <1>1, <1>5
<1> QED
  BY <1>5, <1>6, <1>7, <1>8, <1>9, <1>10, <1>11, OneSession

\* Close keeps the invariant, at any moment of an operation.
LEMMA ClosesKeeps == ASSUME IInv, NEW s \in Sessions, UserCloses(s) PROVE IInv'
<1> DEFINE w == CloseSession(W(s))  u == [open |-> [file |-> NoFile, from |-> 0], got |-> <<>>, eof |-> FALSE]
<1>1. /\ W(s).f = ses[s] /\ Good(W(s)) /\ opens \in Nat /\ faults \in Nat
  BY SessionIs
<1>2. SetW(s, w) /\ user' = [user EXCEPT ![s] = u] /\ opens' = opens /\ faults' = faults
  BY DEF UserCloses
<1>3. Good(w) /\ w.f.mode = "CLOSED"
  BY <1>1, CloseSessionGood
<1>4. NoFile \in File /\ 0 \in 0..N
  BY Numbers DEF File
<1>5. u \in User /\ u.open.file = NoFile /\ u.open.from = 0 /\ Len(u.got) = 0 /\ u.got = Bytes(NoFile, 0, 0)
  BY <1>4, UserStarts
<1> HIDE DEF w, u
<1>6. Reads(w.f, u)
  <2>1. 0 + 0 <= N
    BY Numbers
  <2> QED
    BY <2>1, <1>3, <1>5 DEF Reads
<1>7. ses' = [ses EXCEPT ![s] = w.f] /\ conn' = [conn EXCEPT ![s] = w.c]
  BY <1>2 DEF SetW
<1>8. Good([f |-> w.f, c |-> w.c])
  <2>1. w = [f |-> w.f, c |-> w.c]
    BY <1>3, OnIsConn DEF Good, Whole
  <2> QED
    BY <2>1, <1>3
<1>9. opens' \in Nat /\ faults' \in Nat
  BY <1>1, <1>2
<1> QED
  BY <1>2, <1>5, <1>6, <1>7, <1>8, <1>9, OneSession

\* Write keeps the invariant.
LEMMA WritesKeeps == ASSUME IInv, NEW s \in Sessions, UserWrites(s) PROVE IInv'
<1> DEFINE f == ses[s]  to == f.pos + 1  x == <<f.file, f.pos>>  data == Append(f.buf.data, x)
           g == [[f EXCEPT !.pos = to] EXCEPT !.buf = [f.buf EXCEPT !.data = data]]
<1>1. /\ W(s).f = f /\ W(s).c = conn[s] /\ Good(W(s)) /\ opens \in Nat /\ faults \in Nat /\ f \in Ses /\ user[s] \in User /\ Reads(f, user[s])
  BY SessionIs
<1>2. /\ f.mode = "STORE" /\ f.state = "FILE_SEND" /\ f.pos < N /\ conn' = conn /\ user' = user /\ opens' = opens /\ faults' = faults
      /\ ses' = [ses EXCEPT ![s].pos = @ + 1, ![s].buf.data = Append(@, <<ses[s].file, ses[s].pos>>)]
  BY DEF UserWrites
<1>3. x \in File \X Nat
  BY <1>1, SesFields
<1>4. ses' = [ses EXCEPT ![s] = g]
  BY <1>2, Zenon
<1>5. Good([f |-> g, c |-> conn[s]])
  <2> DEFINE v == W(s).f
  <2>1. v = f
    BY <1>1
  <2>2. v.mode = "STORE" /\ v.state = "FILE_SEND" /\ v.pos < N /\ data = Append(v.buf.data, x) /\ to = v.pos + 1
    BY <1>1, <1>2
  <2> HIDE DEF to, x, data
  <2>3. Good([f |-> [[v EXCEPT !.pos = to] EXCEPT !.buf = [v.buf EXCEPT !.data = data]], c |-> W(s).c])
    BY <1>1, <1>3, <2>2, WritesGood
  <2> HIDE DEF v, f
  <2> QED
    BY <2>1, <2>3, <1>1
<1>6. g.mode = f.mode /\ g.file = f.file
  BY <1>1, Zenon DEF Ses
<1>7. conn' = [conn EXCEPT ![s] = conn[s]] /\ user' = [user EXCEPT ![s] = user[s]]
  BY <1>2 DEF IInv
<1> HIDE DEF g, f
<1>8. Reads(g, user[s])
  BY <1>1, <1>2, <1>6 DEF Reads
<1>9. opens' \in Nat /\ faults' \in Nat
  BY <1>1, <1>2
<1> QED
  BY <1>1, <1>4, <1>5, <1>7, <1>8, <1>9, OneSession

\* The end of a store (StoreStatus) keeps the invariant.
LEMMA EndsKeeps == ASSUME IInv, NEW s \in Sessions, UserEnds(s) PROVE IInv'
<1> DEFINE g == [ses[s] EXCEPT !.eof = TRUE]  w == [f |-> g, c |-> conn[s]]
<1>1. /\ W(s).f = ses[s] /\ W(s).c = conn[s] /\ Good(W(s)) /\ opens \in Nat /\ faults \in Nat
  BY SessionIs
<1>2. /\ ses[s].mode = "STORE" /\ ses[s].state = "FILE_SEND" /\ conn' = conn /\ user' = user /\ opens' = opens /\ faults' = faults
      /\ ses' = [ses EXCEPT ![s].eof = TRUE]
  BY DEF UserEnds
<1>3. Leads(W(s), w, {}, {})
  <2>1. Leads(W(s), [f |-> [W(s).f EXCEPT !.eof = TRUE], c |-> W(s).c], {}, {})
    BY <1>1, <1>2, EndsGood
  <2> QED
    BY <2>1, <1>1
<1>4. ses' = [ses EXCEPT ![s] = g] /\ conn' = [conn EXCEPT ![s] = conn[s]]
  <2>1. ses' = [ses EXCEPT ![s] = g]
    BY <1>2, Zenon
  <2>2. conn' = [conn EXCEPT ![s] = conn[s]]
    BY <1>2 DEF IInv
  <2> QED
    BY <2>1, <2>2
<1> HIDE DEF g
<1>5. SetW(s, w)
  BY <1>4 DEF SetW
<1> HIDE DEF w
<1>6. opens' \in Nat /\ faults' \in Nat
  BY <1>1, <1>2
<1> QED
  BY <1>2, <1>3, <1>5, <1>6, LeadsOn

\* Read keeps the invariant, and a byte it gives is the one of the file at its position.
LEMMA ReadsKeeps == ASSUME IInv, NEW s \in Sessions, UserReads(s) PROVE IInv'
<1> DEFINE f == ses[s]  u == user[s]
           w == IF MayRequest(W(s)) THEN RequestMoreData(W(s)) ELSE W(s)
           got == Append(u.got, Head(f.buf.data))  read == [u EXCEPT !.got = got]
<1>1. /\ W(s).f = f /\ W(s).c = conn[s] /\ Good(W(s)) /\ opens \in Nat /\ faults \in Nat /\ f \in Ses /\ u \in User /\ Reads(f, u)
      /\ W(s) \in World /\ Session(W(s))
  BY SessionIs
<1>2. /\ f.mode = "RETRIEVE" /\ opens' = opens /\ faults' = faults
      /\ \/ user' = [user EXCEPT ![s].eof = TRUE] /\ ses' = ses /\ conn' = conn
         \/ SetW(s, w) /\ user' = user
         \/ /\ f.buf.data # <<>> /\ SetW(s, [w EXCEPT !.f.buf.data = Tail(@), !.f.pos = @ + 1])
            /\ user' = [user EXCEPT ![s].got = Append(@, Head(f.buf.data))]
  BY DEF UserReads
<1>3. opens' \in Nat /\ faults' \in Nat
  BY <1>1, <1>2
<1>4. Leads(W(s), w, {}, {}) /\ w.f.buf = f.buf
  <2>1. CASE MayRequest(W(s))
    <3>1. f.buf.on
      BY <2>1, <1>1 DEF MayRequest, Session, Phase
    <3>2. W(s).c \in Conn
      BY <3>1, <1>1, BufHasConn
    <3>3. Leads(W(s), RequestMoreData(W(s)), {}, {}) /\ RequestMoreData(W(s)).f.buf = W(s).f.buf
      BY <3>1, <3>2, <1>1, <1>2, RequestLeads
    <3> QED
      BY <2>1, <3>3, <1>1
  <2>2. CASE ~MayRequest(W(s))
    BY <2>2, <1>1 DEF Leads, Good
  <2> QED
    BY <2>1, <2>2
<1> HIDE DEF w
<1>5. w \in World /\ Good(w) /\ w.f.mode = f.mode /\ w.f.file = f.file /\ w.f.pos = f.pos
  BY <1>1, <1>4 DEF Leads, Good, Whole
<1>6. CASE user' = [user EXCEPT ![s].eof = TRUE] /\ ses' = ses /\ conn' = conn
  <2> DEFINE v == [u EXCEPT !.eof = TRUE]
  <2>1. v \in User /\ v.open = u.open /\ v.got = u.got
    BY <1>1, Zenon DEF User
  <2>2. user' = [user EXCEPT ![s] = v]
    BY <1>6, Zenon
  <2>3. ses' = [ses EXCEPT ![s] = ses[s]] /\ conn' = [conn EXCEPT ![s] = conn[s]]
    BY <1>6 DEF IInv
  <2> HIDE DEF v
  <2>4. Reads(f, v)
    BY <2>1, <1>1 DEF Reads
  <2>5. Good([f |-> ses[s], c |-> conn[s]])
    BY <1>1 DEF W
  <2> QED
    BY <2>1, <2>2, <2>3, <2>4, <2>5, <1>3, OneSession
<1>7. CASE SetW(s, w) /\ user' = user
  BY <1>3, <1>4, <1>7, LeadsOn
<1>8. CASE /\ f.buf.data # <<>> /\ SetW(s, [w EXCEPT !.f.buf.data = Tail(@), !.f.pos = @ + 1])
           /\ user' = [user EXCEPT ![s].got = Append(@, Head(f.buf.data))]
  <2> DEFINE v == Takes(w)  p == u.open.from  n == Len(u.got)  file == u.open.file
  <2>1. SetW(s, v)
    BY <1>8, Zenon DEF Takes
  <2>2. user' = [user EXCEPT ![s] = read]
    BY <1>8, Zenon
  <2>3. /\ Good(v) /\ v.f.mode = f.mode /\ v.f.file = f.file /\ v.f.pos = f.pos + 1
        /\ f.pos + 1 <= N /\ Head(f.buf.data) = <<f.file, f.pos>>
    <3>1. w.f.mode = "RETRIEVE" /\ w.f.buf.data # <<>>
      BY <1>2, <1>4, <1>5, <1>8
    <3>2. /\ Good(Takes(w)) /\ Takes(w).f.mode = w.f.mode /\ Takes(w).f.file = w.f.file /\ Takes(w).f.pos = w.f.pos + 1
          /\ w.f.pos + 1 <= N /\ Head(w.f.buf.data) = <<w.f.file, w.f.pos>>
      BY <3>1, <1>5, TakesGood
    <3> QED
      BY <3>2, <1>4, <1>5
  <2>4. /\ file \in File /\ p \in Nat /\ n \in Nat /\ f.pos \in Nat /\ f.file = file /\ p + n = f.pos /\ u.got = Bytes(file, p, n)
    <3>1. u.open.file \in File /\ u.open.from \in Nat /\ u.got \in Seq(File \X Nat) /\ f.pos \in Nat
      BY <1>1, UserFields, SesFields
    <3>2. u.open.file = f.file /\ u.open.from + Len(u.got) = f.pos /\ u.got = Bytes(u.open.file, u.open.from, Len(u.got))
      BY <1>1, <1>2 DEF Reads
    <3>3. Len(u.got) \in Nat
      BY <3>1, LenProperties
    <3> QED
      BY <3>1, <3>2, <3>3
  <2>5. got = Append(Bytes(file, p, n), <<file, p + n>>)
    BY <2>3, <2>4
  <2>6. got = Bytes(file, p, n + 1) /\ n + 1 \in Nat /\ p + (n + 1) = f.pos + 1
    <3> HIDE DEF file, p, n, got
    <3>1. Append(Bytes(file, p, n), <<file, p + n>>) = Bytes(file, p, n + 1)
      BY <2>4, BytesOn
    <3> QED
      BY <3>1, <2>4, <2>5
  <2>7. got \in Seq(File \X Nat) /\ Len(got) = n + 1
    <3> HIDE DEF file, p, n, got
    <3> QED
      BY <2>4, <2>6, BytesAre
  <2> HIDE DEF got
  <2>8. read \in User /\ read.open = u.open /\ read.got = got
    BY <1>1, <2>7, Zenon DEF User
  <2> HIDE DEF read, v
  <2>9. Reads(v.f, read)
    <3>1. read.open.from + Len(read.got) = f.pos + 1
      BY <2>6, <2>7, <2>8
    <3>2. read.got = Bytes(read.open.file, read.open.from, Len(read.got))
      BY <2>6, <2>7, <2>8
    <3>3. read.open.file = v.f.file
      BY <2>3, <2>4, <2>8
    <3> QED
      BY <3>1, <3>2, <3>3, <2>3 DEF Reads
  <2>10. ses' = [ses EXCEPT ![s] = v.f] /\ conn' = [conn EXCEPT ![s] = v.c]
    BY <2>1 DEF SetW
  <2>11. Good([f |-> v.f, c |-> v.c])
    <3>1. v = [f |-> v.f, c |-> v.c]
      BY <2>3, OnIsConn DEF Good, Whole
    <3> QED
      BY <3>1, <2>3
  <2> QED
    BY <2>2, <2>8, <2>9, <2>10, <2>11, <1>3, OneSession
<1> QED
  BY <1>2, <1>6, <1>7, <1>8

-----------------------------------------------------------------------------
(* The theorems.                                                           *)

\* Sessions begin closed, without connections.
LEMMA InitIs == Init => IInv
<1> SUFFICES ASSUME Init PROVE IInv
  OBVIOUS
<1> DEFINE u == [open |-> [file |-> NoFile, from |-> 0], got |-> <<>>, eof |-> FALSE]
<1>1. /\ ses = [s \in Sessions |-> NewSession] /\ conn = [s \in Sessions |-> NoConn] /\ user = [s \in Sessions |-> u]
      /\ opens = 0 /\ faults = 0
  BY DEF Init
<1>2. NoFile \in File /\ 0 \in 0..N /\ 0 + 0 <= N
  BY Numbers DEF File
<1>3. u \in User /\ u.open.file = NoFile /\ u.open.from = 0 /\ Len(u.got) = 0 /\ u.got = Bytes(NoFile, 0, 0)
  BY <1>2, UserStarts
<1>4. /\ NewSession \in Ses /\ NewSession.mode = "CLOSED" /\ NewSession.handle = NoHandle /\ NewSession.buf = NoBuf /\ NewSession.next = 1
      /\ NewSession.info = {} /\ NewSession.pos = 0 /\ NewSession.ooo = <<>> /\ NewSession.state = "DISCONNECTED"
  <2>1. NoHandle \in Nat /\ NoBuf \in Buf /\ <<>> \in Seq(Answer) /\ 1 \in 1..(K + 1) /\ NoFile \in File /\ -1 \in Int
    BY Numbers DEF NoHandle, NoBuf, Buf, File
  <2> QED
    BY <2>1 DEF NewSession, Ses
<1> DEFINE w == [f |-> NewSession, c |-> NoConn]
<1>5. w \in World /\ w.f = NewSession /\ w.c = NoConn
  BY <1>4, WorldOf
<1>6. NoBuf.on = FALSE /\ Len(<<>>) = 0 /\ ~NoConn.on
  BY DEF NoBuf, NoConn
<1>7. Phase(NewSession) /\ Holds(NewSession) /\ Known(NewSession)
  BY <1>4, <1>6, Numbers DEF Phase, AtRest, Holds, Known
<1> HIDE DEF w, u
<1>8. Good(w)
  BY <1>4, <1>5, <1>6, <1>7 DEF Good, Whole, Session, Joint
<1>9. Reads(NewSession, u)
  BY <1>2, <1>3, <1>4 DEF Reads
<1>10. ASSUME NEW s \in Sessions PROVE Good(W(s)) /\ Reads(ses[s], user[s])
  <2>1. W(s) = w /\ ses[s] = NewSession /\ user[s] = u
    BY <1>1 DEF W, w
  <2> QED
    BY <2>1, <1>8, <1>9
<1> QED
  BY <1>1, <1>3, <1>4, <1>10 DEF IInv

\* Every step keeps the invariant.
LEMMA NextKeeps == IInv /\ [Next]_vars => IInv'
<1> SUFFICES ASSUME IInv, [Next]_vars PROVE IInv'
  OBVIOUS
<1>1. CASE UNCHANGED vars
  <2>1. ses' = ses /\ conn' = conn /\ user' = user /\ opens' = opens /\ faults' = faults
    BY <1>1 DEF vars
  <2>2. ASSUME NEW s \in Sessions PROVE Good(W(s)') /\ Reads(ses'[s], user'[s])
    <3>1. W(s)' = W(s)
      BY <2>1 DEF W
    <3> QED
      BY <3>1, <2>1 DEF IInv
  <2> QED
    BY <2>1, <2>2 DEF IInv
<1>2. CASE Next
  <2>1. PICK s \in Sessions :
          \/ Do(s) \/ Connect(s) \/ IdleTimeout(s) \/ Timeout(s)
          \/ \E o \in Sessions : TakeConnection(s, o) \/ Interrupt(s, o)
          \/ UserOpens(s) \/ UserReads(s) \/ UserWrites(s) \/ UserEnds(s) \/ UserCloses(s)
          \/ Established(s) \/ Lose(s) \/ ServerAnswers(s)
    BY <1>2 DEF Next
  <2>2. CASE Do(s)
    BY <2>2, DoKeeps
  <2>3. CASE Connect(s)
    BY <2>3, ConnectKeeps
  <2>4. CASE IdleTimeout(s)
    BY <2>4, IdleTimeoutKeeps
  <2>5. CASE Timeout(s)
    BY <2>5, TimeoutKeeps
  <2>6. CASE \E o \in Sessions : TakeConnection(s, o) \/ Interrupt(s, o)
    <3>1. PICK o \in Sessions : TakeConnection(s, o) \/ Interrupt(s, o)
      BY <2>6
    <3> QED
      BY <3>1, TakeKeeps, InterruptKeeps
  <2>7. CASE UserOpens(s)
    BY <2>7, OpensKeeps
  <2>8. CASE UserReads(s)
    BY <2>8, ReadsKeeps
  <2>9. CASE UserWrites(s)
    BY <2>9, WritesKeeps
  <2>10. CASE UserEnds(s)
    BY <2>10, EndsKeeps
  <2>11. CASE UserCloses(s)
    BY <2>11, ClosesKeeps
  <2>12. CASE Established(s)
    BY <2>12, EstablishedKeeps
  <2>13. CASE Lose(s)
    BY <2>13, LoseKeeps
  <2>14. CASE ServerAnswers(s)
    BY <2>14, ServerKeeps
  <2> QED
    BY <2>1, <2>2, <2>3, <2>4, <2>5, <2>6, <2>7, <2>8, <2>9, <2>10, <2>11, <2>12, <2>13, <2>14
<1> QED
  BY <1>1, <1>2

\* The invariant: what is on its way is expected and in order, expectations fit the operation, data is
\* that of the file, and handles and questions are not forgotten.
THEOREM Invariant == Spec => []IInv
BY InitIs, NextKeeps, PTL DEF Spec

\* A handle that the server has open is used, or its answer or the request to close it are on their
\* way (CloseExpectQueue, HANDLE_STALE), with sessions and connections of the right types.
THEOREM NoHandleForgotten == Spec => []HandlesKept
<1>1. ASSUME IInv PROVE HandlesKept
  <2>1. ASSUME NEW s \in Sessions
        PROVE  /\ ses[s] \in Ses /\ W(s).f = ses[s] /\ W(s).c = conn[s] /\ (conn[s].on <=> conn[s] \in Conn)
               /\ Phase(ses[s]) /\ Holds(ses[s]) /\ (ses[s].state = "DISCONNECTED" <=> ~conn[s].on)
               /\ (conn[s].on => OnItsWay(conn[s]) /\ Kept(ses[s], conn[s], {}))
    BY <1>1, SessionIs DEF Good, Whole, Session, Joint
  <2>2. ASSUME NEW s \in Sessions, conn[s].on
        PROVE  DOMAIN conn[s].wire = 1..Len(conn[s].wire) /\ DOMAIN conn[s].out = 1..Len(conn[s].out)
    <3>1. conn[s].wire \in Seq(Answer) /\ conn[s].out \in Seq(Sent)
      BY <2>1, <2>2, ConnFields
    <3> QED
      BY <3>1, LenProperties
  <2>3. TypeOK
    <3> SUFFICES ASSUME NEW s \in Sessions
                 PROVE  /\ ses[s].state \in {"DISCONNECTED", "CONNECTING", "CONNECTED", "FILE_RECV", "FILE_SEND", "WAITING", "DONE"}
                        /\ ses[s].state # "DISCONNECTED" => conn[s].on
                        /\ ses[s].state \in {"FILE_RECV", "FILE_SEND"} => ses[s].buf.on
                        /\ conn[s].on => \A i \in DOMAIN conn[s].wire : conn[s].wire[i].id \in DOMAIN conn[s].expect
                        /\ ses[s].pos \in 0..N /\ Len(ses[s].ooo) <= MaxOutOfOrder
      BY DEF TypeOK
    <3>1. ses[s].state \in {"DISCONNECTED", "CONNECTING", "CONNECTED", "FILE_RECV", "FILE_SEND", "WAITING", "DONE"} /\ ses[s].pos \in Nat
      BY <2>1, SesFields
    <3>2. ses[s].pos <= N /\ Len(ses[s].ooo) <= MaxOutOfOrder
      BY <2>1 DEF Holds
    <3>3. ses[s].pos \in 0..N
      BY <3>1, <3>2, Numbers
    <3>4. ses[s].state \in {"FILE_RECV", "FILE_SEND"} => ses[s].buf.on
      BY <2>1 DEF Phase
    <3>5. conn[s].on => \A i \in DOMAIN conn[s].wire : conn[s].wire[i].id \in DOMAIN conn[s].expect
      BY <2>1, <2>2 DEF OnItsWay, Awaited
    <3> QED
      BY <2>1, <3>1, <3>2, <3>3, <3>4, <3>5
  <2>4. ASSUME NEW s \in Sessions, conn[s].on, conn[s].net # "lost", NEW h \in conn[s].handles
        PROVE  \/ ses[s].handle = h
               \/ \E i \in DOMAIN conn[s].out : conn[s].out[i].req.k = "CLOSE" /\ conn[s].out[i].req.h = h
               \/ \E i \in DOMAIN conn[s].wire :
                    conn[s].wire[i].h = h /\ conn[s].expect[conn[s].wire[i].id].tag \in {"HANDLE", "STALE"}
    BY <2>1, <2>2, <2>4 DEF Kept
  <2> QED
    BY <2>3, <2>4 DEF HandlesKept
<1> QED
  BY <1>1, Invariant, PTL

\* A user has read the bytes of the file that was opened, from the position it was opened at.
BytesRight ==
    \A s \in Sessions :
      /\ user[s].open.from + Len(user[s].got) <= N
      /\ user[s].got = Bytes(user[s].open.file, user[s].open.from, Len(user[s].got))
\* What a user has read so far are the bytes of the file that was opened, from the position it was
\* opened at and in order, whatever has overtaken what (Read, HandleExpect, ooo_chain).
THEOREM BytesOfTheFile == Spec => []BytesRight
<1>1. ASSUME IInv PROVE BytesRight
  BY <1>1 DEF IInv, Reads, BytesRight
<1> QED
  BY <1>1, Invariant, PTL

\* When GetInfoArray is done each file is known or the server has refused it, and what is noted of a
\* file is of that file (SendArrayInfoRequests, DisconnectLL).
THEOREM InfoIsRight == Spec => []InfoRight
<1>1. ASSUME IInv PROVE InfoRight
  <2> SUFFICES ASSUME NEW s \in Sessions
               PROVE  /\ \A i \in ses[s].info : i[1] = i[2]
                      /\ ses[s].mode = "ARRAY_INFO" /\ ses[s].state = "DONE" =>
                           \A i \in 1..K : <<i, i>> \in ses[s].info \/ <<ses[s].file, i>> \in conn[s].refused
    BY DEF InfoRight
  <2>1. /\ W(s).f = ses[s] /\ W(s).c = conn[s] /\ Known(ses[s]) /\ (ses[s].state = "DISCONNECTED" <=> ~conn[s].on)
        /\ (conn[s].on => Expects(ses[s], conn[s]) /\ Informed(ses[s], conn[s], {}))
    BY <1>1, SessionIs DEF Good, Whole, Session, Joint
  <2>2. ASSUME ses[s].mode = "ARRAY_INFO", ses[s].state = "DONE", NEW i \in 1..K
        PROVE  <<i, i>> \in ses[s].info \/ <<ses[s].file, i>> \in conn[s].refused
    <3>1. conn[s].on /\ ses[s].next = K + 1
      BY <2>1, <2>2 DEF Known
    <3>2. i \in 1..(ses[s].next - 1)
      BY <3>1, Numbers
    <3>3. \/ <<i, i>> \in ses[s].info
          \/ <<ses[s].file, i>> \in conn[s].refused
          \/ \E j \in DOMAIN conn[s].expect : conn[s].expect[j].tag = "INFO" /\ conn[s].expect[j].req.pos = i
      BY <2>1, <2>2, <3>1, <3>2 DEF Informed
    <3>4. \A j \in DOMAIN conn[s].expect : conn[s].expect[j].tag # "INFO"
      BY <2>1, <2>2, <3>1 DEF Expects, Fits
    <3> QED
      BY <3>3, <3>4
  <2>3. \A i \in ses[s].info : i[1] = i[2]
    BY <2>1 DEF Known
  <2> QED
    BY <2>2, <2>3
<1> QED
  BY <1>1, Invariant, PTL
=============================================================================
