-------------------------- MODULE SFtpStoreProofs --------------------------
(***************************************************************************)
(* A store through an SFTP session that is reported done is complete       *)
(* (StoredAll), for any number of sessions that share connections, files   *)
(* of any size, all limits and any number of refusals and losses.          *)
(*                                                                         *)
(* The premise is WritesFirst: the answer to CLOSE does not overtake the   *)
(* answer to a WRITE. The rest follows from an invariant of each session   *)
(* and its connection, SInv, which is inductive with IInv of SFtpProofs:   *)
(*                                                                         *)
(*   Mine     What is expected on a connection and changes a file is for   *)
(*            the session's own file, or for that of a closed operation    *)
(*            (Past) and tagged so. So nobody else writes to the file.     *)
(*   Sending  What the user has written and the session has not sent is    *)
(*            in the buffer, and CLOSE is sent when nothing is left.       *)
(*   Stored   Unless a write has failed, whose answer is then on its way,  *)
(*            the server has the first m bytes and the writes on their way *)
(*            are of those from m on, in order (Filling). The answer to    *)
(*            CLOSE finds the whole file or a failed write in front.       *)
(*                                                                         *)
(* There is a lemma for the effect of each operator on Mine (...Adds) and  *)
(* on Storing (...Storing), and one for each action (...Stores).           *)
(***************************************************************************)
EXTENDS SFtpProofs

-----------------------------------------------------------------------------
(* Whose requests are whose.                                               *)

\* The requests that change a file
Changes == {"WRITE", "CREATE"}

\* Those expected for the operation change its own file, and those that are expected for nobody any more
\* (CloseExpectQueue) the files F of operations that have been closed.
Mine(file, c, F) ==
    c.on => \A i \in DOMAIN c.expect :
      LET e == c.expect[i] IN
      e.req.k \in Changes => IF e.tag \in {"IGNORE", "STALE"} THEN e.req.for \in F ELSE e.req.for = file

\* What a connection c expects as it becomes d: no more than it did, but for requests of the operation
\* and those that change nothing.
Adds(file, c, d) ==
    d.on => /\ c.on
            /\ \A i \in DOMAIN d.expect :
                 \/ i \in DOMAIN c.expect /\ d.expect[i] = c.expect[i]
                 \/ d.expect[i].req.k \notin Changes
                 \/ d.expect[i].req.for = file /\ d.expect[i].tag \notin {"IGNORE", "STALE"}

\* Then they stay whose they were.
LEMMA AddsMine ==
    ASSUME NEW file, NEW c, NEW d, NEW F, Mine(file, c, F), Adds(file, c, d)
    PROVE  Mine(file, d, F)
BY DEF Mine, Adds

\* A connection that stays, or is lost, adds nothing,
LEMMA AddsNone == \A file, c : Adds(file, c, c) /\ Adds(file, c, NoConn)
BY DEF Adds, NoConn

\* and two steps add what each does.
LEMMA AddsBoth ==
    ASSUME NEW file, NEW c, NEW d, NEW e, Adds(file, c, d), Adds(file, d, e)
    PROVE  Adds(file, c, e)
BY DEF Adds

\* A session whose connection can be used
Able(w) == w \in World /\ w.c \in Conn /\ Numbered(w.c)

\* A session that is good can use its connection.
LEMMA WholeAble ==
    ASSUME NEW w, NEW H, NEW X, Whole(w, H, X), w.c \in Conn
    PROVE  Able(w)
BY ConnFields DEF Whole, Joint, OnItsWay, Able

\* One that a call has left can be used, or is no more.
LEMMA LeadsAble ==
    ASSUME NEW w, NEW v, NEW H, NEW X, Leads(w, v, H, X)
    PROVE  v \in World /\ (v.c = NoConn \/ Able(v))
BY OnIsConn, WholeAble DEF Leads, Whole

\* SendRequest(Packet) adds its request.
LEMMA SendAdds ==
    ASSUME NEW file, NEW w, Able(w), NEW q \in Req, NEW tag \in Tag,
           q.k \notin Changes \/ (q.for = file /\ tag \notin {"IGNORE", "STALE"})
    PROVE  Adds(file, w.c, Send(w, q, tag).c) /\ Able(Send(w, q, tag))
<1> DEFINE v == Send(w, q, tag)  e == [req |-> q, tag |-> tag]
<1>1. w \in World /\ w.c \in Conn /\ Numbered(w.c) /\ w.c.on
  BY ConnFields DEF Able
<1>2. Sends(w, q, tag, v)
  BY <1>1, SendIs
<1> HIDE DEF v
<1>3. /\ v \in World /\ v.c \in Conn /\ w.c.id \in Nat /\ v.c.id = w.c.id + 1
      /\ DOMAIN v.c.expect = DOMAIN w.c.expect \cup {w.c.id} /\ v.c.expect[w.c.id] = e
      /\ \A i \in DOMAIN w.c.expect : v.c.expect[i] = w.c.expect[i]
  BY <1>2 DEF Sends
<1>4. e.req = q /\ e.tag = tag
  OBVIOUS
<1> HIDE DEF e
<1>5. Adds(file, w.c, v.c)
  BY <1>1, <1>3, <1>4 DEF Adds
<1>6. Numbered(v.c)
  <2>1. v.c.expect \in Queue /\ w.c.expect \in Queue
    BY <1>1, <1>3, ConnFields
  <2>2. DOMAIN v.c.expect \subseteq Nat
    BY <2>1, QueueHas
  <2> QED
    BY <2>2, <1>1, <1>3 DEF Numbered
<1> QED
  BY <1>3, <1>5, <1>6 DEF Able, v

\* The label eof of HandleExpect changes nothing of the connection.
LEMMA EofConn ==
    ASSUME NEW w \in World, NEW id
    PROVE  Eof(w, id).c = w.c
<1> DEFINE g == [[w.f EXCEPT !.eof = TRUE] EXCEPT !.state = "DONE"]
           b == [w.f.buf EXCEPT !.eof = TRUE]
           h == [g EXCEPT !.buf = b]
           v == Eof(w, id)
<1>1. w.f \in Ses
  BY OnIsConn
<1>2. v = [w EXCEPT !.f = g] \/ v = [w EXCEPT !.f = h]
  <2>1. \/ v = [[w EXCEPT !.f.eof = TRUE] EXCEPT !.f.state = "DONE"]
        \/ v = [[[w EXCEPT !.f.eof = TRUE] EXCEPT !.f.state = "DONE"] EXCEPT !.f.buf.eof = TRUE]
    BY Zenon DEF Eof
  <2>2. [[w EXCEPT !.f.eof = TRUE] EXCEPT !.f.state = "DONE"] = [w EXCEPT !.f = g]
    BY Zenon DEF World
  <2>3. g.buf = w.f.buf
    BY <1>1, Zenon DEF Ses
  <2>4. [[w EXCEPT !.f = g] EXCEPT !.f.buf.eof = TRUE] = [w EXCEPT !.f = h]
    BY <2>3, Zenon DEF World
  <2> QED
    BY <2>1, <2>2, <2>4, Zenon
<1> HIDE DEF g, h, v
<1>3. v.c = w.c
  BY <1>2, Zenon DEF World
<1> QED
  BY <1>3 DEF v

\* A short answer: what is missing is asked for.
LEMMA ShortAdds ==
    ASSUME NEW file, NEW w, Able(w), NEW r \in Answer, r.req.n > Len(r.data)
    PROVE  Adds(file, w.c, Short(w, r).c)
<1> DEFINE end == r.req.pos + Len(r.data)  n == r.req.n - Len(r.data)  v == [w EXCEPT !.f.req_pos = end]
           q == OnHandle(w.f, "READ", end, n)
<1>1. w \in World /\ w.f \in Ses
  BY OnIsConn DEF Able
<1>2. end \in Nat /\ n \in Nat
  BY AnswerFields, ReqFields, LenProperties
<1>3. Short(w, r) = v \/ Short(w, r) = Send(w, q, "DATA")
  BY Zenon DEF Short
<1>4. v.c = w.c
  BY <1>1, Zenon DEF World
<1> HIDE DEF end, n, v
<1>5. q \in Req /\ q.k = "READ" /\ "DATA" \in Tag
  BY <1>1, <1>2, Requests DEF Tag
<1> HIDE DEF q
<1>6. Adds(file, w.c, Send(w, q, "DATA").c)
  BY <1>5, SendAdds DEF Changes
<1> QED
  BY <1>3, <1>4, <1>6, AddsNone

\* HandleExpect, DATA: at most what is missing is asked for.
LEMMA HandleDataAdds ==
    ASSUME NEW file, NEW w, Able(w), NEW r \in Answer
    PROVE  Adds(file, w.c, HandleData(w, r).c)
<1> DEFINE slow == IF w.f.slow < MaxFlight THEN w.f.slow + 1 ELSE w.f.slow
           g == [w.f EXCEPT !.slow = slow]  v == [w EXCEPT !.f.slow = IF @ < MaxFlight THEN @ + 1 ELSE @]
           u == [v EXCEPT !.f.buf.data = @ \o r.data]
           x == [v EXCEPT !.f.ooo = Append(@, r)]
           y == Disconnect(v)
           z == Fails(v, "NO_FILE")
<1>1. w \in World /\ w.f \in Ses /\ w.c \in Conn /\ w.f.slow \in Nat /\ w.f.buf \in Buf /\ w.f.buf.data \in Seq(File \X Nat)
      /\ Numbered(w.c)
  BY OnIsConn, SesFields DEF Able
<1>2. slow \in Nat
  BY <1>1
<1>3. v = [w EXCEPT !.f = g]
  BY Zenon
<1>d. HandleData(w, r) =
        IF r.t = "status" THEN IF r.code = "eof" THEN Eof(v, r.id) ELSE z
        ELSE IF r.req.pos # w.f.pos + Len(w.f.buf.data)
        THEN IF Len(w.f.ooo) >= MaxOutOfOrder THEN y ELSE x
        ELSE IF w.f.eof THEN Eof(u, r.id) ELSE IF r.req.n > Len(r.data) THEN Short(u, r) ELSE u
  BY Zenon DEF HandleData
<1> HIDE DEF slow
<1>4. g \in Ses /\ g.buf = w.f.buf
  BY <1>1, <1>2, Zenon DEF Ses
<1> HIDE DEF g, v
<1>5. v \in World /\ v.c = w.c /\ v.f = g
  BY <1>1, <1>3, <1>4, Zenon DEF World
<1>6. x.c = w.c /\ y.c = NoConn /\ z.c = w.c
  <2>1. x.c = v.c /\ z.c = v.c
    BY <1>5, Zenon DEF World, Fails
  <2>2. y.c = NoConn
    BY Zenon DEF Disconnect
  <2> QED
    BY <2>1, <2>2, <1>5
<1>7. u \in World /\ u.c = w.c
  <2> DEFINE data == w.f.buf.data \o r.data  b == [g.buf EXCEPT !.data = data]  h == [g EXCEPT !.buf = b]
  <2>1. data \in Seq(File \X Nat)
    <3>1. r.data \in Seq(File \X Nat)
      BY AnswerFields
    <3> QED
      BY <3>1, <1>1, ConcatProperties
  <2>2. u = [v EXCEPT !.f = h]
    <3>1. u = [v EXCEPT !.f = [v.f EXCEPT !.buf = [v.f.buf EXCEPT !.data = v.f.buf.data \o r.data]]]
      BY Zenon
    <3> QED
      BY <3>1, <1>4, <1>5, Zenon
  <2> HIDE DEF data, u
  <2>3. b \in Buf
    BY <2>1, <1>1, <1>4, Zenon DEF Buf
  <2> HIDE DEF b
  <2>4. h \in Ses
    BY <2>3, <1>4, Zenon DEF Ses
  <2> HIDE DEF h
  <2> QED
    BY <2>2, <2>4, <1>5, Zenon DEF World
<1> HIDE DEF u, x, y, z
<1>8. Able(u)
  BY <1>1, <1>7 DEF Able
<1>9. Eof(u, r.id).c = w.c /\ Eof(v, r.id).c = w.c
  BY <1>5, <1>7, EofConn
<1>10. r.req.n > Len(r.data) => Adds(file, w.c, Short(u, r).c)
  BY <1>7, <1>8, ShortAdds
<1> QED
  BY <1>d, <1>6, <1>7, <1>9, <1>10, AddsNone

\* HandleExpect, HANDLE: of a file to be read the size is asked for.
LEMMA HandleHandleAdds ==
    ASSUME NEW file, NEW w, Able(w), NEW r \in Answer
    PROVE  Adds(file, w.c, HandleHandle(w, r).c)
<1> DEFINE state == IF w.f.mode = "STORE" THEN "FILE_SEND" ELSE "FILE_RECV"
           buf == [NoBuf EXCEPT !.on = TRUE]
           g == [[[[w.f EXCEPT !.handle = r.h] EXCEPT !.state = state] EXCEPT !.buf = buf] EXCEPT !.req_pos = w.f.pos]
           v == [w EXCEPT !.f.handle = r.h, !.f.state = IF w.f.mode = "STORE" THEN "FILE_SEND" ELSE "FILE_RECV",
                          !.f.buf = [NoBuf EXCEPT !.on = TRUE], !.f.req_pos = w.f.pos]
           q == OnHandle(v.f, "FSTAT", 0, 0)
           z == Fails(w, "NO_FILE")
<1>1. w \in World /\ w.f \in Ses /\ w.c \in Conn /\ Numbered(w.c) /\ w.f.pos \in Nat
  BY OnIsConn, SesFields DEF Able
<1>2. HandleHandle(w, r) = z \/ HandleHandle(w, r) = v \/ HandleHandle(w, r) = Send(v, q, "INFO")
  BY Zenon DEF HandleHandle
<1>3. v = [w EXCEPT !.f = g]
  BY <1>1, Zenon DEF World, Ses
<1>4. g \in Ses
  <2>1. r.h \in Nat
    BY AnswerFields
  <2>2. state \in {"DISCONNECTED", "CONNECTING", "CONNECTED", "FILE_RECV", "FILE_SEND", "WAITING", "DONE"}
    OBVIOUS
  <2>3. <<>> \in Seq(File \X Nat)
    BY EmptySeq
  <2>4. NoBuf \in Buf
    BY <2>3 DEF NoBuf, Buf
  <2>5. buf \in Buf
    BY <2>4, Zenon DEF Buf
  <2> HIDE DEF state, buf
  <2> QED
    BY <2>1, <2>2, <2>5, <1>1, Zenon DEF Ses
<1> HIDE DEF g, v
<1>5. v \in World /\ v.c = w.c
  BY <1>1, <1>3, <1>4, Zenon DEF World
<1>6. Able(v) /\ v.f \in Ses
  BY <1>1, <1>5, OnIsConn DEF Able
<1>7. q \in Req /\ q.k = "FSTAT" /\ "INFO" \in Tag
  BY <1>6, Requests DEF Tag
<1>8. z.c = w.c
  BY <1>1, Zenon DEF Fails, World
<1> HIDE DEF q, z
<1>9. Adds(file, w.c, Send(v, q, "INFO").c)
  BY <1>5, <1>6, <1>7, SendAdds DEF Changes
<1> QED
  BY <1>2, <1>5, <1>8, <1>9, AddsNone

\* HandleExpect: at most a question is added, or a handle closed that has come too late.
LEMMA HandleExpectAdds ==
    ASSUME NEW file, NEW w, NEW r, NEW tag, Due(w, r, tag)
    PROVE  Adds(file, w.c, HandleExpect(w, r, tag).c)
<1>1. Able(w) /\ r \in Answer /\ w \in World /\ tag \in Tag
  BY WholeAble DEF Due, Able
<1>2. CASE tag = "STALE" /\ r.t = "handle"
  <2> DEFINE p == Request("CLOSE", r.req.for, 0, 0)  q == [p EXCEPT !.h = r.h]
  <2>1. r.req.for \in File /\ r.h \in Nat
    BY <1>1, AnswerFields, ReqFields
  <2>2. p \in Req /\ p.k = "CLOSE"
    BY <2>1 DEF Request, Req, NoHandle
  <2>d. HandleExpect(w, r, tag) = Send(w, q, "IGNORE")
    BY <1>2 DEF HandleExpect
  <2> HIDE DEF p
  <2>3. q \in Req /\ q.k = "CLOSE" /\ "IGNORE" \in Tag
    BY <2>1, <2>2, Zenon DEF Req, Tag
  <2> HIDE DEF q
  <2>4. Adds(file, w.c, Send(w, q, "IGNORE").c)
    BY <1>1, <2>3, SendAdds DEF Changes
  <2> QED
    BY <2>4, <2>d
<1>3. CASE tag = "INFO"
  <2>1. HandleInfo(w, r).c = w.c
    BY <1>1, Zenon DEF HandleInfo, World
  <2> QED
    BY <2>1, <1>3, AddsNone DEF HandleExpect
<1>4. Fails(w, "NO_FILE").c = w.c /\ [w EXCEPT !.f.state = "DONE"].c = w.c
  BY <1>1, Zenon DEF Fails, World
<1>5. CASE tag \in {"WRITE_STATUS", "DEFAULT", "IGNORE"} \/ (tag = "STALE" /\ r.t # "handle")
  <2>1. HandleExpect(w, r, tag).c = w.c
    BY <1>4, <1>5 DEF HandleExpect, HandleWritten
  <2> QED
    BY <2>1, AddsNone
<1>6. CASE tag = "DATA"
  BY <1>1, <1>6, HandleDataAdds DEF HandleExpect
<1>7. CASE tag = "HANDLE"
  BY <1>1, <1>7, HandleHandleAdds DEF HandleExpect
<1> QED
  BY <1>1, <1>2, <1>3, <1>5, <1>6, <1>7 DEF Tag

\* An answer that has been taken from the connection is no more on its way nor expected; the rest stays.
LEMMA WithoutIs ==
    ASSUME NEW w, w.c \in Conn, Good(w), NEW i \in 1..Len(w.c.wire)
    PROVE  LET d == Without(w, i).c  c == w.c IN
           /\ d \in Conn /\ d.net = c.net /\ d.out = c.out
           /\ DOMAIN d.expect = DOMAIN c.expect \ {c.wire[i].id} /\ \A j \in DOMAIN d.expect : d.expect[j] = c.expect[j]
           /\ \A j \in 1..Len(d.wire) : \E k \in 1..Len(c.wire) : k # i /\ d.wire[j] = c.wire[k]
           /\ \A k \in 1..Len(c.wire) : k # i => \E j \in 1..Len(d.wire) : d.wire[j] = c.wire[k]
<1> DEFINE c == w.c  s == c.wire  v == Without(w, i)
           wire == SubSeq(s, 1, i - 1) \o SubSeq(s, i + 1, Len(s))
           D == DOMAIN c.expect \ {s[i].id}
           expect == [j \in D |-> c.expect[j]]
           d == [[c EXCEPT !.wire = wire] EXCEPT !.expect = expect]
<1>1. w \in World /\ c \in Conn /\ s \in Seq(Answer) /\ c.expect \in Queue /\ i \in 1..Len(s)
  BY ConnFields DEF Good, Whole
<1>2. v = [f |-> w.f, c |-> d]
  <2>1. v = [w EXCEPT !.c = d]
    BY Zenon DEF Without
  <2> HIDE DEF d, v
  <2> QED
    BY <1>1, <2>1, OnIsConn, Zenon DEF World
<1>3. /\ wire \in Seq(Answer) /\ Len(wire) = Len(s) - 1 /\ Len(s) \in Nat
      /\ \A j \in 1..(Len(s) - 1) : wire[j] = IF j < i THEN s[j] ELSE s[j + 1]
  <2> HIDE DEF s
  <2> QED
    BY <1>1, TakenOut
<1>4. expect \in Queue /\ DOMAIN expect = D /\ \A j \in D : expect[j] = c.expect[j]
  <2>1. D \subseteq Nat /\ (\A j \in D : expect[j] \in Expected) /\ expect = [j \in D |-> expect[j]]
    BY <1>1, QueueHas
  <2> QED
    BY <2>1, QueueIs
<1> HIDE DEF wire, expect
<1>5. d \in Conn /\ d.net = c.net /\ d.out = c.out /\ d.wire = wire /\ d.expect = expect
  BY <1>1, <1>3, <1>4, Zenon DEF Conn
<1> HIDE DEF d, v
<1>6. v.c = d
  BY <1>2
<1>7. ASSUME NEW j \in 1..Len(wire) PROVE \E k \in 1..Len(s) : k # i /\ wire[j] = s[k]
  <2>1. j \in 1..(Len(s) - 1) /\ j \in 1..Len(s) /\ j + 1 \in 1..Len(s)
    BY <1>3
  <2> HIDE DEF s
  <2>2. CASE j < i
    BY <2>1, <2>2, <1>1, <1>3
  <2>3. CASE ~(j < i)
    <3>1. j + 1 # i /\ wire[j] = s[j + 1]
      BY <2>1, <2>3, <1>1, <1>3
    <3> QED
      BY <3>1, <2>1
  <2> QED
    BY <2>2, <2>3
<1>8. ASSUME NEW k \in 1..Len(s), k # i PROVE \E j \in 1..Len(wire) : wire[j] = s[k]
  <2> HIDE DEF s
  <2>1. CASE k < i
    <3>1. k \in 1..(Len(s) - 1) /\ wire[k] = s[k]
      BY <2>1, <1>1, <1>3
    <3> QED
      BY <3>1, <1>3
  <2>2. CASE ~(k < i)
    <3>1. k - 1 \in 1..(Len(s) - 1) /\ ~(k - 1 < i) /\ (k - 1) + 1 = k
      BY <2>2, <1>1, <1>3, <1>8
    <3>2. wire[k - 1] = s[k]
      BY <3>1, <1>3
    <3> QED
      BY <3>1, <3>2, <1>3
  <2> QED
    BY <2>1, <2>2
<1>9. DOMAIN v.c.expect = DOMAIN c.expect \ {s[i].id} /\ \A j \in DOMAIN v.c.expect : v.c.expect[j] = c.expect[j]
  BY <1>4, <1>5, <1>6
<1>10. v.c \in Conn /\ v.c.net = c.net /\ v.c.out = c.out /\ v.c.wire = wire
  BY <1>5, <1>6
<1> HIDE DEF D
<1>11. /\ v.c \in Conn /\ v.c.net = c.net /\ v.c.out = c.out
       /\ DOMAIN v.c.expect = DOMAIN c.expect \ {c.wire[i].id} /\ \A j \in DOMAIN v.c.expect : v.c.expect[j] = c.expect[j]
       /\ \A j \in 1..Len(v.c.wire) : \E k \in 1..Len(c.wire) : k # i /\ v.c.wire[j] = c.wire[k]
       /\ \A k \in 1..Len(c.wire) : k # i => \E j \in 1..Len(v.c.wire) : v.c.wire[j] = c.wire[k]
  BY <1>7, <1>8, <1>9, <1>10
<1> QED
  BY <1>11 DEF v

\* HandleReplies, the packet at i
LEMMA HandlePacketAdds ==
    ASSUME NEW file, NEW w, w.c \in Conn, Good(w), NEW i \in 1..Len(w.c.wire)
    PROVE  Adds(file, w.c, HandlePacket(w, i).c)
<1> DEFINE r == w.c.wire[i]  e == w.c.expect[w.c.wire[i].id]  x == Without(w, i)
<1>1. HandlePacket(w, i) = HandleExpect(x, [r EXCEPT !.req = e.req], e.tag)
  BY Zenon DEF HandlePacket, Without
<1>2. Due(x, r, e.tag) /\ [r EXCEPT !.req = e.req] = r
  BY PacketDue
<1>3. Adds(file, w.c, x.c)
  <2>1. DOMAIN x.c.expect \subseteq DOMAIN w.c.expect /\ (\A j \in DOMAIN x.c.expect : x.c.expect[j] = w.c.expect[j]) /\ w.c.on
    BY WithoutIs, ConnFields
  <2> HIDE DEF x
  <2> QED
    BY <2>1 DEF Adds
<1> HIDE DEF r, e, x
<1>4. Adds(file, x.c, HandleExpect(x, r, e.tag).c)
  BY <1>2, HandleExpectAdds
<1>5. HandlePacket(w, i) = HandleExpect(x, r, e.tag)
  BY <1>1, <1>2, Zenon
<1> QED
  BY <1>3, <1>4, <1>5, AddsBoth

\* HandleReplies, an answer that was kept
LEMMA OutOfOrderAdds ==
    ASSUME NEW file, NEW w, w.c \in Conn, Good(w)
    PROVE  Adds(file, w.c, OutOfOrder(w).c)
<1> DEFINE f == w.f
           at == {i \in DOMAIN f.ooo : f.ooo[i].req.pos = f.pos + Len(f.buf.data)}
           i == CHOOSE i \in at : \A j \in at : i <= j
           r == f.ooo[i]
           ooo == SubSeq(f.ooo, 1, i - 1) \o SubSeq(f.ooo, i + 1, Len(f.ooo))
           g == [f EXCEPT !.ooo = ooo]
           v == [w EXCEPT !.f.ooo = SubSeq(@, 1, i - 1) \o SubSeq(@, i + 1, Len(@))]
<1>1. w \in World /\ f \in Ses /\ f.ooo \in Seq(Answer) /\ Able(w)
  BY OnIsConn, SesFields, WholeAble DEF Good, Whole
<1>d. OutOfOrder(w) = IF ~f.buf.on \/ at = {} THEN w ELSE HandleExpect(v, r, "DATA")
  BY Zenon DEF OutOfOrder
<1>2. CASE f.buf.on /\ at # {}
  <2>1. at \subseteq 1..Len(f.ooo) /\ Len(f.ooo) \in Nat
    BY <1>1, LenProperties, Zenon
  <2>2. \E m \in at : \A x \in at : m <= x
    <3> HIDE DEF at
    <3>1. at \in SUBSET Nat
      BY <2>1
    <3> QED
      BY <3>1, <1>2, Least
  <2>3. i \in at
    BY <2>2
  <2> HIDE DEF at, i
  <2>4. i \in 1..Len(f.ooo)
    BY <2>1, <2>3
  <2>5. r \in Answer
    BY <1>1, <2>4, ElementOfSeq
  <2>6. ooo \in Seq(Answer)
    <3> DEFINE s == f.ooo
    <3>1. s \in Seq(Answer) /\ i \in 1..Len(s) /\ ooo = SubSeq(s, 1, i - 1) \o SubSeq(s, i + 1, Len(s))
      BY <1>1, <2>4
    <3> HIDE DEF s, ooo
    <3> QED
      BY <3>1, TakenOut
  <2>7. v = [w EXCEPT !.f = g]
    BY Zenon
  <2> HIDE DEF ooo
  <2>8. g \in Ses
    BY <1>1, <2>6, Zenon DEF Ses
  <2> HIDE DEF g, v, r
  <2>9. v \in World /\ v.c = w.c
    BY <1>1, <2>7, <2>8, Zenon DEF World
  <2>10. Able(v)
    BY <1>1, <2>9 DEF Able
  <2>11. Adds(file, v.c, HandleData(v, r).c)
    BY <2>5, <2>10, HandleDataAdds
  <2> QED
    BY <2>9, <2>11, <1>2, <1>d DEF HandleExpect
<1>3. CASE ~(f.buf.on /\ at # {})
  BY <1>3, <1>d, AddsNone
<1> QED
  BY <1>2, <1>3

\* The end of the file changes nothing of the connection.
LEMMA LateEofConn ==
    ASSUME NEW w \in World
    PROVE  LateEof(w).c = w.c
BY Zenon DEF LateEof, World

\* HandleReplies
LEMMA HandleRepliesAdds ==
    ASSUME NEW file, NEW w, w.c \in Conn, Good(w), NEW u \in HandleReplies(w)
    PROVE  Adds(file, w.c, u.c)
<1> DEFINE v == LateEof(OutOfOrder(w))
<1>1. Leads(w, OutOfOrder(w), {}, {})
  BY OutOfOrderLeads
<1>2. Good(v) /\ v.c = OutOfOrder(w).c
  <2>1. Leads(OutOfOrder(w), v, {}, {})
    BY <1>1, LateEofLeads DEF Leads, Good
  <2>2. OutOfOrder(w) \in World
    BY <1>1 DEF Leads, Whole
  <2> QED
    BY <2>1, <2>2, LateEofConn DEF Leads, Good
<1>3. Adds(file, w.c, v.c)
  BY <1>2, OutOfOrderAdds
<1>4. \/ u = v
      \/ u = Disconnect(v)
      \/ v.c.on /\ \E i \in DOMAIN v.c.wire : u = HandlePacket(v, i)
  BY DEF HandleReplies
<1> HIDE DEF v
<1>5. CASE u = v
  BY <1>3, <1>5
<1>6. CASE u = Disconnect(v)
  <2>1. u.c = NoConn
    BY <1>6, Zenon DEF Disconnect
  <2> QED
    BY <2>1, AddsNone
<1>7. CASE v.c.on /\ \E i \in DOMAIN v.c.wire : u = HandlePacket(v, i)
  <2>1. PICK i \in DOMAIN v.c.wire : u = HandlePacket(v, i)
    BY <1>7
  <2>2. v.c \in Conn
    BY <1>2, <1>7, OnIsConn DEF Good, Whole
  <2>3. i \in 1..Len(v.c.wire)
    BY <2>2, ConnFields, LenProperties
  <2>4. Adds(file, v.c, HandlePacket(v, i).c)
    BY <1>2, <2>2, <2>3, HandlePacketAdds
  <2> QED
    BY <2>1, <2>4, <1>3, AddsBoth
<1> QED
  BY <1>4, <1>5, <1>6, <1>7

\* CloseHandle
LEMMA CloseHandleAdds ==
    ASSUME NEW file, NEW w, Able(w), NEW tag \in Tag
    PROVE  Adds(file, w.c, CloseHandle(w, tag).c)
<1> DEFINE q == OnHandle(w.f, "CLOSE", 0, 0)  u == Send(w, q, tag)
<1>1. q \in Req /\ q.k = "CLOSE"
  BY OnIsConn, Requests DEF Able
<1>2. CloseHandle(w, tag) = w \/ CloseHandle(w, tag) = [u EXCEPT !.f.handle = NoHandle]
  BY Zenon DEF CloseHandle
<1> HIDE DEF q
<1>3. Adds(file, w.c, u.c) /\ u \in World
  BY <1>1, SendAdds DEF Changes, Able
<1> HIDE DEF u
<1>4. [u EXCEPT !.f.handle = NoHandle].c = u.c
  BY <1>3, Zenon DEF World
<1> QED
  BY <1>2, <1>3, <1>4, AddsNone

\* SendRequest: of what an operation begins with, only the file to be stored is changed.
LEMMA SendRequestAdds ==
    ASSUME NEW w, Able(w), w.f.mode # "CLOSED"
    PROVE  Adds(w.f.file, w.c, SendRequest(w).c)
<1> DEFINE g == [w.f EXCEPT !.slow = 1, !.state = "WAITING"]
           v == [w EXCEPT !.f.slow = 1, !.f.state = "WAITING"]
           q == IF w.f.mode = "RETRIEVE" THEN Request("OPEN", w.f.file, 0, 0)
                ELSE IF w.f.mode = "STORE" THEN Request("CREATE", w.f.file, w.f.pos, 0) ELSE Request("REMOVE", w.f.file, 0, 0)
           tag == IF w.f.mode = "REMOVE" THEN "DEFAULT" ELSE "HANDLE"
<1>1. /\ w \in World /\ w.f \in Ses /\ w.f.pos \in Nat /\ w.c \in Conn /\ Numbered(w.c)
      /\ w.f.mode \in {"RETRIEVE", "STORE", "REMOVE", "ARRAY_INFO"}
  BY OnIsConn, SesFields DEF Able
<1>2. v = [w EXCEPT !.f = g]
  BY Zenon
<1>d. SendRequest(w) = IF w.f.mode = "ARRAY_INFO" THEN v ELSE Send(v, q, tag)
  <2>1. SendRequest(w) = CASE w.f.mode = "RETRIEVE" -> Send(v, Request("OPEN", w.f.file, 0, 0), "HANDLE")
                           [] w.f.mode = "STORE" -> Send(v, Request("CREATE", w.f.file, w.f.pos, 0), "HANDLE")
                           [] w.f.mode = "REMOVE" -> Send(v, Request("REMOVE", w.f.file, 0, 0), "DEFAULT")
                           [] w.f.mode = "ARRAY_INFO" -> v
    BY Zenon DEF SendRequest
  <2> HIDE DEF v
  <2> QED
    BY <2>1, <1>1
<1>3. g \in Ses
  BY <1>1, Zenon DEF Ses
<1>4. q \in Req /\ q.for = w.f.file
  BY <1>1, Requests
<1> HIDE DEF g, v, q
<1>5. v \in World /\ v.c = w.c
  BY <1>1, <1>2, <1>3, Zenon DEF World
<1>6. Able(v) /\ tag \in Tag /\ tag \notin {"IGNORE", "STALE"}
  BY <1>1, <1>5 DEF Able, Tag
<1>7. Adds(w.f.file, w.c, Send(v, q, tag).c)
  BY <1>4, <1>5, <1>6, SendAdds
<1> QED
  BY <1>5, <1>7, <1>d, AddsNone

\* Do, FILE_SEND: the write is to the file that is stored.
LEMMA DoSendAdds ==
    ASSUME NEW w, Able(w)
    PROVE  Adds(w.f.file, w.c, DoSend(w).c)
<1> DEFINE f == w.f
           b == Head(f.buf.data)
           q == OnHandle(f, "WRITE", f.req_pos, b[2])
           u == Send(w, q, "WRITE_STATUS")
           v == [Send(w, q, "WRITE_STATUS") EXCEPT !.f.buf.data = Tail(@), !.f.req_pos = @ + 1]
           x == CloseHandle(w, "DEFAULT")
           y == [CloseHandle(w, "DEFAULT") EXCEPT !.f.state = "WAITING"]
<1>1. w \in World /\ f \in Ses /\ f.req_pos \in Nat /\ f.buf.data \in Seq(File \X Nat) /\ w.c \in Conn /\ Numbered(w.c)
  BY OnIsConn, SesFields DEF Able
<1>d. DoSend(w) = w \/ DoSend(w) = y \/ (f.buf.data # <<>> /\ DoSend(w) = v)
  BY Zenon DEF DoSend
<1>2. y.c = x.c
  <2>1. x = w \/ x = [Send(w, OnHandle(w.f, "CLOSE", 0, 0), "DEFAULT") EXCEPT !.f.handle = NoHandle]
    BY Zenon DEF CloseHandle
  <2>2. Send(w, OnHandle(w.f, "CLOSE", 0, 0), "DEFAULT") \in World
    <3>1. OnHandle(w.f, "CLOSE", 0, 0) \in Req /\ "DEFAULT" \in Tag
      BY <1>1, Requests DEF Tag
    <3> QED
      BY <1>1, <3>1, SendIs DEF Sends
  <2>3. x = [f |-> x.f, c |-> x.c]
    BY <1>1, <2>1, <2>2, Zenon DEF World
  <2> HIDE DEF x
  <2> QED
    BY <2>3, Zenon DEF x
<1>3. Adds(f.file, w.c, x.c)
  BY CloseHandleAdds DEF Tag
<1>4. ASSUME f.buf.data # <<>> PROVE Adds(f.file, w.c, v.c)
  <2>1. b[2] \in Nat
    <3>1. b \in File \X Nat
      BY <1>1, <1>4, HeadTailProperties
    <3> QED
      BY <3>1
  <2> HIDE DEF b
  <2>2. q \in Req /\ q.for = f.file /\ "WRITE_STATUS" \in Tag /\ "WRITE_STATUS" \notin {"IGNORE", "STALE"}
    <3>1. \A g \in Ses : \A p \in Nat : \A n \in Nat : OnHandle(g, "WRITE", p, n) \in Req /\ OnHandle(g, "WRITE", p, n).for = g.file
      BY Requests
    <3>2. q \in Req /\ q.for = f.file
      BY <1>1, <2>1, <3>1, Zenon
    <3> QED
      BY <3>2 DEF Tag
  <2> HIDE DEF q
  <2>3. Adds(f.file, w.c, u.c) /\ u \in World
    BY <2>2, SendAdds DEF Able
  <2> HIDE DEF u
  <2>4. v.c = u.c
    <3>1. v = [[u EXCEPT !.f.buf.data = Tail(@)] EXCEPT !.f.req_pos = @ + 1]
      BY Zenon DEF u
    <3> HIDE DEF v
    <3> QED
      BY <2>3, <3>1, Zenon DEF World
  <2> QED
    BY <2>3, <2>4
<1> QED
  BY <1>d, <1>2, <1>3, <1>4, AddsNone

\* SendArrayInfoRequests: questions are added.
LEMMA SendArrayInfoAdds ==
    ASSUME NEW file, NEW w, Able(w)
    PROVE  Adds(file, w.c, SendArrayInfo(w).c)
<1> DEFINE m == ArrayEnd(w)  n == Cardinality(Needed(w.f, m))  v == Ask(w, m)  u == [v EXCEPT !.f.state = "DONE"]
           ids == w.c.id..(w.c.id + n - 1)
<1>1. w \in World /\ w.f \in Ses /\ Numbered(w.c) /\ w.c \in Conn /\ w.c.on
  BY OnIsConn, ConnFields DEF Able
<1>2. m \in w.f.next..(K + 1)
  BY <1>1, ArrayEndIs
<1> HIDE DEF m
<1>3. m \in 1..(K + 1) /\ w.f.next <= m /\ m \in Nat
  BY <1>1, <1>2, NextIs, Numbers
<1>4. AsksFor(w, m, n, v)
  BY <1>1, <1>3, AskIs
<1>d. SendArrayInfo(w) = u \/ SendArrayInfo(w) = v
  BY Zenon DEF SendArrayInfo, m
<1>5. \A i \in ids : Asks(w, Needed(w.f, m), i).k = "STAT"
  BY <1>1, <1>3, AsksAre
<1> HIDE DEF v, n
<1>6. /\ DOMAIN v.c.expect = DOMAIN w.c.expect \cup ids /\ v \in World
      /\ \A i \in ids : v.c.expect[i].req.k = "STAT"
      /\ \A i \in DOMAIN w.c.expect : v.c.expect[i] = w.c.expect[i]
  BY <1>4, <1>5 DEF AsksFor
<1>7. u.c = v.c
  BY <1>6, Zenon DEF World
<1> HIDE DEF ids, u
<1>8. Adds(file, w.c, v.c)
  BY <1>1, <1>6 DEF Adds, Changes
<1> QED
  BY <1>d, <1>7, <1>8

\* Do, by the state of the connection and the operation
LEMMA DoStateAdds ==
    ASSUME NEW w, Good(w)
    PROVE  Adds(w.f.file, w.c, DoState(w).c)
<1> DEFINE g == [w.f EXCEPT !.state = "CONNECTED"]  v == [w EXCEPT !.f.state = "CONNECTED"]
           u == [w EXCEPT !.f.susp = Len(w.f.buf.data) >= MaxBuf]
<1>1. w \in World /\ w.f \in Ses /\ (w.c.on => Able(w))
  BY OnIsConn, WholeAble DEF Good, Whole
<1>2. \/ DoState(w) = w
      \/ w.c.on /\ DoState(w) \in {w, Disconnect(w), DoConnected(v), DoConnected(w), u, DoSend(w), SendArrayInfo(w)}
  <2>1. CASE w.f.error # "OK" \/ ~w.c.on
    BY <2>1, Zenon DEF DoState
  <2>2. CASE ~(w.f.error # "OK" \/ ~w.c.on)
    <3>1. DoState(w) =
            CASE w.f.state = "CONNECTING" ->
                IF w.c.net = "lost" THEN Disconnect(w)
                ELSE IF w.c.net = "syn" THEN w ELSE DoConnected(v)
           [] w.f.state = "CONNECTED" -> DoConnected(w)
           [] w.f.state = "FILE_RECV" -> u
           [] w.f.state = "FILE_SEND" -> DoSend(w)
           [] w.f.state = "WAITING" /\ w.f.mode = "ARRAY_INFO" -> SendArrayInfo(w)
           [] OTHER -> w
      BY <2>2, Zenon DEF DoState
    <3> HIDE DEF u, v
    <3> QED
      BY <2>2, <3>1
  <2> QED
    BY <2>1, <2>2
<1>3. g \in Ses /\ g.file = w.f.file
  BY <1>1, Zenon DEF Ses
<1>4. v = [w EXCEPT !.f = g]
  BY Zenon
<1> HIDE DEF g, v
<1>5. v \in World /\ v.c = w.c /\ v.f.file = w.f.file
  BY <1>1, <1>3, <1>4, Zenon DEF World
<1>6. u.c = w.c /\ Disconnect(w).c = NoConn
  BY <1>1, Zenon DEF World, Disconnect
<1> HIDE DEF u
<1>7. ASSUME w.c.on PROVE Adds(w.f.file, w.c, DoConnected(w).c) /\ Adds(w.f.file, w.c, DoConnected(v).c)
  <2>1. Able(w) /\ Able(v)
    BY <1>1, <1>5, <1>7 DEF Able
  <2>2. w.f.mode # "CLOSED" => Adds(w.f.file, w.c, SendRequest(w).c)
    BY <2>1, SendRequestAdds
  <2>3. v.f.mode # "CLOSED" => Adds(w.f.file, w.c, SendRequest(v).c)
    BY <2>1, <1>5, SendRequestAdds
  <2> QED
    BY <2>2, <2>3, <1>5, AddsNone DEF DoConnected
<1>8. ASSUME w.c.on PROVE Adds(w.f.file, w.c, DoSend(w).c) /\ Adds(w.f.file, w.c, SendArrayInfo(w).c)
  BY <1>1, <1>8, DoSendAdds, SendArrayInfoAdds
<1> QED
  BY <1>2, <1>6, <1>7, <1>8, AddsNone

\* Read: more is requested.
LEMMA RequestAdds ==
    ASSUME NEW file, NEW w, Able(w)
    PROVE  Adds(file, w.c, RequestMoreData(w).c)
<1> DEFINE p == w.f.req_pos + SizeRead  g == [w.f EXCEPT !.req_pos = p]
           v == [w EXCEPT !.f.req_pos = @ + SizeRead]
           q == OnHandle(w.f, "READ", w.f.req_pos, SizeRead)
<1>1. w \in World /\ w.f \in Ses /\ w.f.req_pos \in Nat /\ w.c \in Conn /\ Numbered(w.c)
  BY OnIsConn, SesFields DEF Able
<1>2. p \in Nat /\ SizeRead \in Nat
  BY <1>1, Numbers
<1>3. v = [w EXCEPT !.f = g]
  BY Zenon
<1>4. RequestMoreData(w) = Send(v, q, "DATA")
  BY Zenon DEF RequestMoreData
<1>5. q \in Req /\ q.k = "READ" /\ "DATA" \in Tag
  <2>1. \A h \in Ses : \A at \in Nat : \A n \in Nat : OnHandle(h, "READ", at, n) \in Req /\ OnHandle(h, "READ", at, n).k = "READ"
    BY Requests
  <2>2. q \in Req /\ q.k = "READ"
    BY <1>1, <1>2, <2>1, Zenon
  <2> QED
    BY <2>2 DEF Tag
<1> HIDE DEF p, q, v
<1>6. g \in Ses
  BY <1>1, <1>2, Zenon DEF Ses
<1> HIDE DEF g
<1>7. v \in World /\ v.c = w.c
  BY <1>1, <1>3, <1>6, Zenon DEF World
<1>8. Able(v)
  BY <1>1, <1>7 DEF Able
<1>9. Adds(file, v.c, Send(v, q, "DATA").c)
  BY <1>5, <1>8, SendAdds DEF Changes
<1> QED
  BY <1>4, <1>7, <1>9

-----------------------------------------------------------------------------
(* A file that is stored: the session f, its connection c and the file st  *)
(* on the server.                                                          *)

\* The first n bytes, by their offsets, as StoredAll has them
Prefix(n) == [i \in 1..n |-> i - 1]

\* What the session asks for as it stores
Asked(f, e) ==
    /\ e.tag = "HANDLE" => e.req.k = "CREATE" /\ e.req.pos = f.pos
    /\ e.tag = "WRITE_STATUS" => e.req.k = "WRITE" /\ e.req.n = e.req.pos /\ e.req.pos < f.req_pos
    /\ e.tag = "DEFAULT" => f.state # "FILE_SEND"
\* The last is to close the file.
StoreAsks(f, c) ==
    /\ \A i \in DOMAIN c.expect : Asked(f, c.expect[i])
    /\ \A i, j \in DOMAIN c.expect : c.expect[i].tag = "DEFAULT" /\ c.expect[j].tag = "WRITE_STATUS" => j < i

\* The bytes that it has and has not sent
Sending(f) ==
    /\ f.eof => f.pos = N
    /\ ~f.buf.on => ~f.eof /\ f.state # "DONE"
    /\ f.buf.on => /\ f.req_pos + Len(f.buf.data) = f.pos
                   /\ \A k \in 1..Len(f.buf.data) : f.buf.data[k][2] = f.req_pos + k - 1
                   /\ f.state # "FILE_SEND" => f.eof /\ f.buf.data = <<>>

\* What an answer or a request is expected for; a write that has failed; one on its way
IsA(c, a, tag) == c.expect[a.id].tag = tag
Bad(c, a) == IsA(c, a, "WRITE_STATUS") /\ ~(a.t = "status" /\ a.code = "ok")
WriteAt(c, j) == IsA(c, c.out[j], "WRITE_STATUS")

\* The server has the first m bytes, and the writes on their way are of those up to req_pos, in order.
FillsFrom(f, c, m) ==
    /\ \A j \in 1..Len(c.out) : WriteAt(c, j) => m <= c.out[j].req.pos
    /\ \A j, k \in 1..Len(c.out) : WriteAt(c, j) /\ WriteAt(c, k) /\ j < k => c.out[j].req.pos < c.out[k].req.pos
    /\ \A p \in m..(f.req_pos - 1) : \E j \in 1..Len(c.out) : WriteAt(c, j) /\ c.out[j].req.pos = p
Filling(f, c, st) == \E m \in 0..f.req_pos : st = Prefix(m) /\ FillsFrom(f, c, m)

\* Unless a write has failed, the file is being filled, and it is complete when the answer to CLOSE is there.
Stored(f, c, st) ==
    /\ f.buf.on /\ c.net # "lost" => (\E i \in 1..Len(c.wire) : Bad(c, c.wire[i])) \/ Filling(f, c, st)
    /\ \A k \in 1..Len(c.wire) : IsA(c, c.wire[k], "DEFAULT") =>
         (\E i \in 1..Len(c.wire) : c.wire[i].id < c.wire[k].id /\ Bad(c, c.wire[i])) \/ st = Prefix(N)
    /\ f.state = "DONE" => st = Prefix(N) /\ \A j \in 1..Len(c.out) : ~WriteAt(c, j)

Stores(f) == f.mode = "STORE" /\ f.error = "OK"
Storing(f, c, st) ==
    /\ f.mode = "CLOSED" => ~f.eof
    /\ Stores(f) => /\ Sending(f) /\ (~f.buf.on => st = Prefix(f.pos))
                    /\ c.on => StoreAsks(f, c) /\ Stored(f, c, st)

\* What does not store has nothing to fear.
LEMMA StoringNot ==
    ASSUME NEW f, NEW c, NEW st, f.mode # "CLOSED", ~Stores(f)
    PROVE  Storing(f, c, st)
BY DEF Storing

\* What another field of the session becomes is no matter.
LEMMA StoringSame ==
    ASSUME NEW f, NEW c, NEW st, Storing(f, c, st), NEW g, g.mode = f.mode, g.error = f.error, g.eof = f.eof, g.pos = f.pos,
           g.req_pos = f.req_pos, g.buf.on = f.buf.on, g.buf.data = f.buf.data,
           g.state = f.state \/ (g.state \notin {"DONE", "FILE_SEND"} /\ f.state \notin {"DONE", "FILE_SEND"})
    PROVE  Storing(g, c, st)
<1>1. Filling(g, c, st) <=> Filling(f, c, st)
  BY DEF Filling, FillsFrom
<1>2. ASSUME Stores(g) PROVE Sending(g) /\ (~g.buf.on => st = Prefix(g.pos)) /\ Stores(f)
  <2>1. Stores(f) /\ Sending(f) /\ (~f.buf.on => st = Prefix(f.pos))
    BY <1>2 DEF Storing, Stores
  <2> QED
    BY <2>1 DEF Sending
<1>3. ASSUME Stores(g), c.on PROVE StoreAsks(g, c)
  <2>1. StoreAsks(f, c)
    BY <1>2, <1>3 DEF Storing
  <2>2. ASSUME NEW i \in DOMAIN c.expect PROVE Asked(g, c.expect[i])
    <3>1. Asked(f, c.expect[i])
      BY <2>1 DEF StoreAsks
    <3> QED
      BY <3>1 DEF Asked
  <2> QED
    BY <2>1, <2>2 DEF StoreAsks
<1>4. ASSUME Stores(g), c.on PROVE Stored(g, c, st)
  <2>1. Stored(f, c, st)
    BY <1>2, <1>4 DEF Storing
  <2> QED
    BY <2>1, <1>1 DEF Stored
<1> QED
  BY <1>2, <1>3, <1>4 DEF Storing

\* The requests that are expected stay so with another, which is not a write after CLOSE.
LEMMA SendAsks ==
    ASSUME NEW w, Able(w), NEW q \in Req, NEW tag \in Tag, NEW f, StoreAsks(f, w.c), Asked(f, [req |-> q, tag |-> tag]),
           tag = "WRITE_STATUS" => \A i \in DOMAIN w.c.expect : w.c.expect[i].tag # "DEFAULT"
    PROVE  StoreAsks(f, Send(w, q, tag).c)
<1> DEFINE d == Send(w, q, tag).c  e == [req |-> q, tag |-> tag]
<1>1. Sends(w, q, tag, Send(w, q, tag)) /\ Numbered(w.c)
  BY SendIs DEF Able
<1>2. /\ DOMAIN d.expect = DOMAIN w.c.expect \cup {w.c.id} /\ d.expect[w.c.id] = e
      /\ \A i \in DOMAIN w.c.expect : d.expect[i] = w.c.expect[i]
  BY <1>1 DEF Sends
<1>3. e.tag = tag /\ Asked(f, e)
  OBVIOUS
<1> HIDE DEF d, e
<1>4. \A i \in DOMAIN d.expect : Asked(f, d.expect[i])
  BY <1>2, <1>3 DEF StoreAsks
<1>5. ASSUME NEW i \in DOMAIN d.expect, NEW j \in DOMAIN d.expect, d.expect[i].tag = "DEFAULT", d.expect[j].tag = "WRITE_STATUS"
      PROVE  j < i
  <2>1. CASE i \in DOMAIN w.c.expect /\ j \in DOMAIN w.c.expect
    BY <2>1, <1>2, <1>5 DEF StoreAsks
  <2>2. CASE j = w.c.id
    BY <2>2, <1>2, <1>3, <1>5
  <2>3. CASE i = w.c.id /\ j \in DOMAIN w.c.expect
    BY <2>3, <1>1 DEF Numbered
  <2> QED
    BY <2>1, <2>2, <2>3, <1>2
<1> QED
  BY <1>4, <1>5 DEF StoreAsks, d

\* What has been stored stays so as another is sent that is no write.
LEMMA SendStored ==
    ASSUME NEW w, Able(w), OnItsWay(w.c), NEW q \in Req, NEW tag \in Tag, tag # "WRITE_STATUS",
           NEW f, NEW st, Stored(f, w.c, st)
    PROVE  Stored(f, Send(w, q, tag).c, st)
<1> DEFINE c == w.c  d == Send(w, q, tag).c  e == [req |-> q, tag |-> tag]  n == Len(c.out)
<1>1. Sends(w, q, tag, Send(w, q, tag))
  BY SendIs DEF Able
<1>2. /\ d.expect[c.id] = e /\ d.net = c.net /\ d.wire = c.wire
      /\ \A i \in DOMAIN c.expect : d.expect[i] = c.expect[i]
      /\ n \in Nat /\ Len(d.out) = n + 1 /\ d.out[n + 1].id = c.id /\ \A i \in 1..n : d.out[i] = c.out[i]
  BY <1>1 DEF Sends
<1>3. e.tag = tag
  OBVIOUS
<1>4. /\ \A i \in 1..n : c.out[i].id \in DOMAIN c.expect
      /\ \A i \in 1..Len(c.wire) : c.wire[i].id \in DOMAIN c.expect
  BY DEF OnItsWay, Awaited
<1> HIDE DEF c, d, e, n
<1>6. \A i \in 1..Len(c.wire) : d.wire[i] = c.wire[i] /\ d.expect[c.wire[i].id] = c.expect[c.wire[i].id]
  BY <1>2, <1>4
<1>7. /\ \A j \in 1..n : j \in 1..Len(d.out) /\ d.out[j] = c.out[j] /\ (WriteAt(d, j) <=> WriteAt(c, j))
      /\ \A j \in 1..Len(d.out) : WriteAt(d, j) => j \in 1..n
  <2>1. \A j \in 1..n : j \in 1..Len(d.out) /\ d.out[j] = c.out[j] /\ (WriteAt(d, j) <=> WriteAt(c, j))
    <3> TAKE j \in 1..n
    <3>1. j \in 1..Len(d.out) /\ d.out[j] = c.out[j] /\ c.out[j].id \in DOMAIN c.expect
      BY <1>2, <1>4
    <3>2. d.expect[d.out[j].id] = c.expect[c.out[j].id]
      BY <3>1, <1>2
    <3> QED
      BY <3>1, <3>2 DEF WriteAt, IsA
  <2>2. ~WriteAt(d, n + 1)
    BY <1>2, <1>3 DEF WriteAt, IsA
  <2> QED
    BY <2>1, <2>2, <1>2
<1>8. ASSUME NEW m, FillsFrom(f, c, m) PROVE FillsFrom(f, d, m)
  <2>1. ASSUME NEW p \in m..(f.req_pos - 1) PROVE \E j \in 1..Len(d.out) : WriteAt(d, j) /\ d.out[j].req.pos = p
    <3>1. PICK j \in 1..n : WriteAt(c, j) /\ c.out[j].req.pos = p
      BY <1>8 DEF FillsFrom, n
    <3> QED
      BY <3>1, <1>7
  <2>2. \A j \in 1..Len(d.out) : WriteAt(d, j) => m <= d.out[j].req.pos
    BY <1>7, <1>8 DEF FillsFrom, n
  <2>3. \A j, k \in 1..Len(d.out) : WriteAt(d, j) /\ WriteAt(d, k) /\ j < k => d.out[j].req.pos < d.out[k].req.pos
    BY <1>7, <1>8 DEF FillsFrom, n
  <2> QED
    BY <2>1, <2>2, <2>3 DEF FillsFrom
<1>9. f.buf.on /\ d.net # "lost" => (\E i \in 1..Len(d.wire) : Bad(d, d.wire[i])) \/ Filling(f, d, st)
  <2>1. f.buf.on /\ c.net # "lost" => (\E i \in 1..Len(c.wire) : Bad(c, c.wire[i])) \/ Filling(f, c, st)
    BY DEF Stored, c
  <2>2. Filling(f, c, st) => Filling(f, d, st)
    BY <1>8 DEF Filling
  <2> QED
    BY <2>1, <2>2, <1>2, <1>6 DEF Bad, IsA
<1>10. ASSUME NEW k \in 1..Len(d.wire), IsA(d, d.wire[k], "DEFAULT")
       PROVE  (\E i \in 1..Len(d.wire) : d.wire[i].id < d.wire[k].id /\ Bad(d, d.wire[i])) \/ st = Prefix(N)
  <2>1. IsA(c, c.wire[k], "DEFAULT") /\ k \in 1..Len(c.wire)
    BY <1>2, <1>6, <1>10 DEF IsA
  <2>2. (\E i \in 1..Len(c.wire) : c.wire[i].id < c.wire[k].id /\ Bad(c, c.wire[i])) \/ st = Prefix(N)
    BY <2>1 DEF Stored, c
  <2> QED
    BY <2>2, <1>2, <1>6 DEF Bad, IsA
<1>11. f.state = "DONE" => st = Prefix(N) /\ \A j \in 1..Len(d.out) : ~WriteAt(d, j)
  BY <1>7 DEF Stored, c, n
<1> QED
  BY <1>9, <1>10, <1>11 DEF Stored, d

\* An answer that is taken leaves what is stored as it is, if it is not that a write has failed.
LEMMA WithoutStored ==
    ASSUME NEW w, w.c \in Conn, Good(w), NEW i \in 1..Len(w.c.wire), NEW f, NEW st,
           StoreAsks(f, w.c), Stored(f, w.c, st), ~Bad(w.c, w.c.wire[i])
    PROVE  StoreAsks(f, Without(w, i).c) /\ Stored(f, Without(w, i).c, st)
<1> DEFINE c == w.c  d == Without(w, i).c
<1>1. /\ d.net = c.net /\ d.out = c.out
      /\ DOMAIN d.expect = DOMAIN c.expect \ {c.wire[i].id} /\ \A j \in DOMAIN d.expect : d.expect[j] = c.expect[j]
      /\ \A j \in 1..Len(d.wire) : \E k \in 1..Len(c.wire) : k # i /\ d.wire[j] = c.wire[k]
      /\ \A k \in 1..Len(c.wire) : k # i => \E j \in 1..Len(d.wire) : d.wire[j] = c.wire[k]
  BY WithoutIs
<1>2. /\ OnItsWay(c) /\ c.wire \in Seq(Answer) /\ c.out \in Seq(Sent) /\ c.expect \in Queue /\ DOMAIN c.expect \subseteq Nat
  BY ConnFields, QueueHas DEF Good, Whole, Joint
<1>3. /\ \A j \in 1..Len(c.out) : c.out[j].id \in DOMAIN c.expect
      /\ \A j \in 1..Len(c.wire) : c.wire[j].id \in DOMAIN c.expect
      /\ \A j, k \in 1..Len(c.wire) : j < k => c.wire[j].id < c.wire[k].id
      /\ \A j \in 1..Len(c.wire), k \in 1..Len(c.out) : c.wire[j].id < c.out[k].id
  BY <1>2 DEF OnItsWay, Awaited, InOrder
<1>i. Len(c.wire) \in Nat /\ i \in 1..Len(c.wire)
  BY <1>2, LenProperties
<1> HIDE DEF c, d
<1>4. \A k \in 1..Len(c.wire) : k # i => c.wire[k].id \in DOMAIN d.expect
  <2> SUFFICES ASSUME NEW k \in 1..Len(c.wire), k # i PROVE c.wire[k].id # c.wire[i].id
    BY <1>1, <1>3
  <2>1. c.wire[k].id \in Nat /\ c.wire[i].id \in Nat
    BY <1>2, <1>3, <1>i
  <2>2. k < i \/ i < k
    BY <1>i
  <2> QED
    BY <2>1, <2>2, <1>3, <1>i
<1>5. \A k \in 1..Len(c.out) : c.out[k].id \in DOMAIN d.expect
  <2> SUFFICES ASSUME NEW k \in 1..Len(c.out) PROVE c.out[k].id # c.wire[i].id
    BY <1>1, <1>3
  <2>1. c.out[k].id \in Nat /\ c.wire[i].id \in Nat
    BY <1>2, <1>3, <1>i
  <2> QED
    BY <2>1, <1>3, <1>i
<1>6. \A j \in 1..Len(d.out) : WriteAt(d, j) <=> WriteAt(c, j)
  BY <1>1, <1>5 DEF WriteAt, IsA
<1>7. \A j \in 1..Len(d.wire) : \E k \in 1..Len(c.wire) : k # i /\ d.wire[j] = c.wire[k] /\ d.expect[d.wire[j].id] = c.expect[c.wire[k].id]
  <2> TAKE j \in 1..Len(d.wire)
  <2>1. PICK k \in 1..Len(c.wire) : k # i /\ d.wire[j] = c.wire[k]
    BY <1>1
  <2>2. d.wire[j].id \in DOMAIN d.expect
    BY <2>1, <1>4
  <2>3. d.expect[d.wire[j].id] = c.expect[c.wire[k].id]
    BY <2>1, <2>2, <1>1
  <2> QED
    BY <2>1, <2>3
<1>8. \A k \in 1..Len(c.wire) : Bad(c, c.wire[k]) => \E j \in 1..Len(d.wire) : d.wire[j] = c.wire[k] /\ Bad(d, d.wire[j])
  <2> SUFFICES ASSUME NEW k \in 1..Len(c.wire), Bad(c, c.wire[k]) PROVE \E j \in 1..Len(d.wire) : d.wire[j] = c.wire[k] /\ Bad(d, d.wire[j])
    OBVIOUS
  <2>1. k # i
    BY DEF c
  <2>2. PICK j \in 1..Len(d.wire) : d.wire[j] = c.wire[k]
    BY <2>1, <1>1
  <2>3. d.expect[d.wire[j].id] = c.expect[c.wire[k].id]
    BY <2>1, <2>2, <1>1, <1>4
  <2>4. Bad(d, d.wire[j])
    BY <2>2, <2>3 DEF Bad, IsA
  <2> QED
    BY <2>2, <2>4
<1>9. StoreAsks(f, d)
  BY <1>1 DEF StoreAsks, c
<1>10. Filling(f, c, st) => Filling(f, d, st)
  BY <1>1, <1>6 DEF Filling, FillsFrom
<1>11. f.buf.on /\ d.net # "lost" => (\E j \in 1..Len(d.wire) : Bad(d, d.wire[j])) \/ Filling(f, d, st)
  <2>1. f.buf.on /\ c.net # "lost" => (\E k \in 1..Len(c.wire) : Bad(c, c.wire[k])) \/ Filling(f, c, st)
    BY DEF Stored, c
  <2> QED
    BY <2>1, <1>1, <1>8, <1>10
<1>12. ASSUME NEW j \in 1..Len(d.wire), IsA(d, d.wire[j], "DEFAULT")
       PROVE  (\E l \in 1..Len(d.wire) : d.wire[l].id < d.wire[j].id /\ Bad(d, d.wire[l])) \/ st = Prefix(N)
  <2>1. PICK k \in 1..Len(c.wire) : d.wire[j] = c.wire[k] /\ d.expect[d.wire[j].id] = c.expect[c.wire[k].id]
    BY <1>7
  <2>2. IsA(c, c.wire[k], "DEFAULT")
    BY <2>1, <1>12 DEF IsA
  <2>3. (\E l \in 1..Len(c.wire) : c.wire[l].id < c.wire[k].id /\ Bad(c, c.wire[l])) \/ st = Prefix(N)
    BY <2>2 DEF Stored, c
  <2>4. CASE \E l \in 1..Len(c.wire) : c.wire[l].id < c.wire[k].id /\ Bad(c, c.wire[l])
    <3>1. PICK l \in 1..Len(c.wire) : c.wire[l].id < c.wire[k].id /\ Bad(c, c.wire[l])
      BY <2>4
    <3>2. PICK m \in 1..Len(d.wire) : d.wire[m] = c.wire[l] /\ Bad(d, d.wire[m])
      BY <3>1, <1>8
    <3> QED
      BY <3>1, <3>2, <2>1
  <2> QED
    BY <2>3, <2>4
<1>13. f.state = "DONE" => st = Prefix(N) /\ \A j \in 1..Len(d.out) : ~WriteAt(d, j)
  BY <1>1, <1>6 DEF Stored, c
<1> QED
  BY <1>9, <1>11, <1>12, <1>13 DEF Stored, d

\* The server may overtake with its answers, but not so that the one to CLOSE comes before that to a write.
WritesFirst == "WRITE" \notin Overtaken \/ "CLOSE" \notin Overtaken

\* When the answer to CLOSE is taken, the server has all of the file and no write is on its way.
LEMMA AllThere ==
    ASSUME WritesFirst, NEW w, w.c \in Conn, Good(w), w.f.mode = "STORE", NEW i \in 1..Len(w.c.wire), NEW st,
           StoreAsks(w.f, w.c), Stored(w.f, w.c, st), IsA(w.c, w.c.wire[i], "DEFAULT"), Comes(w.c, i)
    PROVE  st = Prefix(N) /\ \A j \in 1..Len(w.c.out) : ~WriteAt(w.c, j)
<1> DEFINE c == w.c  f == w.f
<1>1. /\ OnItsWay(c) /\ c.wire \in Seq(Answer) /\ c.out \in Seq(Sent) /\ c.expect \in Queue /\ DOMAIN c.expect \subseteq Nat
      /\ Expects(f, c)
  BY ConnFields, QueueHas DEF Good, Whole, Joint
<1>2. /\ \A j \in 1..Len(c.out) : c.out[j].id \in DOMAIN c.expect
      /\ \A j \in 1..Len(c.wire) : c.wire[j].id \in DOMAIN c.expect /\ c.expect[c.wire[j].id].req = c.wire[j].req
      /\ \A j, k \in 1..Len(c.wire) : j < k => c.wire[j].id < c.wire[k].id
      /\ \A j \in 1..Len(c.wire), k \in 1..Len(c.out) : c.wire[j].id < c.out[k].id
  BY <1>1 DEF OnItsWay, Awaited, InOrder
<1>3. Len(c.wire) \in Nat /\ i \in 1..Len(c.wire) /\ IsA(c, c.wire[i], "DEFAULT") /\ Comes(c, i) /\ f.mode = "STORE"
  BY <1>1, LenProperties
<1>4. StoreAsks(f, c) /\ Stored(f, c, st)
  OBVIOUS
<1> HIDE DEF c, f
<1>5. c.wire[i].req.k = "CLOSE"
  <2>1. Fits(f, c.expect[c.wire[i].id])
    BY <1>1, <1>2, <1>3 DEF Expects
  <2> QED
    BY <2>1, <1>2, <1>3 DEF Fits, IsA
<1>6. st = Prefix(N)
  <2>1. SUFFICES ASSUME NEW k \in 1..Len(c.wire), c.wire[k].id < c.wire[i].id, Bad(c, c.wire[k]) PROVE FALSE
    BY <1>3, <1>4 DEF Stored
  <2>2. c.wire[k].req.k = "WRITE"
    <3>1. Asked(f, c.expect[c.wire[k].id])
      BY <1>2, <1>4 DEF StoreAsks
    <3> QED
      BY <3>1, <2>1, <1>2 DEF Asked, Bad, IsA
  <2>3. k < i
    <3>1. c.wire[k].id \in Nat /\ c.wire[i].id \in Nat
      BY <1>1, <1>2, <1>3
    <3>2. ~(i < k) /\ i # k
      BY <3>1, <2>1, <1>2, <1>3
    <3> QED
      BY <3>2, <1>3
  <2>4. i # 1 /\ i \in 1..i /\ k \in 1..i
    BY <2>3, <1>3
  <2>5. c.wire[i].req.k \in Overtaken /\ c.wire[k].req.k \in Overtaken
    BY <2>4, <1>3 DEF Comes
  <2> QED
    BY <2>2, <2>5, <1>5 DEF WritesFirst
<1>7. ASSUME NEW j \in 1..Len(c.out), WriteAt(c, j) PROVE FALSE
  <2>1. c.out[j].id < c.wire[i].id
    BY <1>2, <1>3, <1>4, <1>7 DEF StoreAsks, WriteAt, IsA
  <2>2. c.wire[i].id < c.out[j].id
    BY <1>2, <1>3
  <2>3. c.wire[i].id \in Nat /\ c.out[j].id \in Nat
    BY <1>1, <1>2, <1>3
  <2> QED
    BY <2>1, <2>2, <2>3
<1> QED
  BY <1>6, <1>7 DEF c

\* Before the file is open nothing of it is on its way.
LEMMA NothingSent ==
    ASSUME NEW w, w.c \in Conn, NEW H, NEW X, Whole(w, H, X), w.f.mode = "STORE", ~w.f.buf.on
    PROVE  /\ \A i \in DOMAIN w.c.expect : w.c.expect[i].tag \notin {"WRITE_STATUS", "DEFAULT"}
           /\ \A j \in 1..Len(w.c.out) : ~WriteAt(w.c, j)
           /\ \A k \in 1..Len(w.c.wire) : ~IsA(w.c, w.c.wire[k], "DEFAULT")
<1>1. OnItsWay(w.c) /\ Expects(w.f, w.c)
  BY ConnFields DEF Whole, Joint
<1>2. ASSUME NEW i \in DOMAIN w.c.expect PROVE w.c.expect[i].tag \notin {"WRITE_STATUS", "DEFAULT"}
  <2>1. Fits(w.f, w.c.expect[i])
    BY <1>1 DEF Expects
  <2> QED
    BY <2>1 DEF Fits
<1>3. /\ \A j \in 1..Len(w.c.out) : w.c.out[j].id \in DOMAIN w.c.expect
      /\ \A j \in 1..Len(w.c.wire) : w.c.wire[j].id \in DOMAIN w.c.expect
  BY <1>1 DEF OnItsWay, Awaited
<1> QED
  BY <1>2, <1>3 DEF WriteAt, IsA

\* A session and its file when nothing of it is on its way
LEMMA StoringNothing ==
    ASSUME NEW f \in Ses, NEW c, NEW st, Stores(f), Sending(f), f.state # "DONE", st = Prefix(f.pos), f.buf.on => f.req_pos = f.pos,
           c.on => /\ \A i \in DOMAIN c.expect : /\ c.expect[i].tag \notin {"WRITE_STATUS", "DEFAULT"}
                                                 /\ c.expect[i].tag = "HANDLE" => c.expect[i].req.k = "CREATE" /\ c.expect[i].req.pos = f.pos
                   /\ \A j \in 1..Len(c.out) : ~WriteAt(c, j)
                   /\ \A k \in 1..Len(c.wire) : ~IsA(c, c.wire[k], "DEFAULT")
    PROVE  Storing(f, c, st)
<1>1. f.pos \in Nat /\ f.req_pos \in Nat
  BY SesFields
<1>2. ASSUME c.on PROVE StoreAsks(f, c)
  <2>1. ASSUME NEW i \in DOMAIN c.expect PROVE Asked(f, c.expect[i])
    BY <1>2, <2>1 DEF Asked
  <2>2. \A j \in DOMAIN c.expect : c.expect[j].tag # "DEFAULT"
    BY <1>2
  <2> QED
    BY <2>1, <2>2 DEF StoreAsks
<1>3. ASSUME c.on, f.buf.on PROVE Filling(f, c, st)
  <2>1. \A p \in f.pos..(f.req_pos - 1) : FALSE
    BY <1>1, <1>3
  <2>2. FillsFrom(f, c, f.pos)
    BY <2>1, <1>3 DEF FillsFrom
  <2>3. f.pos \in 0..f.req_pos
    BY <1>1, <1>3
  <2> QED
    BY <2>2, <2>3 DEF Filling
<1>4. ASSUME c.on PROVE Stored(f, c, st)
  BY <1>3, <1>4 DEF Stored
<1> QED
  BY <1>2, <1>4 DEF Storing, Stores

\* An operation that fails stores no more.
LEMMA StoringFails ==
    ASSUME NEW w \in World, w.f.mode # "CLOSED", NEW error, error # "OK", NEW st
    PROVE  Storing(Fails(w, error).f, Fails(w, error).c, st)
<1> DEFINE v == Fails(w, error)
<1>1. v.f.mode = w.f.mode /\ v.f.error = error
  BY OnIsConn, Zenon DEF Fails, World, Ses
<1> HIDE DEF v
<1>2. Storing(v.f, v.c, st)
  BY <1>1, StoringNot DEF Stores
<1> QED
  BY <1>2 DEF v

\* HandleExpect, HANDLE: the file is open, and the server has what was there before.
LEMMA HandleStoring ==
    ASSUME NEW w, NEW r, Due(w, r, "HANDLE"), w.f.mode = "STORE", NEW st, Storing(w.f, w.c, st)
    PROVE  Storing(HandleHandle(w, r).f, HandleHandle(w, r).c, st)
<1> DEFINE buf == [NoBuf EXCEPT !.on = TRUE]
           g == [[[[w.f EXCEPT !.handle = r.h] EXCEPT !.state = "FILE_SEND"] EXCEPT !.buf = buf] EXCEPT !.req_pos = w.f.pos]
           v == [w EXCEPT !.f.handle = r.h, !.f.state = IF w.f.mode = "STORE" THEN "FILE_SEND" ELSE "FILE_RECV",
                          !.f.buf = [NoBuf EXCEPT !.on = TRUE], !.f.req_pos = w.f.pos]
           e == [req |-> r.req, tag |-> "HANDLE"]
<1>1. /\ w \in World /\ w.f \in Ses /\ w.c \in Conn /\ w.f.pos \in Nat /\ r \in Answer /\ r.h \in Nat /\ w.c.on
      /\ \A i \in DOMAIN w.c.expect : w.c.expect[i].tag # "HANDLE"
  BY OnIsConn, SesFields, AnswerFields, ConnFields DEF Due, Whole
<1>2. HandleHandle(w, r) = Fails(w, "NO_FILE") \/ HandleHandle(w, r) = v
  BY Zenon DEF HandleHandle
<1>3. Storing(Fails(w, "NO_FILE").f, Fails(w, "NO_FILE").c, st)
  BY <1>1, StoringFails
<1>4. ~w.f.buf.on
  <2>1. Fits(w.f, e) /\ e.tag = "HANDLE"
    BY DEF Due
  <2> HIDE DEF e
  <2> QED
    BY <2>1 DEF Fits
<1>5. /\ \A i \in DOMAIN w.c.expect : w.c.expect[i].tag \notin {"WRITE_STATUS", "DEFAULT"}
      /\ \A j \in 1..Len(w.c.out) : ~WriteAt(w.c, j)
      /\ \A k \in 1..Len(w.c.wire) : ~IsA(w.c, w.c.wire[k], "DEFAULT")
  BY <1>1, <1>4, NothingSent DEF Due
<1>6. buf \in Buf /\ buf.on /\ buf.data = <<>>
  <2>1. <<>> \in Seq(File \X Nat)
    BY EmptySeq
  <2>2. NoBuf \in Buf /\ NoBuf.data = <<>>
    BY <2>1 DEF NoBuf, Buf
  <2>3. buf \in Buf /\ buf.on /\ buf.data = NoBuf.data
    BY <2>2, Zenon DEF Buf
  <2> QED
    BY <2>2, <2>3
<1>7. v = [w EXCEPT !.f = g]
  BY <1>1, Zenon DEF World, Ses
<1> HIDE DEF buf
<1>8. /\ g \in Ses /\ g.mode = w.f.mode /\ g.error = w.f.error /\ g.state = "FILE_SEND" /\ g.buf = buf /\ g.pos = w.f.pos
      /\ g.req_pos = w.f.pos /\ g.eof = w.f.eof
  BY <1>1, <1>6, Zenon DEF Ses
<1> HIDE DEF g, v
<1>9. v.f = g /\ v.c = w.c
  BY <1>1, <1>7, Zenon DEF World
<1>10. ASSUME Stores(g) PROVE Storing(g, w.c, st)
  <2>1. Stores(w.f)
    BY <1>8, <1>10 DEF Stores
  <2>2. Sending(w.f) /\ st = Prefix(w.f.pos)
    BY <2>1, <1>4 DEF Storing
  <2>3. Sending(g)
    <3>1. Len(g.buf.data) = 0
      BY <1>6, <1>8
    <3> QED
      BY <3>1, <2>2, <1>1, <1>6, <1>8 DEF Sending
  <2> QED
    BY <2>2, <2>3, <1>1, <1>5, <1>6, <1>8, <1>10, StoringNothing
<1>11. ~Stores(g) => Storing(g, w.c, st)
  BY <1>8, StoringNot
<1> QED
  BY <1>2, <1>3, <1>9, <1>10, <1>11

\* Do may end the operation when its file is there.
LEMMA DoneStoring ==
    ASSUME NEW f, NEW c, NEW st, Storing(f, c, st), st = Prefix(N), f.mode = "STORE", f.state # "FILE_SEND", f.buf.on,
           c.on, \A j \in 1..Len(c.out) : ~WriteAt(c, j),
           NEW g, g.mode = f.mode, g.error = f.error, g.eof = f.eof, g.pos = f.pos,
           g.req_pos = f.req_pos, g.buf = f.buf, g.state = "DONE"
    PROVE  Storing(g, c, st)
<1>1. Filling(g, c, st) <=> Filling(f, c, st)
  BY DEF Filling, FillsFrom
<1>2. ASSUME Stores(g) PROVE Sending(f) /\ StoreAsks(f, c) /\ Stored(f, c, st)
  BY <1>2 DEF Storing, Stores
<1>3. ASSUME Stores(g) PROVE StoreAsks(g, c)
  <2>1. ASSUME NEW i \in DOMAIN c.expect PROVE Asked(g, c.expect[i])
    <3>1. Asked(f, c.expect[i])
      BY <1>2, <1>3 DEF StoreAsks
    <3> QED
      BY <3>1 DEF Asked
  <2> QED
    BY <2>1, <1>2, <1>3 DEF StoreAsks
<1>4. ASSUME Stores(g) PROVE Stored(g, c, st)
  BY <1>1, <1>2, <1>4 DEF Stored
<1>5. ASSUME Stores(g) PROVE Sending(g)
  BY <1>2, <1>5 DEF Sending
<1> QED
  BY <1>3, <1>4, <1>5 DEF Storing

\* HandleExpect: what is stored by the session stays right.
LEMMA ExpectStoring ==
    ASSUME NEW w, NEW r, NEW tag, Due(w, r, tag), w.f.mode = "STORE", NEW st,
           (tag = "WRITE_STATUS" /\ ~(r.t = "status" /\ r.code = "ok")) \/ Storing(w.f, w.c, st),
           tag = "DEFAULT" /\ Stores(w.f) => /\ st = Prefix(N) /\ w.f.state # "FILE_SEND"
                                             /\ \A j \in 1..Len(w.c.out) : ~WriteAt(w.c, j)
    PROVE  Storing(HandleExpect(w, r, tag).f, HandleExpect(w, r, tag).c, st)
<1> DEFINE e == [req |-> r.req, tag |-> tag]
<1>1. /\ w \in World /\ w.f \in Ses /\ w.c \in Conn /\ r \in Answer /\ tag \in Tag /\ w.c.on /\ Able(w) /\ OnItsWay(w.c)
  BY OnIsConn, ConnFields, WholeAble DEF Due, Whole, Joint
<1>2. Fits(w.f, e) /\ e.tag = tag
  BY DEF Due
<1> HIDE DEF e
<1>3. Storing(Fails(w, "NO_FILE").f, Fails(w, "NO_FILE").c, st)
  BY <1>1, StoringFails
<1>4. CASE tag = "HANDLE"
  BY <1>4, HandleStoring DEF HandleExpect
<1>5. CASE tag = "STALE" /\ r.t = "handle"
  <2> DEFINE p == Request("CLOSE", r.req.for, 0, 0)  q == [p EXCEPT !.h = r.h]  u == Send(w, q, "IGNORE")
             d == [req |-> q, tag |-> "IGNORE"]
  <2>1. r.req.for \in File /\ r.h \in Nat
    BY <1>1, AnswerFields, ReqFields
  <2>2. p \in Req
    BY <2>1 DEF Request, Req, NoHandle
  <2>d. HandleExpect(w, r, tag) = u
    BY <1>5 DEF HandleExpect
  <2> HIDE DEF p
  <2>3. q \in Req /\ "IGNORE" \in Tag /\ "IGNORE" # "WRITE_STATUS"
    BY <2>1, <2>2, Zenon DEF Req, Tag
  <2> HIDE DEF q
  <2>4. u.f = w.f
    BY <1>1, SendSession
  <2>5. Asked(w.f, d)
    <3>1. d.tag = "IGNORE"
      OBVIOUS
    <3> HIDE DEF d
    <3> QED
      BY <3>1 DEF Asked
  <2>6. Storing(w.f, w.c, st)
    BY <1>5
  <2>7. ASSUME Stores(w.f) PROVE StoreAsks(w.f, u.c) /\ Stored(w.f, u.c, st)
    <3>1. StoreAsks(w.f, w.c) /\ Stored(w.f, w.c, st)
      BY <2>6, <2>7, <1>1 DEF Storing
    <3> QED
      BY <3>1, <2>3, <2>5, <1>1, SendAsks, SendStored
  <2> HIDE DEF u
  <2>8. Storing(u.f, u.c, st)
    BY <2>4, <2>6, <2>7 DEF Storing
  <2> QED
    BY <2>8, <2>d
<1>6. CASE tag \in {"DATA", "INFO"}
  BY <1>2, <1>6 DEF Fits
<1>7. CASE tag = "WRITE_STATUS"
  BY <1>3, <1>7 DEF HandleExpect, HandleWritten
<1>8. CASE tag = "DEFAULT"
  <2> DEFINE g == [w.f EXCEPT !.state = "DONE"]  v == [w EXCEPT !.f.state = "DONE"]
  <2>1. HandleExpect(w, r, tag) = v \/ HandleExpect(w, r, tag) = Fails(w, "NO_FILE")
    BY <1>8 DEF HandleExpect
  <2>2. v = [w EXCEPT !.f = g]
    BY Zenon
  <2>3. /\ g.mode = w.f.mode /\ g.error = w.f.error /\ g.eof = w.f.eof /\ g.pos = w.f.pos
        /\ g.req_pos = w.f.req_pos /\ g.buf = w.f.buf /\ g.state = "DONE"
    BY <1>1, Zenon DEF Ses
  <2> HIDE DEF g, v
  <2>4. v.f = g /\ v.c = w.c
    BY <1>1, <2>2, Zenon DEF World
  <2>5. w.f.buf.on /\ w.f.mode = "STORE"
    BY <1>2, <1>8 DEF Fits
  <2>6. ASSUME Stores(w.f) PROVE Storing(g, w.c, st)
    <3>1. Storing(w.f, w.c, st)
      BY <1>8
    <3>2. st = Prefix(N) /\ w.f.state # "FILE_SEND" /\ \A j \in 1..Len(w.c.out) : ~WriteAt(w.c, j)
      BY <1>8, <2>6
    <3> QED
      BY <3>1, <3>2, <2>3, <2>5, <1>1, DoneStoring
  <2>7. ~Stores(w.f) => Storing(g, w.c, st)
    BY <2>3, <2>5, StoringNot DEF Stores
  <2> QED
    BY <2>1, <2>4, <2>6, <2>7, <1>3
<1>9. CASE tag = "IGNORE" \/ (tag = "STALE" /\ r.t # "handle")
  BY <1>9 DEF HandleExpect
<1> QED
  BY <1>1, <1>4, <1>5, <1>6, <1>7, <1>8, <1>9 DEF Tag

\* HandleReplies, the packet at i
LEMMA PacketStoring ==
    ASSUME WritesFirst, NEW w, w.c \in Conn, Good(w), w.f.mode = "STORE", NEW i \in 1..Len(w.c.wire), Comes(w.c, i),
           NEW st, Storing(w.f, w.c, st)
    PROVE  Storing(HandlePacket(w, i).f, HandlePacket(w, i).c, st)
<1> DEFINE r == w.c.wire[i]  e == w.c.expect[w.c.wire[i].id]  x == Without(w, i)
<1>1. HandlePacket(w, i) = HandleExpect(x, [r EXCEPT !.req = e.req], e.tag)
  BY Zenon DEF HandlePacket, Without
<1>2. Due(x, r, e.tag) /\ [r EXCEPT !.req = e.req] = r /\ x.f = w.f
  BY PacketDue
<1>3. HandlePacket(w, i) = HandleExpect(x, r, e.tag)
  BY <1>1, <1>2, Zenon
<1>4. ASSUME Stores(w.f) PROVE StoreAsks(w.f, w.c) /\ Stored(w.f, w.c, st) /\ Sending(w.f) /\ (~w.f.buf.on => st = Prefix(w.f.pos))
  BY <1>4, ConnFields DEF Storing
<1>5. (e.tag = "WRITE_STATUS" /\ ~(r.t = "status" /\ r.code = "ok")) \/ Storing(x.f, x.c, st)
  <2> SUFFICES ASSUME ~(e.tag = "WRITE_STATUS" /\ ~(r.t = "status" /\ r.code = "ok")) PROVE Storing(x.f, x.c, st)
    OBVIOUS
  <2>1. ~Bad(w.c, w.c.wire[i])
    BY DEF Bad, IsA
  <2>2. ASSUME Stores(w.f) PROVE StoreAsks(w.f, x.c) /\ Stored(w.f, x.c, st)
    BY <2>1, <2>2, <1>4, WithoutStored
  <2> HIDE DEF x
  <2>3. Storing(w.f, x.c, st)
    BY <2>2, <1>4 DEF Storing
  <2> QED
    BY <2>3, <1>2
<1>6. ASSUME e.tag = "DEFAULT", Stores(w.f)
      PROVE  st = Prefix(N) /\ w.f.state # "FILE_SEND" /\ \A j \in 1..Len(x.c.out) : ~WriteAt(x.c, j)
  <2>1. IsA(w.c, w.c.wire[i], "DEFAULT")
    BY <1>6 DEF IsA
  <2>2. st = Prefix(N) /\ \A j \in 1..Len(w.c.out) : ~WriteAt(w.c, j)
    BY <2>1, <1>4, <1>6, AllThere
  <2>3. OnItsWay(w.c) /\ x.c.out = w.c.out /\ DOMAIN x.c.expect = DOMAIN w.c.expect \ {r.id}
        /\ \A j \in DOMAIN x.c.expect : x.c.expect[j] = w.c.expect[j]
    BY WithoutIs, ConnFields DEF Good, Whole, Joint
  <2>4. w.f.state # "FILE_SEND"
    <3>1. w.c.wire[i].id \in DOMAIN w.c.expect
      BY <2>3 DEF OnItsWay, Awaited
    <3>2. Asked(w.f, w.c.expect[w.c.wire[i].id])
      BY <3>1, <1>4, <1>6 DEF StoreAsks
    <3> QED
      BY <3>2, <1>6 DEF Asked
  <2>5. OnItsWay(x.c)
    <3>1. x.c.on /\ Whole(x, IF e.tag \in {"HANDLE", "STALE"} THEN {r.h} ELSE {}, IF e.tag = "INFO" THEN {r.req.pos} ELSE {})
      BY <1>2, ConnFields DEF Due
    <3> HIDE DEF x
    <3> QED
      BY <3>1 DEF Whole, Joint
  <2> HIDE DEF x
  <2>6. ASSUME NEW j \in 1..Len(x.c.out) PROVE ~WriteAt(x.c, j)
    <3>1. x.c.out[j].id \in DOMAIN x.c.expect
      BY <2>5 DEF OnItsWay, Awaited
    <3>2. x.c.expect[x.c.out[j].id] = w.c.expect[w.c.out[j].id]
      BY <3>1, <2>3
    <3> QED
      BY <3>2, <2>2, <2>3 DEF WriteAt, IsA
  <2> QED
    BY <2>2, <2>4, <2>6
<1> HIDE DEF r, e, x
<1>7. x.f.mode = "STORE" /\ (e.tag = "DEFAULT" /\ Stores(x.f) => /\ st = Prefix(N) /\ x.f.state # "FILE_SEND"
                                                                 /\ \A j \in 1..Len(x.c.out) : ~WriteAt(x.c, j))
  BY <1>2, <1>6
<1>8. Storing(HandleExpect(x, r, e.tag).f, HandleExpect(x, r, e.tag).c, st)
  BY <1>2, <1>5, <1>7, ExpectStoring
<1> QED
  BY <1>3, <1>8

\* A connection that is lost, or closed, ends the storing of its session (DisconnectLL).
LEMMA DisconnectStoring ==
    ASSUME NEW w \in World, NEW st, Storing(w.f, w.c, st)
    PROVE  Storing(Disconnect(w).f, Disconnect(w).c, st)
<1> DEFINE error == IF w.f.mode = "STORE" THEN "STORE_FAILED" ELSE w.f.error
           g == [w.f EXCEPT !.state = "DISCONNECTED", !.handle = NoHandle, !.buf = NoBuf, !.ooo = <<>>,
                            !.susp = FALSE, !.next = 1, !.error = error]
<1>1. w.f \in Ses
  BY OnIsConn
<1>2. Disconnect(w).f = g
  BY Zenon DEF Disconnect
<1> HIDE DEF error
<1>3. g.mode = w.f.mode /\ g.eof = w.f.eof /\ g.error = error
  BY <1>1, Zenon DEF Ses
<1> HIDE DEF g
<1>4. ~Stores(g)
  BY <1>3 DEF Stores, error
<1> QED
  BY <1>2, <1>3, <1>4 DEF Storing

\* HandleReplies, the end: nothing of what is stored changes.
LEMMA LateEofStoring ==
    ASSUME NEW w \in World, NEW st, Storing(w.f, w.c, st)
    PROVE  Storing(LateEof(w).f, LateEof(w).c, st)
<1> DEFINE b == [w.f.buf EXCEPT !.eof = TRUE]  g == [w.f EXCEPT !.buf = b]  v == [w EXCEPT !.f.buf.eof = TRUE]
<1>1. w.f \in Ses /\ w.f.buf \in Buf
  BY OnIsConn, SesFields
<1>2. LateEof(w) = v \/ LateEof(w) = w
  BY Zenon DEF LateEof
<1>3. v = [w EXCEPT !.f = g]
  BY Zenon
<1>4. b.on = w.f.buf.on /\ b.data = w.f.buf.data
  BY <1>1, Zenon DEF Buf
<1> HIDE DEF b
<1>5. /\ g.mode = w.f.mode /\ g.error = w.f.error /\ g.eof = w.f.eof /\ g.pos = w.f.pos
      /\ g.req_pos = w.f.req_pos /\ g.buf = b /\ g.state = w.f.state
  BY <1>1, Zenon DEF Ses
<1> HIDE DEF g, v
<1>6. v.f = g /\ v.c = w.c
  BY <1>3, Zenon DEF World
<1>7. Storing(g, w.c, st)
  BY <1>4, <1>5, StoringSame
<1> QED
  BY <1>2, <1>6, <1>7

\* HandleReplies: only who reads keeps answers for later.
LEMMA NoneKept ==
    ASSUME NEW w, Good(w), w.f.mode # "RETRIEVE"
    PROVE  OutOfOrder(w) = w
<1> DEFINE f == w.f  at == {i \in DOMAIN f.ooo : f.ooo[i].req.pos = f.pos + Len(f.buf.data)}
<1>1. f.ooo \in Seq(Answer) /\ \A i \in 1..Len(f.ooo) : FALSE
  BY OnIsConn, SesFields DEF Good, Whole, Session, Holds
<1>2. at = {}
  BY <1>1, LenProperties
<1> QED
  BY <1>2, Zenon DEF OutOfOrder

\* HandleReplies, of a session that stores
LEMMA RepliesStoring ==
    ASSUME WritesFirst, NEW w, w.c \in Conn, Good(w), w.f.mode = "STORE", NEW st, Storing(w.f, w.c, st), NEW u \in HandleReplies(w)
    PROVE  Storing(u.f, u.c, st)
<1> DEFINE v == LateEof(w)
<1>1. /\ OutOfOrder(w) = w /\ w \in World
  BY NoneKept DEF Good, Whole
<1>2. \/ u = v
      \/ u = Disconnect(v)
      \/ v.c.on /\ \E i \in DOMAIN v.c.wire : Comes(v.c, i) /\ u = HandlePacket(v, i)
  BY <1>1 DEF HandleReplies
<1>3. Good(v) /\ v.f.mode = "STORE" /\ v \in World
  BY LateEofLeads DEF Leads, Good, Whole
<1>4. Storing(v.f, v.c, st)
  BY <1>1, LateEofStoring
<1> HIDE DEF v
<1>5. CASE u = v
  BY <1>4, <1>5
<1>6. CASE u = Disconnect(v)
  BY <1>3, <1>4, <1>6, DisconnectStoring
<1>7. CASE v.c.on /\ \E i \in DOMAIN v.c.wire : Comes(v.c, i) /\ u = HandlePacket(v, i)
  <2>1. PICK i \in DOMAIN v.c.wire : Comes(v.c, i) /\ u = HandlePacket(v, i)
    BY <1>7
  <2>2. v.c \in Conn
    BY <1>3, <1>7, OnIsConn
  <2>3. i \in 1..Len(v.c.wire)
    BY <2>2, ConnFields, LenProperties
  <2>4. Storing(HandlePacket(v, i).f, HandlePacket(v, i).c, st)
    BY <2>1, <2>2, <2>3, <1>3, <1>4, PacketStoring
  <2> QED
    BY <2>1, <2>4
<1> QED
  BY <1>2, <1>5, <1>6, <1>7

\* What comes for an operation that has been closed does not change the session.
LEMMA RepliesClosed ==
    ASSUME NEW w, w.c \in Conn, Good(w), w.f.mode = "CLOSED", NEW u \in HandleReplies(w)
    PROVE  u.f.eof = w.f.eof
<1>1. w \in World /\ w.f \in Ses /\ ~w.f.buf.on /\ AtRest(w.f)
  BY OnIsConn DEF Good, Whole, Session, Phase, AtRest
<1>2. LateEof(OutOfOrder(w)) = w
  BY <1>1, NoneKept DEF LateEof
<1>3. \/ u = w
      \/ u = Disconnect(w)
      \/ \E i \in DOMAIN w.c.wire : u = HandlePacket(w, i)
  BY <1>2 DEF HandleReplies
<1>4. Disconnect(w).f.eof = w.f.eof
  <2> DEFINE error == IF w.f.mode = "STORE" THEN "STORE_FAILED" ELSE w.f.error
             g == [w.f EXCEPT !.state = "DISCONNECTED", !.handle = NoHandle, !.buf = NoBuf, !.ooo = <<>>,
                              !.susp = FALSE, !.next = 1, !.error = error]
  <2>1. Disconnect(w).f = g
    BY Zenon DEF Disconnect
  <2> HIDE DEF error
  <2>2. g.eof = w.f.eof
    BY <1>1, Zenon DEF Ses
  <2> QED
    BY <2>1, <2>2
<1>5. ASSUME NEW i \in DOMAIN w.c.wire PROVE HandlePacket(w, i).f = w.f
  <2> DEFINE r == w.c.wire[i]  e == w.c.expect[w.c.wire[i].id]  x == Without(w, i)
  <2>1. i \in 1..Len(w.c.wire)
    BY <1>5, ConnFields, LenProperties
  <2>2. HandlePacket(w, i) = HandleExpect(x, [r EXCEPT !.req = e.req], e.tag)
    BY Zenon DEF HandlePacket, Without
  <2>3. Due(x, r, e.tag) /\ [r EXCEPT !.req = e.req] = r /\ x.f = w.f
    BY <2>1, PacketDue
  <2> HIDE DEF r, e, x
  <2>4. HandlePacket(w, i) = HandleExpect(x, r, e.tag) /\ x \in World
    BY <2>2, <2>3, Zenon DEF Due, Whole
  <2>5. e.tag \in {"IGNORE", "STALE"}
    BY <2>3, <1>1 DEF Due
  <2>6. HandleExpect(x, r, e.tag) = x \/ HandleExpect(x, r, e.tag) = Send(x, [Request("CLOSE", r.req.for, 0, 0) EXCEPT !.h = r.h], "IGNORE")
    BY <2>5 DEF HandleExpect
  <2>7. HandleExpect(x, r, e.tag).f = x.f
    BY <2>4, <2>6, SendSession
  <2> QED
    BY <2>3, <2>4, <2>7
<1> QED
  BY <1>3, <1>4, <1>5

-----------------------------------------------------------------------------
(* Do.                                                                     *)

\* SendRequest: the server is asked to make the file, or to go on with it.
LEMMA SendRequestStoring ==
    ASSUME NEW w, w.c \in Conn, Good(w), w.f.state = "CONNECTED", w.f.mode = "STORE", NEW st, Storing(w.f, w.c, st)
    PROVE  Storing(SendRequest(w).f, SendRequest(w).c, st)
<1> DEFINE g == [w.f EXCEPT !.slow = 1, !.state = "WAITING"]
           v == [w EXCEPT !.f.slow = 1, !.f.state = "WAITING"]
           q == Request("CREATE", w.f.file, w.f.pos, 0)
           u == Send(v, q, "HANDLE")
           e == [req |-> q, tag |-> "HANDLE"]
<1>1. /\ w \in World /\ w.f \in Ses /\ Session(w) /\ w.f.pos \in Nat /\ Able(w)
      /\ \A i \in DOMAIN w.c.expect : w.c.expect[i].tag \in {"IGNORE", "STALE"}
  BY OnIsConn, SesFields, WholeAble, ConnFields DEF Good, Whole, Joint, AtRest
<1>2. v = [w EXCEPT !.f = g]
  BY Zenon
<1>d. SendRequest(w) = u
  <2>1. SendRequest(w) = CASE w.f.mode = "RETRIEVE" -> Send(v, Request("OPEN", w.f.file, 0, 0), "HANDLE")
                           [] w.f.mode = "STORE" -> u
                           [] w.f.mode = "REMOVE" -> Send(v, Request("REMOVE", w.f.file, 0, 0), "DEFAULT")
                           [] w.f.mode = "ARRAY_INFO" -> v
    BY Zenon DEF SendRequest
  <2> HIDE DEF v, u
  <2> QED
    BY <2>1
<1>3. /\ g \in Ses /\ g.mode = w.f.mode /\ g.error = w.f.error /\ g.eof = w.f.eof /\ g.pos = w.f.pos
      /\ g.req_pos = w.f.req_pos /\ g.buf = w.f.buf /\ g.state = "WAITING"
  BY <1>1, Zenon DEF Ses
<1>4. q \in Req /\ q.k = "CREATE" /\ q.pos = w.f.pos /\ "HANDLE" \in Tag
  <2>1. ASSUME NEW h \in Ses, NEW at \in Nat, NEW n \in Nat
        PROVE  /\ Request("CREATE", h.file, at, n) \in Req /\ Request("CREATE", h.file, at, n).k = "CREATE"
               /\ Request("CREATE", h.file, at, n).pos = at
    <3>1. Request("CREATE", h.file, at, n) \in Req
      BY Requests
    <3>2. Request("CREATE", h.file, at, n).k = "CREATE" /\ Request("CREATE", h.file, at, n).pos = at
      BY DEF Request
    <3> QED
      BY <3>1, <3>2
  <2>0. 0 \in Nat
    OBVIOUS
  <2>2. q \in Req /\ q.k = "CREATE" /\ q.pos = w.f.pos
    BY <1>1, <2>0, <2>1, Zenon
  <2> QED
    BY <2>2 DEF Tag
<1> HIDE DEF g, v, q
<1>5. v \in World /\ v.c = w.c /\ v.f = g
  BY <1>1, <1>2, <1>3, Zenon DEF World
<1>6. Sends(v, q, "HANDLE", u)
  BY <1>1, <1>4, <1>5, SendIs DEF Able
<1>7. ~g.buf.on
  BY <1>1, <1>3 DEF Session, Phase, AtRest
<1>8. Leads(w, u, {}, {})
  BY <1>d, SendRequestLeads
<1>9. e.req = q /\ e.tag = "HANDLE"
  OBVIOUS
<1> HIDE DEF e, u
<1>10. /\ u.f = g /\ u.c \in Conn /\ u.c.expect[w.c.id] = e
       /\ DOMAIN u.c.expect = DOMAIN w.c.expect \cup {w.c.id}
       /\ \A i \in DOMAIN w.c.expect : u.c.expect[i] = w.c.expect[i]
  BY <1>5, <1>6 DEF Sends, e
<1>11. /\ \A i \in DOMAIN u.c.expect : u.c.expect[i].tag \notin {"WRITE_STATUS", "DEFAULT"}
       /\ \A j \in 1..Len(u.c.out) : ~WriteAt(u.c, j)
       /\ \A k \in 1..Len(u.c.wire) : ~IsA(u.c, u.c.wire[k], "DEFAULT")
  <2>1. Whole(u, {}, {}) /\ u.f.mode = "STORE" /\ ~u.f.buf.on
    BY <1>3, <1>7, <1>8, <1>10 DEF Leads
  <2> QED
    BY <2>1, <1>10, NothingSent
<1>12. \A i \in DOMAIN u.c.expect : u.c.expect[i].tag = "HANDLE" => u.c.expect[i].req.k = "CREATE" /\ u.c.expect[i].req.pos = g.pos
  BY <1>1, <1>3, <1>4, <1>9, <1>10
<1>13. ASSUME Stores(g) PROVE Storing(g, u.c, st)
  <2>1. Stores(w.f)
    BY <1>3, <1>13 DEF Stores
  <2>2. Sending(w.f) /\ st = Prefix(w.f.pos)
    BY <2>1, <1>3, <1>7 DEF Storing
  <2>3. Sending(g)
    BY <2>2, <1>3, <1>7 DEF Sending
  <2> QED
    BY <2>2, <2>3, <1>3, <1>7, <1>11, <1>12, <1>13, StoringNothing
<1>14. ~Stores(g) => Storing(g, u.c, st)
  BY <1>3, StoringNot
<1> QED
  BY <1>d, <1>10, <1>13, <1>14

\* All has been sent: what is left is the answer to CLOSE.
LEMMA AllSent ==
    ASSUME NEW f, NEW c, NEW st, Stores(f), Storing(f, c, st), c.on, f.state = "FILE_SEND", f.eof, f.buf.data = <<>>, f.buf.on,
           NEW g, g.eof = f.eof, g.pos = f.pos, g.req_pos = f.req_pos, g.buf = f.buf, g.state = "WAITING"
    PROVE  Sending(g) /\ StoreAsks(g, c) /\ Stored(g, c, st)
<1>1. Filling(g, c, st) <=> Filling(f, c, st)
  BY DEF Filling, FillsFrom
<1>2. Sending(f) /\ StoreAsks(f, c) /\ Stored(f, c, st)
  BY DEF Storing
<1>3. StoreAsks(g, c)
  <2>1. ASSUME NEW i \in DOMAIN c.expect PROVE Asked(g, c.expect[i])
    <3>1. Asked(f, c.expect[i])
      BY <1>2 DEF StoreAsks
    <3> QED
      BY <3>1 DEF Asked
  <2> QED
    BY <2>1, <1>2 DEF StoreAsks
<1>4. Stored(g, c, st)
  BY <1>1, <1>2 DEF Stored
<1>5. Sending(g)
  BY <1>2 DEF Sending
<1> QED
  BY <1>3, <1>4, <1>5

\* A byte is sent: it is the next, and behind all that are on their way.
LEMMA ByteSent ==
    ASSUME NEW w, Able(w), OnItsWay(w.c), w.f.buf.on, w.f.state = "FILE_SEND", Stores(w.f), NEW st, Storing(w.f, w.c, st), NEW q \in Req,
           q.k = "WRITE", q.pos = w.f.req_pos, q.n = q.pos, w.f.buf.data # <<>>,
           NEW g \in Ses, g.mode = w.f.mode, g.error = w.f.error, g.state = w.f.state, g.eof = w.f.eof, g.pos = w.f.pos,
           g.req_pos = w.f.req_pos + 1, g.buf.on = w.f.buf.on, g.buf.data = Tail(w.f.buf.data)
    PROVE  Storing(g, Send(w, q, "WRITE_STATUS").c, st)
<1> DEFINE f == w.f  c == w.c  d == Send(w, q, "WRITE_STATUS").c  e == [req |-> q, tag |-> "WRITE_STATUS"]  n == Len(c.out)
           s == f.buf.data
<1>1. Sends(w, q, "WRITE_STATUS", Send(w, q, "WRITE_STATUS")) /\ "WRITE_STATUS" \in Tag
  BY SendIs DEF Able, Tag
<1>2. /\ d.expect[c.id] = e /\ d.net = c.net /\ d.wire = c.wire
      /\ \A i \in DOMAIN c.expect : d.expect[i] = c.expect[i]
      /\ n \in Nat /\ Len(d.out) = n + 1 /\ d.out[n + 1].id = c.id /\ d.out[n + 1].req = q /\ \A i \in 1..n : d.out[i] = c.out[i]
      /\ d \in Conn
  BY <1>1 DEF Sends
<1>3. e.tag = "WRITE_STATUS" /\ e.req = q
  OBVIOUS
<1>4. /\ \A i \in 1..n : c.out[i].id \in DOMAIN c.expect /\ c.expect[c.out[i].id].req = c.out[i].req
      /\ \A i \in 1..Len(c.wire) : c.wire[i].id \in DOMAIN c.expect
  BY DEF OnItsWay, Awaited
<1>5. f.req_pos \in Nat /\ f \in Ses /\ s \in Seq(File \X Nat) /\ f.pos \in Nat /\ c.on /\ d.on
  BY <1>2, OnIsConn, SesFields, ConnFields DEF Able
<1>6. Sending(f) /\ StoreAsks(f, c) /\ Stored(f, c, st)
  BY <1>5 DEF Storing
<1>g. /\ g.mode = f.mode /\ g.error = f.error /\ g.state = "FILE_SEND" /\ g.eof = f.eof /\ g.pos = f.pos
      /\ g.req_pos = f.req_pos + 1 /\ g.buf.on /\ g.buf.data = Tail(s) /\ s # <<>> /\ f.state = "FILE_SEND" /\ f.buf.on
  OBVIOUS
<1>q. q.k = "WRITE" /\ q.pos = f.req_pos /\ q.n = q.pos
  OBVIOUS
<1>7. \A i \in DOMAIN c.expect : c.expect[i].tag # "DEFAULT"
  <2> SUFFICES ASSUME NEW i \in DOMAIN c.expect PROVE c.expect[i].tag # "DEFAULT"
    OBVIOUS
  <2>1. Asked(f, c.expect[i])
    BY <1>6 DEF StoreAsks
  <2> QED
    BY <2>1, <1>g DEF Asked
<1>8. StoreAsks(g, d)
  <2>1. ASSUME NEW i \in DOMAIN c.expect PROVE Asked(g, c.expect[i])
    <3>1. Asked(f, c.expect[i])
      BY <1>6 DEF StoreAsks
    <3>2. c.expect[i].tag = "WRITE_STATUS" => c.expect[i].req.pos < g.req_pos
      <4>1. c.expect \in Queue
        BY ConnFields DEF Able
      <4>2. c.expect[i] \in Expected
        BY <4>1, QueueHas
      <4>3. c.expect[i].req \in Req
        BY <4>2, Zenon DEF Expected
      <4>4. c.expect[i].req.pos \in Nat
        BY <4>3, ReqFields
      <4> QED
        BY <4>4, <3>1, <1>g, <1>5 DEF Asked
    <3> QED
      BY <3>1, <3>2, <1>7, <1>g DEF Asked
  <2>2. StoreAsks(g, c)
    BY <2>1, <1>7 DEF StoreAsks
  <2>3. Asked(g, e)
    BY <1>3, <1>5, <1>g, <1>q DEF Asked
  <2> QED
    BY <2>2, <2>3, <1>1, <1>7, SendAsks
<1> HIDE DEF c, d, e, n
<1>9. /\ \A j \in 1..n : j \in 1..Len(d.out) /\ d.out[j] = c.out[j] /\ (WriteAt(d, j) <=> WriteAt(c, j))
      /\ n + 1 \in 1..Len(d.out) /\ WriteAt(d, n + 1)
      /\ \A j \in 1..Len(d.out) : j \in 1..n \/ j = n + 1
  <2>1. ASSUME NEW j \in 1..n PROVE j \in 1..Len(d.out) /\ d.out[j] = c.out[j] /\ (WriteAt(d, j) <=> WriteAt(c, j))
    <3>1. j \in 1..Len(d.out) /\ d.out[j] = c.out[j] /\ c.out[j].id \in DOMAIN c.expect
      BY <1>2, <1>4
    <3>2. d.expect[d.out[j].id] = c.expect[c.out[j].id]
      BY <3>1, <1>2
    <3> QED
      BY <3>1, <3>2 DEF WriteAt, IsA
  <2>2. WriteAt(d, n + 1)
    BY <1>2, <1>3 DEF WriteAt, IsA
  <2> QED
    BY <2>1, <2>2, <1>2
<1>10. \A j \in 1..n : WriteAt(c, j) => c.out[j].req.pos < f.req_pos
  <2> SUFFICES ASSUME NEW j \in 1..n, WriteAt(c, j) PROVE c.out[j].req.pos < f.req_pos
    OBVIOUS
  <2>1. Asked(f, c.expect[c.out[j].id])
    BY <1>4, <1>6 DEF StoreAsks
  <2> QED
    BY <2>1, <1>4 DEF Asked, WriteAt, IsA
<1>11. ASSUME NEW m \in 0..f.req_pos, FillsFrom(f, c, m) PROVE FillsFrom(g, d, m)
  <2>1. ASSUME NEW p \in m..(g.req_pos - 1) PROVE \E j \in 1..Len(d.out) : WriteAt(d, j) /\ d.out[j].req.pos = p
    <3>1. CASE p = f.req_pos
      BY <3>1, <1>2, <1>9, <1>q
    <3>2. CASE p # f.req_pos
      <4>1. p \in m..(f.req_pos - 1)
        BY <3>2, <1>5, <1>g
      <4>2. PICK j \in 1..n : WriteAt(c, j) /\ c.out[j].req.pos = p
        BY <4>1, <1>11 DEF FillsFrom, n
      <4> QED
        BY <4>2, <1>9
    <3> QED
      BY <3>1, <3>2
  <2>2. ASSUME NEW j \in 1..Len(d.out), WriteAt(d, j) PROVE m <= d.out[j].req.pos
    <3>1. CASE j \in 1..n
      BY <3>1, <2>2, <1>9, <1>11 DEF FillsFrom, n
    <3>2. CASE j = n + 1
      BY <3>2, <1>2, <1>5, <1>q
    <3> QED
      BY <3>1, <3>2, <1>9
  <2>3. ASSUME NEW j \in 1..Len(d.out), NEW k \in 1..Len(d.out), WriteAt(d, j), WriteAt(d, k), j < k
        PROVE  d.out[j].req.pos < d.out[k].req.pos
    <3>1. j \in 1..n
      BY <2>3, <1>2, <1>9
    <3>2. CASE k \in 1..n
      BY <3>1, <3>2, <2>3, <1>9, <1>11 DEF FillsFrom, n
    <3>3. CASE k = n + 1
      BY <3>1, <3>3, <2>3, <1>2, <1>9, <1>10, <1>q
    <3> QED
      BY <3>2, <3>3, <1>9
  <2> QED
    BY <2>1, <2>2, <2>3 DEF FillsFrom
<1>12. Stored(g, d, st)
  <2>1. Filling(f, c, st) => Filling(g, d, st)
    <3> SUFFICES ASSUME Filling(f, c, st) PROVE Filling(g, d, st)
      OBVIOUS
    <3>1. PICK m \in 0..f.req_pos : st = Prefix(m) /\ FillsFrom(f, c, m)
      BY DEF Filling
    <3>2. FillsFrom(g, d, m) /\ m \in 0..g.req_pos
      BY <3>1, <1>5, <1>11, <1>g
    <3> QED
      BY <3>1, <3>2 DEF Filling
  <2>2. \A i \in 1..Len(c.wire) : d.wire[i] = c.wire[i] /\ d.expect[c.wire[i].id] = c.expect[c.wire[i].id]
    BY <1>2, <1>4
  <2>3. d.net # "lost" => (\E i \in 1..Len(d.wire) : Bad(d, d.wire[i])) \/ Filling(g, d, st)
    <3>1. c.net # "lost" => (\E i \in 1..Len(c.wire) : Bad(c, c.wire[i])) \/ Filling(f, c, st)
      BY <1>6, <1>g DEF Stored
    <3> QED
      BY <3>1, <2>1, <2>2, <1>2 DEF Bad, IsA
  <2>4. \A k \in 1..Len(d.wire) : ~IsA(d, d.wire[k], "DEFAULT")
    BY <2>2, <1>2, <1>4, <1>7 DEF IsA
  <2> QED
    BY <2>3, <2>4, <1>g DEF Stored
<1>13. Sending(g)
  <2>1. Tail(s) \in Seq(File \X Nat) /\ Len(s) \in Nat /\ Len(s) > 0 /\ Len(Tail(s)) = Len(s) - 1
        /\ \A k \in 1..(Len(s) - 1) : Tail(s)[k] = s[k + 1]
    BY <1>5, <1>g, HeadTailProperties, LenProperties, EmptySeq
  <2>2. f.req_pos + Len(s) = f.pos /\ \A k \in 1..Len(s) : s[k][2] = f.req_pos + k - 1
    BY <1>6, <1>g DEF Sending
  <2> HIDE DEF s
  <2>3. ASSUME NEW k \in 1..Len(Tail(s)) PROVE Tail(s)[k][2] = (f.req_pos + 1) + k - 1
    <3>1. k \in 1..(Len(s) - 1) /\ k + 1 \in 1..Len(s)
      BY <2>1
    <3>2. Tail(s)[k][2] = f.req_pos + (k + 1) - 1
      BY <3>1, <2>1, <2>2
    <3> QED
      BY <3>1, <3>2, <1>5
  <2>4. (f.req_pos + 1) + Len(Tail(s)) = f.pos
    BY <2>1, <2>2, <1>5
  <2>5. f.eof => f.pos = N
    BY <1>6 DEF Sending
  <2> QED
    BY <2>3, <2>4, <2>5, <1>g DEF Sending
<1> QED
  BY <1>8, <1>12, <1>13, <1>g DEF Storing, Stores, d


\* The request to write a byte has its position and what is written.
LEMMA WriteIs ==
    ASSUME NEW f \in Ses, NEW pos \in Nat, NEW n \in Nat
    PROVE  /\ OnHandle(f, "WRITE", pos, n) \in Req /\ OnHandle(f, "WRITE", pos, n).k = "WRITE"
           /\ OnHandle(f, "WRITE", pos, n).pos = pos /\ OnHandle(f, "WRITE", pos, n).n = n
<1>1. OnHandle(f, "WRITE", pos, n) \in Req
  BY Requests
<1>2. OnHandle(f, "WRITE", pos, n).k = "WRITE"
  BY Requests
<1>3. OnHandle(f, "WRITE", pos, n).pos = pos
  BY Requests
<1>4. OnHandle(f, "WRITE", pos, n).n = n
  BY Requests
<1> QED
  BY <1>1, <1>2, <1>3, <1>4

\* FILE_SEND: a byte is sent, or the file is closed when all of it has been.
LEMMA DoSendStoring ==
    ASSUME NEW w, w.c \in Conn, Good(w), w.f.state = "FILE_SEND", w.f.mode = "STORE", w.f.error = "OK", NEW st, Storing(w.f, w.c, st)
    PROVE  Storing(DoSend(w).f, DoSend(w).c, st)
<1> DEFINE f == w.f
           b == Head(f.buf.data)
           q == OnHandle(f, "WRITE", f.req_pos, b[2])
           u == Send(w, q, "WRITE_STATUS")
           data == Tail(f.buf.data)
           p == f.req_pos + 1
           buf == [f.buf EXCEPT !.data = data]
           g == [f EXCEPT !.buf = buf, !.req_pos = p]
           v == [Send(w, q, "WRITE_STATUS") EXCEPT !.f.buf.data = Tail(@), !.f.req_pos = @ + 1]
           x == CloseHandle(w, "DEFAULT")
           h == [x.f EXCEPT !.state = "WAITING"]
           y == [CloseHandle(w, "DEFAULT") EXCEPT !.f.state = "WAITING"]
<1>1. /\ w \in World /\ f \in Ses /\ Session(w) /\ f.req_pos \in Nat /\ f.mode = "STORE" /\ f.buf.on /\ Whole(w, {}, {})
      /\ f.buf \in Buf /\ f.buf.data \in Seq(File \X Nat) /\ OnItsWay(w.c) /\ Able(w) /\ w.c.on /\ Stores(f)
  BY OnIsConn, SesFields, ConnFields, WholeAble DEF Good, Whole, Session, Phase, Joint, Stores
<1>s. Sending(f) /\ StoreAsks(f, w.c) /\ Stored(f, w.c, st)
  BY <1>1 DEF Storing
<1>d. DoSend(w) = w \/ (f.buf.data = <<>> /\ f.eof /\ DoSend(w) = y) \/ (f.buf.data # <<>> /\ DoSend(w) = v)
  BY Zenon DEF DoSend
<1>3. ASSUME f.buf.data = <<>>, f.eof PROVE Storing(y.f, y.c, st)
  <2> DEFINE a == OnHandle(f, "CLOSE", 0, 0)  e == [req |-> a, tag |-> "DEFAULT"]  i == [f EXCEPT !.state = "WAITING"]
             z == Send(w, a, "DEFAULT")
  <2>1. a \in Req /\ "DEFAULT" \in Tag /\ "DEFAULT" # "WRITE_STATUS"
    <3>1. \A g1 \in Ses : \A a1 \in Nat : \A a2 \in Nat : OnHandle(g1, "CLOSE", a1, a2) \in Req
      BY Requests
    <3>0. 0 \in Nat
      OBVIOUS
    <3>2. a \in Req
      BY <3>0, <3>1, <1>1, Zenon
    <3> QED
      BY <3>2 DEF Tag
  <2>x. x = w \/ x = [z EXCEPT !.f.handle = NoHandle]
    BY Zenon DEF CloseHandle
  <2> HIDE DEF a
  <2>2. z.f = f /\ Sends(w, a, "DEFAULT", z)
    BY <2>1, <1>1, SendSession, SendIs DEF Able
  <2>3. /\ i.mode = f.mode /\ i.error = f.error /\ i.eof = f.eof /\ i.pos = f.pos /\ i.req_pos = f.req_pos /\ i.buf = f.buf
        /\ i.state = "WAITING"
    BY <1>1, Zenon DEF Ses
  <2> HIDE DEF i
  <2>4. Sending(i) /\ StoreAsks(i, w.c) /\ Stored(i, w.c, st)
    BY <2>3, <1>1, <1>3, AllSent
  <2>5. Asked(i, [req |-> a, tag |-> "DEFAULT"])
    <3>1. e.tag = "DEFAULT"
      OBVIOUS
    <3> HIDE DEF e
    <3>2. Asked(i, e)
      BY <3>1, <2>3 DEF Asked
    <3> QED
      BY <3>2 DEF e
  <2>6. StoreAsks(i, z.c) /\ Stored(i, z.c, st)
    BY <2>1, <2>4, <2>5, <1>1, SendAsks, SendStored
  <2>7. /\ x \in World /\ x.f.mode = f.mode /\ x.f.error = f.error /\ x.f.eof = f.eof /\ x.f.pos = f.pos
        /\ x.f.req_pos = f.req_pos /\ x.f.buf = f.buf /\ (x.c = w.c \/ x.c = z.c)
    <3>1. CASE x = w
      BY <3>1, <1>1
    <3>2. CASE x = [z EXCEPT !.f.handle = NoHandle]
      <4> DEFINE j == [z.f EXCEPT !.handle = NoHandle]
      <4>1. x = [z EXCEPT !.f = j]
        BY <3>2, Zenon
      <4>2. /\ j \in Ses /\ j.mode = f.mode /\ j.error = f.error /\ j.eof = f.eof /\ j.pos = f.pos
            /\ j.req_pos = f.req_pos /\ j.buf = f.buf
        <5>1. NoHandle \in Nat
          BY DEF NoHandle
        <5> QED
          BY <5>1, <2>2, <1>1, Zenon DEF Ses
      <4>3. z \in World
        BY <2>2 DEF Sends
      <4> HIDE DEF j, x, z
      <4>4. x \in World /\ x.f = j /\ x.c = z.c
        BY <4>1, <4>2, <4>3, Zenon DEF World
      <4> QED
        BY <4>2, <4>4
    <3> QED
      BY <2>x, <3>1, <3>2
  <2>y. y = [x EXCEPT !.f = h]
    BY Zenon
  <2> HIDE DEF x, z
  <2>8. /\ h.mode = f.mode /\ h.error = f.error /\ h.eof = f.eof /\ h.pos = f.pos /\ h.req_pos = f.req_pos /\ h.buf = f.buf
        /\ h.state = "WAITING"
    <3>1. x.f \in Ses
      BY <2>7, OnIsConn
    <3> QED
      BY <3>1, <2>7, Zenon DEF Ses
  <2> HIDE DEF h, y
  <2>9. y.f = h /\ y.c = x.c
    BY <2>7, <2>y, Zenon DEF World
  <2>10. Storing(i, x.c, st)
    BY <2>3, <2>4, <2>6, <2>7, <1>1 DEF Storing
  <2>11. Storing(h, x.c, st)
    BY <2>3, <2>8, <2>10, StoringSame
  <2> QED
    BY <2>9, <2>11
<1>4. ASSUME f.buf.data # <<>> PROVE Storing(v.f, v.c, st)
  <2>1. b \in File \X Nat /\ data \in Seq(File \X Nat) /\ b = f.buf.data[1] /\ 1 \in 1..Len(f.buf.data)
    <3>1. b \in File \X Nat /\ data \in Seq(File \X Nat) /\ Len(f.buf.data) \in Nat /\ Len(f.buf.data) # 0
      BY <1>1, <1>4, HeadTailProperties, LenProperties, EmptySeq
    <3> QED
      BY <3>1, <1>1, <1>4
  <2>2. b[2] = f.req_pos /\ p \in Nat
    <3>1. f.buf.data[1][2] = f.req_pos + 1 - 1
      BY <2>1, <1>1, <1>s DEF Sending
    <3> QED
      BY <3>1, <2>1, <1>1
  <2> HIDE DEF b
  <2>3. q \in Req /\ q.k = "WRITE" /\ q.pos = f.req_pos /\ q.n = q.pos
    <3>1. f \in Ses /\ f.req_pos \in Nat /\ b[2] \in Nat
      BY <2>2, <1>1
    <3> HIDE DEF f
    <3>2. q \in Req /\ q.k = "WRITE" /\ q.pos = f.req_pos /\ q.n = b[2]
      BY <3>1, WriteIs
    <3> QED
      BY <3>2, <2>2
  <2> HIDE DEF q
  <2>4. Sends(w, q, "WRITE_STATUS", u) /\ "WRITE_STATUS" \in Tag
    BY <2>3, <1>1, SendIs DEF Able, Tag
  <2>5. u \in World /\ u.f = f
    BY <2>4 DEF Sends
  <2>6. v = [u EXCEPT !.f = g]
    <3> HIDE DEF u
    <3>1. v = [u EXCEPT !.f.buf.data = Tail(@), !.f.req_pos = @ + 1]
      BY Zenon DEF u
    <3>2. v = [u EXCEPT !.f = [[u.f EXCEPT !.buf = [u.f.buf EXCEPT !.data = Tail(u.f.buf.data)]] EXCEPT !.req_pos = u.f.req_pos + 1]]
      BY <3>1, <2>5, <1>1, Zenon DEF World, Ses
    <3> QED
      BY <3>2, <2>5, Zenon DEF data
  <2> HIDE DEF u, v
  <2>8. buf \in Buf /\ buf.on = f.buf.on /\ buf.data = data
    <3> HIDE DEF data
    <3> QED
      BY <1>1, <2>1, Zenon DEF Buf
  <2> HIDE DEF buf
  <2>9. /\ g \in Ses /\ g.mode = f.mode /\ g.error = f.error /\ g.state = f.state /\ g.eof = f.eof /\ g.pos = f.pos
        /\ g.req_pos = p /\ g.buf = buf
    <3> HIDE DEF p
    <3> QED
      BY <1>1, <2>2, <2>8, Zenon DEF Ses
  <2> HIDE DEF g
  <2>10. v.f = g /\ v.c = u.c
    BY <2>5, <2>6, <2>9, Zenon DEF World
  <2>11. Storing(g, u.c, st)
    <3>1. g.buf.on = w.f.buf.on /\ g.buf.data = Tail(w.f.buf.data) /\ g.req_pos = w.f.req_pos + 1
      BY <2>8, <2>9
    <3>2. Storing(g, Send(w, q, "WRITE_STATUS").c, st)
      BY <3>1, <2>3, <2>9, <1>1, <1>4, ByteSent
    <3> QED
      BY <3>2 DEF u
  <2> QED
    BY <2>10, <2>11
<1> QED
  BY <1>d, <1>3, <1>4

\* Do, by the state of the connection and the operation
LEMMA DoStateStoring ==
    ASSUME NEW w, Good(w), w.f.mode = "STORE", NEW st, Storing(w.f, w.c, st)
    PROVE  Storing(DoState(w).f, DoState(w).c, st)
<1> DEFINE g == [w.f EXCEPT !.state = "CONNECTED"]  v == [w EXCEPT !.f.state = "CONNECTED"]
<1>1. w \in World /\ w.f \in Ses /\ (w.c.on <=> w.c \in Conn) /\ Whole(w, {}, {}) /\ Session(w)
  BY OnIsConn DEF Good, Whole
<1>3. CASE w.f.error # "OK" \/ ~w.c.on
  <2>1. DoState(w) = w
    BY <1>3, Zenon DEF DoState
  <2> QED
    BY <2>1
<1>4. CASE ~(w.f.error # "OK" \/ ~w.c.on) /\ w.f.state = "CONNECTING"
  <2>d. DoState(w) = IF w.c.net = "lost" THEN Disconnect(w) ELSE IF w.c.net = "syn" THEN w ELSE DoConnected(v)
    BY <1>4, Zenon DEF DoState
  <2>1. v = [f |-> g, c |-> w.c]
    <3>1. v = [w EXCEPT !.f = g]
      BY Zenon
    <3> HIDE DEF g, v
    <3> QED
      BY <1>1, <3>1, OnIsConn, Zenon DEF World
  <2>2. /\ g \in Ses /\ g.mode = w.f.mode /\ g.file = w.f.file /\ g.handle = w.f.handle /\ g.buf = w.f.buf
        /\ g.next = w.f.next /\ g.info = w.f.info /\ g.state = "CONNECTED" /\ g.pos = w.f.pos /\ g.ooo = w.f.ooo
        /\ g.error = w.f.error /\ g.eof = w.f.eof /\ g.req_pos = w.f.req_pos
    BY <1>1, Zenon DEF Ses
  <2> HIDE DEF g, v
  <2>3. v \in World /\ v.f = g /\ v.c = w.c
    BY <2>1, <2>2, <1>1, <1>4, WorldOf
  <2>4. Leads(w, v, {}, {})
    <3>1. AtRest(w.f) /\ w.c \in Conn
      BY <1>1, <1>4 DEF AtRest
    <3> QED
      BY <3>1, <2>2, <2>3, BeginLeads
  <2>5. v.c \in Conn /\ Good(v) /\ v.f.state = "CONNECTED" /\ v.f.mode = "STORE"
    BY <2>2, <2>3, <2>4, <1>1, <1>4 DEF Leads, Good
  <2>6. Storing(v.f, v.c, st)
    BY <2>2, <2>3, <1>4, StoringSame
  <2>7. Storing(DoConnected(v).f, DoConnected(v).c, st)
    BY <2>5, <2>6, SendRequestStoring DEF DoConnected
  <2>8. Storing(Disconnect(w).f, Disconnect(w).c, st)
    BY <1>1, DisconnectStoring
  <2> QED
    BY <2>d, <2>7, <2>8
<1>5. CASE ~(w.f.error # "OK" \/ ~w.c.on) /\ w.f.state = "CONNECTED"
  <2>1. DoState(w) = DoConnected(w) /\ DoConnected(w) = SendRequest(w)
    BY <1>5 DEF DoState, DoConnected
  <2> QED
    BY <2>1, <1>1, <1>5, SendRequestStoring
<1>7. CASE ~(w.f.error # "OK" \/ ~w.c.on) /\ w.f.state = "FILE_SEND"
  <2>1. DoState(w) = DoSend(w)
    BY <1>7 DEF DoState
  <2> QED
    BY <2>1, <1>1, <1>7, DoSendStoring
<1>8. CASE ~(w.f.error # "OK" \/ ~w.c.on) /\ w.f.state \in {"WAITING", "DISCONNECTED", "DONE"}
  <2>1. DoState(w) = w
    BY <1>8 DEF DoState
  <2> QED
    BY <2>1
<1>9. w.f.state # "FILE_RECV"
  BY <1>1 DEF Session, Phase
<1> QED
  BY <1>1, <1>3, <1>4, <1>5, <1>7, <1>8, <1>9, SesFields

\* A session that is closed has nothing to do.
LEMMA DoStateClosed ==
    ASSUME NEW w, Good(w), w.f.mode = "CLOSED"
    PROVE  DoState(w) = w
<1>1. w.f.state \in {"CONNECTED", "DISCONNECTED"}
  BY DEF Good, Whole, Session, Phase
<1> QED
  BY <1>1 DEF DoState, DoConnected

-----------------------------------------------------------------------------
(* The network and the server.                                             *)

\* A connection that is there stores as one that comes.
LEMMA EstablishedStoring ==
    ASSUME NEW c \in Conn, c.net = "syn", NEW f, NEW st, Storing(f, c, st)
    PROVE  Storing(f, [c EXCEPT !.net = "up"], st)
<1> DEFINE d == [c EXCEPT !.net = "up"]
<1>1. d.on = c.on /\ d.net = "up" /\ d.out = c.out /\ d.wire = c.wire /\ d.expect = c.expect
  BY Zenon DEF Conn
<1> HIDE DEF d
<1>2. Filling(f, d, st) <=> Filling(f, c, st)
  BY <1>1 DEF Filling, FillsFrom, WriteAt, IsA
<1>3. ASSUME Stores(f), d.on PROVE StoreAsks(f, d) /\ Stored(f, d, st)
  <2>1. StoreAsks(f, c) /\ Stored(f, c, st)
    BY <1>1, <1>3 DEF Storing
  <2>2. StoreAsks(f, d)
    BY <2>1, <1>1 DEF StoreAsks
  <2>3. Stored(f, d, st)
    BY <2>1, <1>1, <1>2 DEF Stored, Bad, WriteAt, IsA
  <2> QED
    BY <2>2, <2>3
<1>4. Storing(f, d, st)
  BY <1>3 DEF Storing
<1> QED
  BY <1>4 DEF d

\* Of a connection that is lost the answers that still come are the first ones: that to CLOSE only behind
\* those to the writes.
LEMMA LoseStoring ==
    ASSUME NEW w, Good(w), w.c \in Conn, NEW n \in 0..Len(w.c.wire), NEW st, Storing(w.f, w.c, st)
    PROVE  Storing(w.f, [[[w.c EXCEPT !.net = "lost"] EXCEPT !.wire = SubSeq(w.c.wire, 1, n)] EXCEPT !.out = <<>>], st)
<1> DEFINE c == w.c  wire == SubSeq(w.c.wire, 1, n)  f == w.f
           d == [[[w.c EXCEPT !.net = "lost"] EXCEPT !.wire = wire] EXCEPT !.out = <<>>]
<1>1. c.wire \in Seq(Answer) /\ Len(c.wire) \in Nat /\ OnItsWay(c) /\ c.on /\ c.expect \in Queue /\ DOMAIN c.expect \subseteq Nat
  BY ConnFields, QueueHas, LenProperties DEF Good, Whole, Joint
<1>2. Len(wire) = n /\ n \in Nat /\ n <= Len(c.wire) /\ \A i \in 1..n : wire[i] = c.wire[i]
  <2> DEFINE s == w.c.wire
  <2>1. s \in Seq(Answer) /\ Len(s) \in Nat /\ n \in 0..Len(s) /\ wire = SubSeq(s, 1, n)
    BY <1>1
  <2> HIDE DEF s
  <2>2. \A i \in 1..n : s[i] \in Answer
    BY <2>1, ElementOfSeq
  <2>3. SubSeq(s, 1, n) \in Seq(Answer) /\ Len(SubSeq(s, 1, n)) = n /\ \A i \in 1..n : SubSeq(s, 1, n)[i] = s[i]
    BY <2>1, <2>2, SubSeqProperties
  <2> QED
    BY <2>1, <2>3 DEF s
<1> HIDE DEF wire
<1>3. d.on = c.on /\ d.net = "lost" /\ d.out = <<>> /\ d.wire = wire /\ d.expect = c.expect
  BY Zenon DEF Conn
<1>4. /\ \A j \in 1..Len(c.wire) : c.wire[j].id \in DOMAIN c.expect
      /\ \A j, k \in 1..Len(c.wire) : j < k => c.wire[j].id < c.wire[k].id
  BY <1>1 DEF OnItsWay, Awaited, InOrder
<1>5. Storing(f, c, st)
  OBVIOUS
<1> HIDE DEF d, f, c
<1>6. \A j \in 1..Len(d.out) : FALSE
  BY <1>3
<1>7. ASSUME Stores(f) PROVE StoreAsks(f, d) /\ Stored(f, d, st)
  <2>1. StoreAsks(f, c) /\ Stored(f, c, st)
    BY <1>1, <1>5, <1>7 DEF Storing
  <2>2. StoreAsks(f, d)
    BY <2>1, <1>3 DEF StoreAsks
  <2>3. ASSUME NEW k \in 1..Len(d.wire), IsA(d, d.wire[k], "DEFAULT")
        PROVE  (\E i \in 1..Len(d.wire) : d.wire[i].id < d.wire[k].id /\ Bad(d, d.wire[i])) \/ st = Prefix(N)
    <3>1. k \in 1..Len(c.wire) /\ k \in 1..n /\ d.wire[k] = c.wire[k] /\ IsA(c, c.wire[k], "DEFAULT")
      BY <2>3, <1>1, <1>2, <1>3 DEF IsA
    <3>2. CASE \E i \in 1..Len(c.wire) : c.wire[i].id < c.wire[k].id /\ Bad(c, c.wire[i])
      <4>1. PICK i \in 1..Len(c.wire) : c.wire[i].id < c.wire[k].id /\ Bad(c, c.wire[i])
        BY <3>2
      <4>2. c.wire[i].id \in Nat /\ c.wire[k].id \in Nat
        BY <3>1, <1>1, <1>4
      <4>3. i < k
        <5>1. ~(k < i) /\ i # k
          BY <4>1, <4>2, <3>1, <1>4
        <5> QED
          BY <5>1, <1>1, <3>1
      <4>4. i \in 1..n
        BY <4>3, <3>1, <1>1
      <4>5. i \in 1..Len(d.wire) /\ d.wire[i] = c.wire[i] /\ Bad(d, d.wire[i])
        BY <4>1, <4>4, <1>2, <1>3 DEF Bad, IsA
      <4> QED
        BY <4>1, <4>5, <3>1
    <3> QED
      BY <3>1, <3>2, <2>1 DEF Stored
  <2>4. Stored(f, d, st)
    <3>1. f.state = "DONE" => st = Prefix(N)
      BY <2>1 DEF Stored
    <3> QED
      BY <3>1, <2>3, <1>3, <1>6 DEF Stored
  <2> QED
    BY <2>2, <2>4
<1>8. Storing(f, d, st)
  BY <1>5, <1>7 DEF Storing
<1> QED
  BY <1>8 DEF d, f, c, wire

\* What is on its way when the server has answered
LEMMA AnsweredWay ==
    ASSUME NEW c \in Conn, OnItsWay(c), c.out # <<>>, NEW a, NEW handles, NEW refused, Fitting(c, a, handles, refused)
    PROVE  LET d == Answered(c, a, handles, refused) IN
           /\ d.net = c.net /\ d.on /\ d.expect = c.expect /\ 1 \in 1..Len(c.out) /\ a.id = c.out[1].id
           /\ \A j \in 1..Len(d.out) : j + 1 \in 1..Len(c.out) /\ d.out[j] = c.out[j + 1] /\ (WriteAt(d, j) <=> WriteAt(c, j + 1))
           /\ \A j \in 1..Len(c.out) : j = 1 \/ (\E i \in 1..Len(d.out) : j = i + 1)
           /\ \A k \in 1..Len(c.wire) : k \in 1..Len(d.wire) /\ d.wire[k] = c.wire[k] /\ d.wire[k].id < a.id
           /\ \A k \in 1..Len(d.wire) : k \in 1..Len(c.wire) \/ d.wire[k] = a
           /\ \E k \in 1..Len(d.wire) : d.wire[k] = a
           /\ \A x, tag : IsA(d, x, tag) <=> IsA(c, x, tag)
           /\ \A x : Bad(d, x) <=> Bad(c, x)
<1> DEFINE d == Answered(c, a, handles, refused)
<1>1. /\ d \in Conn /\ d.on = c.on /\ d.net = c.net /\ d.expect = c.expect
      /\ Len(c.out) \in Nat /\ Len(c.out) > 0 /\ Len(d.out) = Len(c.out) - 1 /\ \A i \in 1..(Len(c.out) - 1) : d.out[i] = c.out[i + 1]
      /\ Len(c.wire) \in Nat /\ Len(d.wire) = Len(c.wire) + 1 /\ d.wire[Len(c.wire) + 1] = a
      /\ \A i \in 1..Len(c.wire) : d.wire[i] = c.wire[i]
      /\ a.id = c.out[1].id
  BY AnsweredIs
<1> HIDE DEF d
<1>2. (\A x, tag : IsA(d, x, tag) <=> IsA(c, x, tag)) /\ (\A x : Bad(d, x) <=> Bad(c, x))
  BY <1>1 DEF IsA, Bad
<1>3. \A j \in 1..Len(d.out) : j + 1 \in 1..Len(c.out) /\ d.out[j] = c.out[j + 1] /\ (WriteAt(d, j) <=> WriteAt(c, j + 1))
  <2> TAKE j \in 1..Len(d.out)
  <2>1. j + 1 \in 1..Len(c.out) /\ d.out[j] = c.out[j + 1]
    BY <1>1
  <2> QED
    BY <2>1, <1>2 DEF WriteAt
<1>4. \A j \in 1..Len(c.out) : j = 1 \/ (\E i \in 1..Len(d.out) : j = i + 1)
  <2> SUFFICES ASSUME NEW j \in 1..Len(c.out), j # 1 PROVE \E i \in 1..Len(d.out) : j = i + 1
    OBVIOUS
  <2>1. j - 1 \in 1..Len(d.out) /\ j = (j - 1) + 1
    BY <1>1
  <2> QED
    BY <2>1
<1>5. 1 \in 1..Len(c.out)
  BY <1>1
<1>6. \A k \in 1..Len(c.wire) : c.wire[k].id < c.out[1].id
  BY <1>5 DEF OnItsWay, InOrder
<1>7. \A k \in 1..Len(c.wire) : k \in 1..Len(d.wire) /\ d.wire[k] = c.wire[k] /\ d.wire[k].id < a.id
  BY <1>1, <1>6
<1>8. \A k \in 1..Len(d.wire) : k \in 1..Len(c.wire) \/ d.wire[k] = a
  BY <1>1
<1>9. \E k \in 1..Len(d.wire) : d.wire[k] = a
  <2>1. Len(c.wire) + 1 \in 1..Len(d.wire)
    BY <1>1
  <2> QED
    BY <2>1, <1>1
<1>10. d.on
  BY <1>1, ConnFields
<1> HIDE DEF d
<1>11. /\ d.net = c.net /\ d.on /\ d.expect = c.expect /\ 1 \in 1..Len(c.out) /\ a.id = c.out[1].id
       /\ \A j \in 1..Len(d.out) : j + 1 \in 1..Len(c.out) /\ d.out[j] = c.out[j + 1] /\ (WriteAt(d, j) <=> WriteAt(c, j + 1))
       /\ \A j \in 1..Len(c.out) : j = 1 \/ (\E i \in 1..Len(d.out) : j = i + 1)
       /\ \A k \in 1..Len(c.wire) : k \in 1..Len(d.wire) /\ d.wire[k] = c.wire[k] /\ d.wire[k].id < a.id
       /\ \A k \in 1..Len(d.wire) : k \in 1..Len(c.wire) \/ d.wire[k] = a
       /\ \E k \in 1..Len(d.wire) : d.wire[k] = a
       /\ \A x, tag : IsA(d, x, tag) <=> IsA(c, x, tag)
       /\ \A x : Bad(d, x) <=> Bad(c, x)
  BY <1>1, <1>2, <1>3, <1>4, <1>5, <1>7, <1>8, <1>9, <1>10
<1> QED
  BY <1>11 DEF d

\* An answer that is none to a write leaves the filling of the file as it is.
LEMMA AnsweredFills ==
    ASSUME NEW c \in Conn, OnItsWay(c), c.out # <<>>, NEW a, NEW handles, NEW refused, Fitting(c, a, handles, refused),
           NEW f, NEW st, ~WriteAt(c, 1), Filling(f, c, st)
    PROVE  Filling(f, Answered(c, a, handles, refused), st)
<1> DEFINE d == Answered(c, a, handles, refused)
<1>1. /\ \A j \in 1..Len(d.out) : j + 1 \in 1..Len(c.out) /\ d.out[j] = c.out[j + 1] /\ (WriteAt(d, j) <=> WriteAt(c, j + 1))
      /\ \A j \in 1..Len(c.out) : j = 1 \/ (\E i \in 1..Len(d.out) : j = i + 1)
  BY AnsweredWay
<1> HIDE DEF d
<1>2. PICK m \in 0..f.req_pos : st = Prefix(m) /\ FillsFrom(f, c, m)
  BY DEF Filling
<1>3. \A j \in 1..Len(d.out) : WriteAt(d, j) => m <= d.out[j].req.pos
  BY <1>1, <1>2 DEF FillsFrom
<1>4. ASSUME NEW j \in 1..Len(d.out), NEW k \in 1..Len(d.out), WriteAt(d, j), WriteAt(d, k), j < k
      PROVE  d.out[j].req.pos < d.out[k].req.pos
  <2>1. j + 1 < k + 1
    BY <1>4
  <2> QED
    BY <2>1, <1>1, <1>2, <1>4 DEF FillsFrom
<1>5. ASSUME NEW p \in m..(f.req_pos - 1) PROVE \E j \in 1..Len(d.out) : WriteAt(d, j) /\ d.out[j].req.pos = p
  <2>1. PICK j \in 1..Len(c.out) : WriteAt(c, j) /\ c.out[j].req.pos = p
    BY <1>2 DEF FillsFrom
  <2>2. PICK i \in 1..Len(d.out) : j = i + 1
    BY <2>1, <1>1
  <2> QED
    BY <2>1, <2>2, <1>1
<1>6. FillsFrom(f, d, m)
  BY <1>3, <1>4, <1>5 DEF FillsFrom
<1> QED
  BY <1>2, <1>6 DEF Filling, d

\* What holds of the answers that are on their way holds when there is one more, if it holds of that one.
LEMMA AnsweredStored ==
    ASSUME NEW c \in Conn, OnItsWay(c), c.out # <<>>, NEW a, NEW handles, NEW refused, Fitting(c, a, handles, refused),
           NEW f, NEW st, NEW new, StoreAsks(f, c), Stored(f, c, st), c.net # "lost",
           new = st \/ (WriteAt(c, 1) /\ \A k \in 1..Len(c.wire) : ~IsA(c, c.wire[k], "DEFAULT")),
           f.buf.on => (\E i \in 1..Len(c.wire) : Bad(c, c.wire[i])) \/ Bad(c, a) \/ Filling(f, Answered(c, a, handles, refused), new),
           IsA(c, a, "DEFAULT") => (\E i \in 1..Len(c.wire) : Bad(c, c.wire[i])) \/ new = Prefix(N)
    PROVE  LET d == Answered(c, a, handles, refused) IN StoreAsks(f, d) /\ Stored(f, d, new)
<1> DEFINE d == Answered(c, a, handles, refused)
<1>1. /\ d.net = c.net /\ d.on /\ d.expect = c.expect /\ 1 \in 1..Len(c.out)
      /\ \A j \in 1..Len(d.out) : j + 1 \in 1..Len(c.out) /\ d.out[j] = c.out[j + 1] /\ (WriteAt(d, j) <=> WriteAt(c, j + 1))
      /\ \A k \in 1..Len(c.wire) : k \in 1..Len(d.wire) /\ d.wire[k] = c.wire[k] /\ d.wire[k].id < a.id
      /\ \A k \in 1..Len(d.wire) : k \in 1..Len(c.wire) \/ d.wire[k] = a
      /\ \E k \in 1..Len(d.wire) : d.wire[k] = a
      /\ \A x, tag : IsA(d, x, tag) <=> IsA(c, x, tag)
      /\ \A x : Bad(d, x) <=> Bad(c, x)
  BY AnsweredWay
<1>f. f.buf.on => (\E i \in 1..Len(c.wire) : Bad(c, c.wire[i])) \/ Bad(c, a) \/ Filling(f, d, new)
  OBVIOUS
<1> HIDE DEF d
<1>2. StoreAsks(f, d)
  BY <1>1 DEF StoreAsks
<1>3. f.buf.on /\ d.net # "lost" => (\E i \in 1..Len(d.wire) : Bad(d, d.wire[i])) \/ Filling(f, d, new)
  BY <1>1, <1>f
<1>4. ASSUME NEW k \in 1..Len(d.wire), IsA(d, d.wire[k], "DEFAULT")
      PROVE  (\E i \in 1..Len(d.wire) : d.wire[i].id < d.wire[k].id /\ Bad(d, d.wire[i])) \/ new = Prefix(N)
  <2>1. CASE k \in 1..Len(c.wire)
    <3>1. IsA(c, c.wire[k], "DEFAULT") /\ d.wire[k] = c.wire[k]
      BY <2>1, <1>1, <1>4
    <3>2. (\E i \in 1..Len(c.wire) : c.wire[i].id < c.wire[k].id /\ Bad(c, c.wire[i])) \/ st = Prefix(N)
      BY <2>1, <3>1 DEF Stored
    <3>3. new = st
      BY <2>1, <3>1
    <3> QED
      BY <3>1, <3>2, <3>3, <1>1
  <2>2. CASE d.wire[k] = a
    BY <2>2, <1>1, <1>4
  <2> QED
    BY <2>1, <2>2, <1>1
<1>5. f.state = "DONE" => new = Prefix(N) /\ \A j \in 1..Len(d.out) : ~WriteAt(d, j)
  <2>1. f.state = "DONE" => st = Prefix(N) /\ \A j \in 1..Len(c.out) : ~WriteAt(c, j)
    BY DEF Stored
  <2>2. f.state = "DONE" => new = st
    BY <2>1, <1>1
  <2> QED
    BY <2>1, <2>2, <1>1
<1>6. Stored(f, d, new)
  BY <1>3, <1>4, <1>5 DEF Stored
<1> QED
  BY <1>2, <1>6 DEF d

\* An answer to something else than a write or the CLOSE behind them
LEMMA AnsweredOther ==
    ASSUME NEW c \in Conn, OnItsWay(c), c.out # <<>>, NEW a, NEW handles, NEW refused, Fitting(c, a, handles, refused),
           NEW f, NEW st, StoreAsks(f, c), Stored(f, c, st), c.net # "lost", c.expect[c.out[1].id].tag \notin {"WRITE_STATUS", "DEFAULT"}
    PROVE  LET d == Answered(c, a, handles, refused) IN StoreAsks(f, d) /\ Stored(f, d, st)
<1>1. ~WriteAt(c, 1) /\ ~IsA(c, a, "DEFAULT")
  BY AnsweredWay DEF WriteAt, IsA
<1>2. f.buf.on => (\E i \in 1..Len(c.wire) : Bad(c, c.wire[i])) \/ Filling(f, Answered(c, a, handles, refused), st)
  BY <1>1, AnsweredFills DEF Stored
<1> QED
  BY <1>1, <1>2, AnsweredStored

\* The answer to CLOSE: no write is on its way any more, so unless one has failed all are stored.
LEMMA AnsweredClose ==
    ASSUME NEW c \in Conn, OnItsWay(c), c.out # <<>>, NEW a, NEW handles, NEW refused, Fitting(c, a, handles, refused),
           NEW f \in Ses, NEW st, Sending(f), StoreAsks(f, c), Stored(f, c, st), c.net # "lost", c.expect[c.out[1].id].tag = "DEFAULT", f.buf.on
    PROVE  LET d == Answered(c, a, handles, refused) IN StoreAsks(f, d) /\ Stored(f, d, st)
<1>1. ~WriteAt(c, 1) /\ a.id = c.out[1].id /\ 1 \in 1..Len(c.out)
  BY AnsweredWay DEF WriteAt, IsA
<1>2. f.buf.on => (\E i \in 1..Len(c.wire) : Bad(c, c.wire[i])) \/ Filling(f, Answered(c, a, handles, refused), st)
  BY <1>1, AnsweredFills DEF Stored
<1>3. /\ \A j \in 1..Len(c.out) : c.out[j].id \in DOMAIN c.expect
      /\ \A j, k \in 1..Len(c.out) : j < k => c.out[j].id < c.out[k].id
      /\ DOMAIN c.expect \subseteq Nat
  BY ConnFields, QueueHas DEF OnItsWay, Awaited, InOrder
<1>4. \A j \in 1..Len(c.out) : ~WriteAt(c, j)
  <2> SUFFICES ASSUME NEW j \in 1..Len(c.out), WriteAt(c, j) PROVE FALSE
    OBVIOUS
  <2>1. c.out[j].id < c.out[1].id
    BY <1>1, <1>3 DEF StoreAsks, WriteAt, IsA
  <2>2. j # 1 /\ 1 < j
    BY <1>1
  <2>3. c.out[1].id < c.out[j].id
    BY <2>2, <1>1, <1>3
  <2>4. c.out[1].id \in Nat /\ c.out[j].id \in Nat
    BY <1>1, <1>3
  <2> QED
    BY <2>1, <2>3, <2>4
<1>5. ASSUME Filling(f, c, st) PROVE st = Prefix(N)
  <2>1. PICK m \in 0..f.req_pos : st = Prefix(m) /\ FillsFrom(f, c, m)
    BY <1>5 DEF Filling
  <2>2. f.req_pos \in Nat /\ f.pos \in Nat
    BY SesFields
  <2>3. f.state # "FILE_SEND"
    BY <1>1, <1>3 DEF StoreAsks, Asked
  <2>4. f.eof /\ f.buf.data = <<>> /\ f.req_pos + Len(f.buf.data) = f.pos /\ f.pos = N
    BY <2>3 DEF Sending
  <2>5. f.req_pos = N
    <3>1. Len(f.buf.data) = 0
      BY <2>4
    <3> QED
      BY <3>1, <2>2, <2>4
  <2>6. \A p \in m..(f.req_pos - 1) : FALSE
    BY <2>1, <1>4 DEF FillsFrom
  <2>7. m = f.req_pos
    <3> SUFFICES ASSUME m # f.req_pos PROVE FALSE
      OBVIOUS
    <3>1. m \in m..(f.req_pos - 1)
      BY <2>2
    <3> QED
      BY <3>1, <2>6
  <2> QED
    BY <2>1, <2>5, <2>7
<1>6. (\E i \in 1..Len(c.wire) : Bad(c, c.wire[i])) \/ st = Prefix(N)
  BY <1>5 DEF Stored
<1> QED
  BY <1>2, <1>6, AnsweredStored

\* A write that is refused
LEMMA AnsweredRefused ==
    ASSUME NEW c \in Conn, OnItsWay(c), c.out # <<>>, NEW a, NEW handles, NEW refused, Fitting(c, a, handles, refused),
           NEW f, NEW st, StoreAsks(f, c), Stored(f, c, st), c.net # "lost", WriteAt(c, 1), ~(a.t = "status" /\ a.code = "ok")
    PROVE  LET d == Answered(c, a, handles, refused) IN StoreAsks(f, d) /\ Stored(f, d, st)
<1>1. a.id = c.out[1].id
  BY AnsweredWay
<1>2. Bad(c, a) /\ ~IsA(c, a, "DEFAULT")
  BY <1>1 DEF Bad, WriteAt, IsA
<1> QED
  BY <1>2, AnsweredStored

\* A byte written at the end of what is there
LEMMA WriteNext == \A m \in Nat : Write(Prefix(m), m, m) = Prefix(m + 1)
<1> SUFFICES ASSUME NEW m \in Nat PROVE Write(Prefix(m), m, m) = Prefix(m + 1)
  OBVIOUS
<1> DEFINE s == Prefix(m)
<1>1. Len(s) = m /\ \A i \in 1..m : s[i] = i - 1
  <2>1. s = [i \in 1..m |-> i - 1]
    BY DEF Prefix
  <2>2. \A i \in 1..m : i - 1 \in Int
    OBVIOUS
  <2>3. s \in [1..m -> Int] /\ DOMAIN s = 1..m
    BY <2>1, <2>2
  <2>4. s \in Seq(Int)
    BY <2>3
  <2>5. DOMAIN s = 1..Len(s) /\ Len(s) \in Nat
    BY <2>4, LenProperties
  <2>6. Len(s) = m
    BY <2>3, <2>5
  <2> QED
    BY <2>1, <2>6
<1> HIDE DEF s
<1>2. (IF m < Len(s) THEN Len(s) ELSE m + 1) = m + 1
  BY <1>1
<1>3. \A i \in 1..(m + 1) : (IF i = m + 1 THEN m ELSE IF i <= Len(s) THEN s[i] ELSE -1) = i - 1
  BY <1>1
<1>4. Write(s, m, m) = [i \in 1..(m + 1) |-> IF i = m + 1 THEN m ELSE IF i <= Len(s) THEN s[i] ELSE -1]
  BY <1>2, Zenon DEF Write
<1> QED
  BY <1>3, <1>4 DEF Prefix, s

\* A write that is granted: it is the next, so the server has one byte more of the file.
LEMMA AnsweredWrite ==
    ASSUME NEW c \in Conn, OnItsWay(c), c.out # <<>>, NEW a, NEW handles, NEW refused, Fitting(c, a, handles, refused),
           NEW f \in Ses, NEW st, NEW new, StoreAsks(f, c), Stored(f, c, st), c.net # "lost", WriteAt(c, 1),
           new = Write(st, c.out[1].req.pos, c.out[1].req.n)
    PROVE  LET d == Answered(c, a, handles, refused) IN StoreAsks(f, d) /\ Stored(f, d, new)
<1> DEFINE d == Answered(c, a, handles, refused)
<1>1. /\ a.id = c.out[1].id /\ 1 \in 1..Len(c.out)
      /\ \A j \in 1..Len(d.out) : j + 1 \in 1..Len(c.out) /\ d.out[j] = c.out[j + 1] /\ (WriteAt(d, j) <=> WriteAt(c, j + 1))
      /\ \A j \in 1..Len(c.out) : j = 1 \/ (\E i \in 1..Len(d.out) : j = i + 1)
  BY AnsweredWay
<1> HIDE DEF d
<1>2. ~IsA(c, a, "DEFAULT")
  BY <1>1 DEF WriteAt, IsA
<1>3. /\ \A j \in 1..Len(c.out) : c.out[j].id \in DOMAIN c.expect /\ c.expect[c.out[j].id].req = c.out[j].req
      /\ \A j \in 1..Len(c.wire) : c.wire[j].id \in DOMAIN c.expect
      /\ \A j \in 1..Len(c.wire), k \in 1..Len(c.out) : c.wire[j].id < c.out[k].id
      /\ c.expect \in Queue /\ DOMAIN c.expect \subseteq Nat
  BY ConnFields, QueueHas DEF OnItsWay, Awaited, InOrder
<1>4. ASSUME NEW k \in 1..Len(c.wire), IsA(c, c.wire[k], "DEFAULT") PROVE FALSE
  <2>1. c.out[1].id < c.wire[k].id
    BY <1>1, <1>3, <1>4 DEF StoreAsks, WriteAt, IsA
  <2>2. c.wire[k].id < c.out[1].id
    BY <1>1, <1>3
  <2>3. c.wire[k].id \in Nat /\ c.out[1].id \in Nat
    BY <1>1, <1>3
  <2> QED
    BY <2>1, <2>2, <2>3
<1>5. /\ c.out[1].req.n = c.out[1].req.pos /\ c.out[1].req.pos < f.req_pos /\ f.req_pos \in Nat
      /\ \A j \in 1..Len(c.out) : c.out[j].req.pos \in Nat
  <2>1. Asked(f, c.expect[c.out[1].id])
    BY <1>1, <1>3 DEF StoreAsks
  <2>2. f.req_pos \in Nat
    BY SesFields
  <2>3. ASSUME NEW j \in 1..Len(c.out) PROVE c.out[j].req.pos \in Nat
    <3>1. c.expect[c.out[j].id] \in Expected
      BY <1>3, QueueHas
    <3>2. c.out[j].req \in Req
      BY <3>1, <1>3 DEF Expected
    <3> QED
      BY <3>2, ReqFields
  <2> QED
    BY <2>1, <2>2, <2>3, <1>1, <1>3 DEF Asked, WriteAt, IsA
<1>6. ASSUME Filling(f, c, st) PROVE Filling(f, d, new)
  <2> DEFINE q == c.out[1].req
  <2>1. PICK m \in 0..f.req_pos : st = Prefix(m) /\ FillsFrom(f, c, m)
    BY <1>6 DEF Filling
  <2>2. m <= q.pos /\ q.pos \in Nat /\ m \in Nat
    BY <2>1, <1>1, <1>5 DEF FillsFrom
  <2>3. q.pos = m
    <3>1. m \in m..(f.req_pos - 1)
      BY <2>2, <1>5
    <3>2. PICK j \in 1..Len(c.out) : WriteAt(c, j) /\ c.out[j].req.pos = m
      BY <3>1, <2>1 DEF FillsFrom
    <3>3. CASE j = 1
      BY <3>2, <3>3
    <3>4. CASE j # 1
      <4>1. 1 < j
        BY <3>4
      <4>2. q.pos < m
        BY <4>1, <3>2, <2>1, <1>1 DEF FillsFrom
      <4> QED
        BY <4>2, <2>2
    <3> QED
      BY <3>3, <3>4
  <2>4. new = Prefix(m + 1) /\ m + 1 \in 0..f.req_pos
    <3>1. m + 1 \in 0..f.req_pos
      BY <2>2, <2>3, <1>5
    <3>2. c.out[1].req.n = m /\ c.out[1].req.pos = m /\ st = Prefix(m)
      BY <2>1, <2>3, <1>5
    <3>3. new = Write(Prefix(m), m, m)
      BY <3>2, Zenon
    <3> QED
      BY <3>1, <3>3, <2>2, WriteNext
  <2>5. ASSUME NEW j \in 1..Len(d.out), WriteAt(d, j) PROVE m + 1 <= d.out[j].req.pos
    <3>1. 1 < j + 1 /\ j + 1 \in 1..Len(c.out) /\ d.out[j] = c.out[j + 1] /\ WriteAt(c, j + 1)
      BY <2>5, <1>1
    <3>2. q.pos < c.out[j + 1].req.pos
      BY <3>1, <2>1, <1>1 DEF FillsFrom
    <3> QED
      BY <3>1, <3>2, <2>2, <2>3, <1>5
  <2>6. ASSUME NEW j \in 1..Len(d.out), NEW k \in 1..Len(d.out), WriteAt(d, j), WriteAt(d, k), j < k
        PROVE  d.out[j].req.pos < d.out[k].req.pos
    <3>1. j + 1 < k + 1
      BY <2>6
    <3> QED
      BY <3>1, <1>1, <2>1, <2>6 DEF FillsFrom
  <2>7. ASSUME NEW p \in (m + 1)..(f.req_pos - 1) PROVE \E j \in 1..Len(d.out) : WriteAt(d, j) /\ d.out[j].req.pos = p
    <3>1. p \in m..(f.req_pos - 1) /\ p # m
      BY <2>2, <1>5
    <3>2. PICK j \in 1..Len(c.out) : WriteAt(c, j) /\ c.out[j].req.pos = p
      BY <3>1, <2>1 DEF FillsFrom
    <3>3. PICK i \in 1..Len(d.out) : j = i + 1
      BY <3>1, <3>2, <2>3, <1>1
    <3> QED
      BY <3>2, <3>3, <1>1
  <2>8. FillsFrom(f, d, m + 1)
    BY <2>5, <2>6, <2>7 DEF FillsFrom
  <2> QED
    BY <2>4, <2>8 DEF Filling
<1>7. f.buf.on => (\E i \in 1..Len(c.wire) : Bad(c, c.wire[i])) \/ Filling(f, d, new)
  BY <1>6 DEF Stored
<1> QED
  BY <1>2, <1>4, <1>7, AnsweredStored DEF d

\* What the server makes of the file of a session as it answers the request q
Becomes(f, st, q) ==
    CASE q.k = "CREATE" /\ q.for = f.file /\ q.pos = 0 -> <<>>
      [] q.k = "WRITE" /\ q.for = f.file -> Write(st, q.pos, q.n)
      [] OTHER -> st

\* An answer of the server: what was asked for operations that have been closed does not touch the file.
LEMMA AnsweredStoring ==
    ASSUME NEW w, Good(w), w.c \in Conn, w.c.out # <<>>, w.c.net # "lost", NEW a, NEW handles, NEW refused,
           Fitting(w.c, a, handles, refused), NEW F, Mine(w.f.file, w.c, F), w.f.mode # "CLOSED" => w.f.file \notin F,
           NEW st, Storing(w.f, w.c, st), NEW new,
           new = Becomes(w.f, st, Head(w.c.out).req) \/ (new = st /\ ~(a.t = "status" /\ a.code = "ok"))
    PROVE  Storing(w.f, Answered(w.c, a, handles, refused), new)
<1> DEFINE c == w.c  f == w.f  d == Answered(w.c, a, handles, refused)  q == c.out[1].req  e == c.expect[c.out[1].id]
<1>1. /\ f \in Ses /\ OnItsWay(c) /\ Expects(f, c) /\ Session(w) /\ c.on
  BY OnIsConn, ConnFields DEF Good, Whole, Joint
<1>2. 1 \in 1..Len(c.out) /\ a.id = c.out[1].id /\ d.on
  BY <1>1, AnsweredWay
<1>3. Head(c.out) = c.out[1]
  <2> DEFINE s == c.out
  <2>1. s \in Seq(Sent) /\ s # <<>>
    BY ConnFields
  <2> HIDE DEF s
  <2>2. Head(s) = s[1]
    BY <2>1
  <2> QED
    BY <2>2 DEF s
<1>4. c.out[1].id \in DOMAIN c.expect /\ e.req = q /\ e.tag \in Tag
  <2>1. c.out[1].id \in DOMAIN c.expect /\ e.req = q
    BY <1>1, <1>2 DEF OnItsWay, Awaited
  <2>2. e \in Expected
    BY <2>1, ConnFields, QueueHas
  <2> HIDE DEF e
  <2> QED
    BY <2>1, <2>2 DEF Expected
<1>m. q.k \in Changes => IF e.tag \in {"IGNORE", "STALE"} THEN q.for \in F ELSE q.for = f.file
  BY <1>1, <1>4 DEF Mine
<1>s. /\ Storing(f, c, st) /\ (f.mode # "CLOSED" => f.file \notin F)
      /\ new = Becomes(f, st, q) \/ (new = st /\ ~(a.t = "status" /\ a.code = "ok"))
  BY <1>3
<1>5. Fits(f, e)
  BY <1>1, <1>4 DEF Expects
<1>a. WriteAt(c, 1) <=> e.tag = "WRITE_STATUS"
  BY DEF WriteAt, IsA
<1> HIDE DEF q, e, f
<1>6. CASE ~Stores(f)
  BY <1>6, <1>s DEF Storing, d, f
<1>7. CASE Stores(f)
  <2>1. /\ f.mode = "STORE" /\ f.file \notin F /\ Sending(f) /\ StoreAsks(f, c) /\ Stored(f, c, st)
        /\ (~f.buf.on => st = Prefix(f.pos))
    BY <1>1, <1>7, <1>s DEF Storing, Stores
  <2>2. Asked(f, e)
    BY <2>1, <1>4 DEF StoreAsks, e
  <2>3. ASSUME e.tag \notin {"WRITE_STATUS", "DEFAULT"} PROVE new = st
    <3>1. CASE e.tag \in {"IGNORE", "STALE"}
      BY <3>1, <2>1, <1>m, <1>s DEF Becomes, Changes
    <3>2. CASE e.tag = "HANDLE"
      <4>1. q.k = "CREATE" /\ q.pos = f.pos /\ ~f.buf.on
        BY <3>2, <2>2, <1>4, <1>5 DEF Asked, Fits
      <4>2. st = Prefix(f.pos)
        BY <4>1, <2>1
      <4>3. Prefix(0) = <<>>
        <5>1. Prefix(0) \in Seq(Int) /\ Len(Prefix(0)) = 0
          <6>1. Prefix(0) \in [1..0 -> Int]
            BY DEF Prefix
          <6>2. Prefix(0) \in Seq(Int) /\ DOMAIN Prefix(0) = 1..0
            BY <6>1
          <6>3. Len(Prefix(0)) \in Nat /\ DOMAIN Prefix(0) = 1..Len(Prefix(0))
            BY <6>2, LenProperties
          <6> QED
            BY <6>2, <6>3
        <5> QED
          BY <5>1, EmptySeq
      <4>4. Becomes(f, st, q) = st
        BY <4>1, <4>2, <4>3 DEF Becomes
      <4> QED
        BY <4>4, <1>s
    <3>3. CASE e.tag \in {"DATA", "INFO"}
      BY <3>3, <2>1, <1>5 DEF Fits
    <3> QED
      BY <3>1, <3>2, <3>3, <2>3, <1>4 DEF Tag
  <2>4. ASSUME e.tag = "DEFAULT" PROVE new = st /\ f.buf.on
    <3>1. q.k = "CLOSE" /\ f.buf.on
      BY <2>4, <2>1, <1>4, <1>5 DEF Fits
    <3> QED
      BY <3>1, <1>s DEF Becomes
  <2>5. ASSUME e.tag = "WRITE_STATUS" PROVE f.buf.on /\ (new = Write(st, q.pos, q.n) \/ (new = st /\ ~(a.t = "status" /\ a.code = "ok")))
    <3>1. q.k = "WRITE" /\ f.buf.on /\ q.for = f.file
      BY <2>2, <2>5, <1>4, <1>5, <1>m DEF Fits, Asked, Changes
    <3> QED
      BY <3>1, <1>s DEF Becomes
  <2>6. StoreAsks(f, d) /\ Stored(f, d, new)
    <3>1. CASE e.tag \notin {"WRITE_STATUS", "DEFAULT"}
      <4>1. StoreAsks(f, d) /\ Stored(f, d, st)
        BY <3>1, <2>1, <1>1, AnsweredOther DEF e
      <4> QED
        BY <4>1, <3>1, <2>3
    <3>2. CASE e.tag = "DEFAULT"
      <4>1. StoreAsks(f, d) /\ Stored(f, d, st)
        BY <3>2, <2>1, <2>4, <1>1, AnsweredClose DEF e
      <4> QED
        BY <4>1, <3>2, <2>4
    <3>3. CASE e.tag = "WRITE_STATUS" /\ new = Write(st, q.pos, q.n)
      BY <3>3, <2>1, <1>1, <1>a, AnsweredWrite DEF q
    <3>4. CASE e.tag = "WRITE_STATUS" /\ new = st /\ ~(a.t = "status" /\ a.code = "ok")
      BY <3>4, <2>1, <1>1, <1>a, AnsweredRefused
    <3> QED
      BY <3>1, <3>2, <3>3, <3>4, <2>5
  <2>7. ~f.buf.on => new = Prefix(f.pos)
    BY <2>1, <2>3, <2>4, <2>5
  <2> HIDE DEF d
  <2>8. f.mode = "CLOSED" => ~f.eof
    BY <2>1
  <2>9. Storing(f, d, new)
    BY <2>1, <2>6, <2>7, <2>8 DEF Storing
  <2> QED
    BY <2>9 DEF d, f
<1> QED
  BY <1>6, <1>7

\* An answer asks for nothing.
LEMMA AnsweredAdds ==
    ASSUME NEW c \in Conn, OnItsWay(c), c.out # <<>>, NEW a, NEW handles, NEW refused, Fitting(c, a, handles, refused), NEW file
    PROVE  Adds(file, c, Answered(c, a, handles, refused))
<1>1. Answered(c, a, handles, refused).expect = c.expect /\ c.on
  BY AnsweredWay, ConnFields
<1> QED
  BY <1>1 DEF Adds

-----------------------------------------------------------------------------
(* What users do, and a connection that is made or taken over.             *)

\* An operation that has not begun has nothing on its way, and its file is what it was when it was opened.
LEMMA RestStoring ==
    ASSUME NEW w, Good(w), AtRest(w.f), w.f.mode # "CLOSED", NEW st, Stores(w.f) => ~w.f.eof /\ st = Prefix(w.f.pos)
    PROVE  Storing(w.f, w.c, st)
<1>1. w \in World /\ w.f \in Ses /\ ~w.f.buf.on /\ (w.c.on => w.c \in Conn)
  BY OnIsConn DEF Good, Whole, Session, Phase
<1>2. CASE ~Stores(w.f)
  BY <1>2, StoringNot
<1>3. CASE Stores(w.f)
  <2>1. w.f.mode = "STORE" /\ ~w.f.eof /\ st = Prefix(w.f.pos) /\ w.f.state # "DONE"
    BY <1>3 DEF Stores, AtRest
  <2>2. Sending(w.f)
    BY <1>1, <2>1 DEF Sending
  <2>3. w.c.on => /\ \A i \in DOMAIN w.c.expect : w.c.expect[i].tag \notin {"WRITE_STATUS", "DEFAULT"}
                  /\ \A j \in 1..Len(w.c.out) : ~WriteAt(w.c, j)
                  /\ \A k \in 1..Len(w.c.wire) : ~IsA(w.c, w.c.wire[k], "DEFAULT")
    BY <1>1, <2>1, NothingSent DEF Good
  <2>4. w.c.on => \A i \in DOMAIN w.c.expect : w.c.expect[i].tag # "HANDLE"
    BY DEF Good, Whole, Joint
  <2> QED
    BY <1>1, <1>3, <2>1, <2>2, <2>3, <2>4, StoringNothing
<1> QED
  BY <1>2, <1>3

\* The file of one that has not begun
LEMMA StoringRest ==
    ASSUME NEW w, Good(w), AtRest(w.f), NEW st, Storing(w.f, w.c, st), Stores(w.f)
    PROVE  ~w.f.eof /\ st = Prefix(w.f.pos)
<1>1. ~w.f.buf.on
  BY DEF Good, Whole, Session, Phase
<1> QED
  BY <1>1 DEF Storing, Stores, Sending

\* Write: the byte that is put into the buffer is the next one of the file.
LEMMA WritesStoring ==
    ASSUME NEW w, Good(w), w.f.mode = "STORE", w.f.error = "OK", w.f.state = "FILE_SEND", ~w.f.eof, NEW x \in File \X Nat, x[2] = w.f.pos,
           NEW data, data = Append(w.f.buf.data, x), NEW to, to = w.f.pos + 1, NEW st, Storing(w.f, w.c, st)
    PROVE  Storing([[w.f EXCEPT !.pos = to] EXCEPT !.buf = [w.f.buf EXCEPT !.data = data]], w.c, st)
<1> DEFINE b == [w.f.buf EXCEPT !.data = data]  g == [[w.f EXCEPT !.pos = to] EXCEPT !.buf = b]  f == w.f  c == w.c  old == w.f.buf.data
<1>1. w \in World /\ f \in Ses /\ Session(w) /\ f.buf.on /\ f.buf \in Buf /\ old \in Seq(File \X Nat) /\ f.pos \in Nat /\ f.req_pos \in Nat
  BY OnIsConn, SesFields DEF Good, Whole, Session, Phase
<1>2. c \in Conn /\ Expects(f, c) /\ c.on
  <2>1. c \in Conn
    BY <1>1, BufHasConn
  <2> QED
    BY <2>1, ConnFields DEF Good, Whole, Joint
<1>3. b.on = f.buf.on /\ b.data = data
  BY <1>1, Zenon DEF Buf
<1> HIDE DEF b
<1>4. /\ g.mode = f.mode /\ g.error = f.error /\ g.eof = f.eof /\ g.state = f.state /\ g.req_pos = f.req_pos /\ g.pos = to /\ g.buf = b
  BY <1>1, Zenon DEF Ses
<1> HIDE DEF g
<1>5. Sending(f) /\ StoreAsks(f, c) /\ Stored(f, c, st)
  BY <1>2 DEF Storing, Stores
<1>6. f.mode = "STORE" /\ f.error = "OK" /\ f.state = "FILE_SEND" /\ ~f.eof /\ x[2] = f.pos /\ to = f.pos + 1
  OBVIOUS
<1>7. /\ Len(old) \in Nat /\ Len(data) = Len(old) + 1 /\ data[Len(old) + 1] = x
      /\ \A k \in 1..Len(old) : data[k] = old[k]
  <2> DEFINE S == File \X Nat
  <2>1. x \in S /\ old \in Seq(S) /\ data = Append(old, x)
    BY <1>1
  <2> HIDE DEF S, old
  <2> QED
    BY <2>1, AppendProperties, LenProperties
<1> HIDE DEF f, c
<1>8. Sending(g)
  <2>1. f.req_pos + Len(old) = f.pos /\ \A k \in 1..Len(old) : old[k][2] = f.req_pos + k - 1
    BY <1>1, <1>5 DEF Sending, f
  <2> HIDE DEF old
  <2>2. f.req_pos + Len(data) = to
    BY <1>1, <1>6, <1>7, <2>1
  <2>3. ASSUME NEW k \in 1..Len(data) PROVE data[k][2] = f.req_pos + k - 1
    <3>1. CASE k = Len(old) + 1
      BY <3>1, <1>1, <1>6, <1>7, <2>1
    <3>2. CASE k # Len(old) + 1
      <4>1. k \in 1..Len(old)
        BY <3>2, <1>7
      <4> QED
        BY <4>1, <1>7, <2>1
    <3> QED
      BY <3>1, <3>2
  <2> QED
    BY <2>2, <2>3, <1>1, <1>3, <1>4, <1>6 DEF Sending
<1>9. StoreAsks(g, c)
  <2>1. ASSUME NEW i \in DOMAIN c.expect PROVE Asked(g, c.expect[i])
    <3>1. Asked(f, c.expect[i]) /\ c.expect[i].tag # "HANDLE"
      BY <1>2, <1>5, <1>6 DEF StoreAsks, Expects, Fits
    <3> QED
      BY <3>1, <1>4 DEF Asked
  <2> QED
    BY <2>1, <1>5 DEF StoreAsks
<1>10. Stored(g, c, st)
  <2>1. Filling(g, c, st) <=> Filling(f, c, st)
    BY <1>4 DEF Filling, FillsFrom
  <2> QED
    BY <2>1, <1>3, <1>4, <1>5, <1>6 DEF Stored
<1>11. Storing(g, c, st)
  BY <1>1, <1>3, <1>4, <1>6, <1>8, <1>9, <1>10 DEF Storing, Stores
<1> QED
  BY <1>11 DEF g, b, c, f

\* StoreStatus notes the end, where the file ends.
LEMMA EndsStoring ==
    ASSUME NEW f \in Ses, f.mode = "STORE", f.state = "FILE_SEND", f.buf.on, f.pos = N, NEW c, NEW st, Storing(f, c, st)
    PROVE  Storing([f EXCEPT !.eof = TRUE], c, st)
<1> DEFINE g == [f EXCEPT !.eof = TRUE]
<1>1. /\ g.mode = f.mode /\ g.error = f.error /\ g.eof /\ g.state = f.state /\ g.req_pos = f.req_pos /\ g.pos = f.pos /\ g.buf = f.buf
  BY Zenon DEF Ses
<1> HIDE DEF g
<1>2. ASSUME ~Stores(f) PROVE Storing(g, c, st)
  BY <1>1, <1>2, StoringNot DEF Stores
<1>3. ASSUME Stores(f) PROVE Storing(g, c, st)
  <2>1. Sending(f) /\ (c.on => StoreAsks(f, c) /\ Stored(f, c, st))
    BY <1>3 DEF Storing
  <2>2. Sending(g)
    BY <1>1, <2>1 DEF Sending
  <2>3. c.on => StoreAsks(g, c)
    BY <1>1, <2>1 DEF StoreAsks, Asked
  <2>4. Filling(g, c, st) <=> Filling(f, c, st)
    BY <1>1 DEF Filling, FillsFrom
  <2>5. c.on => Stored(g, c, st)
    BY <1>1, <2>1, <2>4 DEF Stored
  <2> QED
    BY <1>1, <2>2, <2>3, <2>5 DEF Storing, Stores
<1>4. Storing(g, c, st)
  BY <1>2, <1>3
<1> QED
  BY <1>4 DEF g

\* Open begins a store with the part of the file that is there already.
LEMMA OpensStoring ==
    ASSUME NEW w, Good(w), w.f.mode = "CLOSED", NEW mode \in {"RETRIEVE", "STORE", "REMOVE", "ARRAY_INFO"},
           NEW file \in File, NEW at \in 0..N, NEW st, Storing(w.f, w.c, st)
    PROVE  Storing(Opened(w.f, mode, file, at), w.c, Prefix(at))
<1> DEFINE g == Opened(w.f, mode, file, at)  v == [f |-> g, c |-> w.c]
<1>1. Good(v) /\ g.mode = mode /\ g.file = file /\ g.pos = at
  BY OpenGood
<1>2. g.state = w.f.state /\ g.eof = w.f.eof
  BY OnIsConn, Zenon DEF Good, Whole, Ses, Opened
<1> HIDE DEF g
<1>3. v.f = g /\ v.c = w.c
  BY Zenon
<1> HIDE DEF v
<1>4. ~w.f.eof /\ w.f.state \in {"CONNECTED", "DISCONNECTED"}
  BY DEF Storing, Good, Whole, Session, Phase
<1>5. AtRest(v.f) /\ v.f.mode # "CLOSED"
  BY <1>1, <1>2, <1>3, <1>4 DEF AtRest
<1>6. Storing(v.f, v.c, Prefix(at))
  BY <1>1, <1>2, <1>3, <1>4, <1>5, RestStoring
<1> QED
  BY <1>3, <1>6 DEF g

\* Close: the session has nothing to store,
LEMMA CloseStoring ==
    ASSUME NEW w, Good(w), NEW st
    PROVE  Storing(CloseSession(w).f, CloseSession(w).c, st)
<1> DEFINE v == IF w.f.state = "CONNECTING" THEN Disconnect(w) ELSE w
           u == IF v.c.on THEN CloseHandle([v EXCEPT !.c = CloseExpectQueue(v.c)], "IGNORE") ELSE v
           h == [NewSession EXCEPT !.state = IF u.c.on THEN "CONNECTED" ELSE "DISCONNECTED", !.slow = u.f.slow, !.req_pos = u.f.req_pos]
           z == CloseSession(w)
<1>1. z = [u EXCEPT !.f = h]
  BY Zenon DEF CloseSession
<1>2. h.eof = FALSE /\ h.mode = "CLOSED"
  BY DEF NewSession
<1>3. Good(z)
  BY CloseSessionGood
<1> HIDE DEF h, u, z
<1>4. z.f = h
  <2>1. z = [f |-> z.f, c |-> z.c]
    BY <1>3 DEF Good, Whole, World
  <2>2. "f" \in DOMAIN z
    BY <2>1
  <2>3. DOMAIN z = DOMAIN u
    BY <1>1
  <2> QED
    BY <1>1, <2>2, <2>3
<1> QED
  BY <1>2, <1>4 DEF Storing, Stores, z

\* and what has been asked of its file is from now on for nobody.
LEMMA CloseMine ==
    ASSUME NEW w, Good(w), NEW F, Mine(w.f.file, w.c, F), NEW G, F \subseteq G, w.f.file \in G, NEW file
    PROVE  Mine(file, CloseSession(w).c, G)
<1> DEFINE v == IF w.f.state = "CONNECTING" THEN Disconnect(w) ELSE w
           expect == [i \in DOMAIN v.c.expect |-> [req |-> v.c.expect[i].req, tag |-> TagWhenClosed(v.c.expect[i].tag)]]
           c == [v.c EXCEPT !.expect = expect]
           x == [v EXCEPT !.c = CloseExpectQueue(v.c)]
           y == CloseHandle(x, "IGNORE")
           u == IF v.c.on THEN CloseHandle(x, "IGNORE") ELSE v
           state == IF u.c.on THEN "CONNECTED" ELSE "DISCONNECTED"
           h == [NewSession EXCEPT !.state = state, !.slow = u.f.slow, !.req_pos = u.f.req_pos]
           z == CloseSession(w)
<1>1. z = [u EXCEPT !.f = h]
  BY Zenon DEF CloseSession
<1>2. v.f.file = w.f.file /\ v \in World /\ Mine(w.f.file, v.c, F) /\ Good(v)
  <2>1. CASE w.f.state = "CONNECTING"
    <3>1. v = Disconnect(w)
      BY <2>1, Zenon
    <3>2. Leads(w, Disconnect(w), {}, {})
      BY DisconnectLeads DEF Good, Whole, Session
    <3>3. Disconnect(w).c = NoConn
      BY DEF Disconnect
    <3> HIDE DEF v
    <3> QED
      BY <3>1, <3>2, <3>3 DEF Leads, Good, Whole, Mine, NoConn
  <2>2. CASE w.f.state # "CONNECTING"
    <3>1. v = w
      BY <2>2, Zenon
    <3> HIDE DEF v
    <3> QED
      BY <3>1 DEF Good, Whole
  <2> QED
    BY <2>1, <2>2
<1> HIDE DEF v
<1>3. ASSUME v.c.on PROVE Mine(file, y.c, G)
  <2>1. v.c \in Conn /\ v.c.expect \in Queue /\ OnItsWay(v.c) /\ Expects(v.f, v.c)
    BY <1>2, <1>3, OnIsConn, ConnFields DEF Good, Whole, Joint
  <2>2. /\ DOMAIN expect = DOMAIN v.c.expect
        /\ \A i \in DOMAIN v.c.expect : /\ expect[i] \in Expected /\ expect[i].req = v.c.expect[i].req
                                        /\ expect[i].tag = TagWhenClosed(v.c.expect[i].tag)
    <3>1. ASSUME NEW i \in DOMAIN v.c.expect
          PROVE  expect[i] \in Expected /\ expect[i].req = v.c.expect[i].req /\ expect[i].tag = TagWhenClosed(v.c.expect[i].tag)
      <4>1. v.c.expect[i] \in Expected
        BY <2>1, QueueHas
      <4>2. TagWhenClosed(v.c.expect[i].tag) \in Tag
        BY DEF TagWhenClosed, Tag
      <4> QED
        BY <4>1, <4>2 DEF Expected
    <3> QED
      BY <3>1
  <2>3. expect \in Queue
    <3>1. DOMAIN v.c.expect \subseteq Nat
      BY <2>1, QueueHas
    <3>2. expect = [i \in DOMAIN v.c.expect |-> expect[i]]
      OBVIOUS
    <3> HIDE DEF expect
    <3> QED
      BY <2>2, <3>1, <3>2, QueueIs
  <2>4. x = [f |-> v.f, c |-> c]
    <3>1. x = [v EXCEPT !.c = c]
      BY Zenon DEF CloseExpectQueue
    <3> HIDE DEF c, x
    <3> QED
      BY <1>2, <3>1, OnIsConn, Zenon DEF World
  <2>5. \A t : TagWhenClosed(t) \in {"IGNORE", "STALE"}
    BY DEF TagWhenClosed
  <2> HIDE DEF expect
  <2>6. c \in Conn /\ c.on = v.c.on /\ c.id = v.c.id /\ c.expect = expect
    BY <2>1, <2>3, Zenon DEF Conn
  <2> HIDE DEF c, x
  <2>7. x \in World /\ x.f = v.f /\ x.c = c
    BY <1>2, <2>4, <2>6, WorldOf, OnIsConn
  <2>8. Able(x)
    <3>1. Numbered(c)
      BY <2>1, <2>2, <2>6 DEF OnItsWay, Numbered
    <3> QED
      BY <3>1, <2>6, <2>7 DEF Able
  <2>9. Mine(file, x.c, G)
    <3>1. ASSUME NEW i \in DOMAIN c.expect, c.expect[i].req.k \in Changes
          PROVE  c.expect[i].tag \in {"IGNORE", "STALE"} /\ c.expect[i].req.for \in G
      <4>1. /\ i \in DOMAIN v.c.expect /\ c.expect[i].req = v.c.expect[i].req /\ c.expect[i].tag \in {"IGNORE", "STALE"}
        BY <2>2, <2>5, <2>6
      <4>2. v.c.expect[i].req.for \in F \/ v.c.expect[i].req.for = w.f.file
        BY <4>1, <3>1, <1>2, <1>3 DEF Mine
      <4> QED
        BY <4>1, <4>2
    <3> QED
      BY <3>1, <2>7 DEF Mine
  <2>10. Adds(file, x.c, y.c)
    <3>1. "IGNORE" \in Tag
      BY DEF Tag
    <3> QED
      BY <3>1, <2>8, CloseHandleAdds
  <2> HIDE DEF y
  <2> QED
    BY <2>9, <2>10, AddsMine
<1>4. Mine(file, u.c, G)
  <2>1. v.c.on => u = y
    BY Zenon
  <2>2. ~v.c.on => u = v
    BY Zenon
  <2> HIDE DEF u, y
  <2> QED
    BY <2>1, <2>2, <1>2, <1>3 DEF Mine
<1>5. Good(z)
  BY CloseSessionGood
<1> HIDE DEF u, h, z
<1>6. z.c = u.c
  <2>1. z = [f |-> z.f, c |-> z.c]
    BY <1>5 DEF Good, Whole, World
  <2>2. "c" \in DOMAIN z
    BY <2>1
  <2>3. DOMAIN z = DOMAIN u
    BY <1>1
  <2> QED
    BY <1>1, <2>2, <2>3
<1> QED
  BY <1>4, <1>6 DEF z

-----------------------------------------------------------------------------
(* The invariant of all sessions, and the steps.                           *)

\* The files of operations that have been closed
Past == {x \in Sessions \X (1..opens) : \A s \in Sessions : ses[s].mode # "CLOSED" => ses[s].file # x}
\* The file f of an operation of the session s is its own,
Own(s, f, n) == f.mode # "CLOSED" => f.file \in {s} \X (1..n)

\* the requests on each connection are for it or for what has been closed, and what it stores is there.
SInv ==
    /\ stored = [s \in Sessions |-> stored[s]]
    /\ \A s \in Sessions : /\ Own(s, ses[s], opens) /\ Mine(ses[s].file, conn[s], Past)
                           /\ Storing(ses[s], conn[s], stored[s])

\* Requests for closed files stay that.
LEMMA MineMore ==
    ASSUME NEW file, NEW c, NEW F, NEW G, Mine(file, c, F), F \subseteq G
    PROVE  Mine(file, c, G)
BY DEF Mine

\* What a session may become: closed, or it has its file or a new one.
Goes(s, g) ==
    /\ opens \in Nat /\ opens' \in Nat /\ opens <= opens'
    /\ g.mode # "CLOSED" => \/ ses[s].mode # "CLOSED" /\ g.file = ses[s].file
                            \/ g.file = <<s, opens + 1>> /\ opens' = opens + 1

\* What has been closed stays closed, and each operation has a file of its own.
LEMMA PastGrows ==
    ASSUME SInv, ses \in [Sessions -> Ses], NEW s \in Sessions, NEW g, ses' = [ses EXCEPT ![s] = g], Goes(s, g)
    PROVE  Past \subseteq Past' /\ Own(s, g, opens') /\ \A i \in Sessions : Own(i, ses[i], opens')
<1>1. opens \in Nat /\ opens' \in Nat /\ opens <= opens'
  BY DEF Goes
<1>2. \A i \in Sessions : Own(i, ses[i], opens)
  BY DEF SInv
<1>3. 1..opens \subseteq 1..opens' /\ opens + 1 \notin 1..opens
  BY <1>1
<1>4. Own(s, g, opens')
  <2> SUFFICES ASSUME g.mode # "CLOSED" PROVE g.file \in {s} \X (1..opens')
    BY DEF Own
  <2>1. CASE ses[s].mode # "CLOSED" /\ g.file = ses[s].file
    BY <2>1, <1>2, <1>3 DEF Own
  <2>2. CASE g.file = <<s, opens + 1>> /\ opens' = opens + 1
    <3>1. opens + 1 \in 1..opens'
      BY <2>2, <1>1
    <3> QED
      BY <2>2, <3>1
  <2> QED
    BY <2>1, <2>2 DEF Goes
<1>5. \A i \in Sessions : Own(i, ses[i], opens')
  BY <1>2, <1>3 DEF Own
<1>6. ASSUME NEW x \in Past PROVE x \in Past'
  <2>1. x \in Sessions \X (1..opens) /\ \A i \in Sessions : ses[i].mode # "CLOSED" => ses[i].file # x
    BY DEF Past
  <2>2. x \in Sessions \X (1..opens')
    BY <2>1, <1>3
  <2>3. ASSUME NEW i \in Sessions, ses'[i].mode # "CLOSED" PROVE ses'[i].file # x
    <3>1. CASE i # s
      BY <3>1, <2>1, <2>3
    <3>2. CASE i = s
      <4>1. ses'[i] = g /\ g.mode # "CLOSED"
        BY <3>2, <2>3
      <4>2. x # <<s, opens + 1>>
        BY <2>1, <1>3
      <4> QED
        BY <4>1, <4>2, <2>1 DEF Goes
    <3> QED
      BY <3>1, <3>2
  <2> QED
    BY <2>2, <2>3 DEF Past
<1> QED
  BY <1>4, <1>5, <1>6

\* The file of an operation that is closed is one of those.
LEMMA PastHas ==
    ASSUME SInv, ses \in [Sessions -> Ses], NEW s \in Sessions, NEW g, ses' = [ses EXCEPT ![s] = g], Goes(s, g),
           ses[s].mode # "CLOSED", g.mode = "CLOSED"
    PROVE  ses[s].file \in Past'
<1>1. ses[s].file \in {s} \X (1..opens) /\ \A i \in Sessions : Own(i, ses[i], opens)
  BY DEF SInv, Own
<1>2. 1..opens \subseteq 1..opens'
  BY DEF Goes
<1>3. ASSUME NEW i \in Sessions, ses'[i].mode # "CLOSED" PROVE ses'[i].file # ses[s].file
  <2>1. i # s
    BY <1>3
  <2>2. ses'[i] = ses[i]
    BY <2>1
  <2>3. ses[i].file \in {i} \X (1..opens)
    BY <1>1, <1>3, <2>2 DEF Own
  <2> QED
    BY <1>1, <2>1, <2>2, <2>3
<1> QED
  BY <1>1, <1>2, <1>3 DEF Past

\* A step of one session, with its connection and the file it stores
LEMMA OneStores ==
    ASSUME IInv, SInv, NEW s \in Sessions, NEW g, NEW c, NEW st,
           ses' = [ses EXCEPT ![s] = g], conn' = [conn EXCEPT ![s] = c], stored' = [stored EXCEPT ![s] = st],
           Goes(s, g), Mine(g.file, c, Past'), Storing(g, c, st)
    PROVE  SInv'
<1>1. ses \in [Sessions -> Ses] /\ conn \in [Sessions -> {NoConn} \cup Conn]
  BY DEF IInv
<1>2. /\ stored = [i \in Sessions |-> stored[i]]
      /\ \A i \in Sessions : Mine(ses[i].file, conn[i], Past) /\ Storing(ses[i], conn[i], stored[i])
  BY DEF SInv
<1>3. Past \subseteq Past' /\ Own(s, g, opens') /\ \A i \in Sessions : Own(i, ses[i], opens')
  BY <1>1, PastGrows
<1>4. stored' = [i \in Sessions |-> stored'[i]] /\ stored'[s] = st /\ \A i \in Sessions \ {s} : stored'[i] = stored[i]
  BY <1>2
<1> DEFINE P == Past'
<1>5. ASSUME NEW i \in Sessions
      PROVE  Own(i, ses'[i], opens') /\ Mine(ses'[i].file, conn'[i], P) /\ Storing(ses'[i], conn'[i], stored'[i])
  <2>1. CASE i = s
    <3>1. ses'[i] = g /\ conn'[i] = c /\ stored'[i] = st
      BY <2>1, <1>1, <1>4
    <3> QED
      BY <2>1, <3>1, <1>3
  <2>2. CASE i # s
    <3>1. ses'[i] = ses[i] /\ conn'[i] = conn[i] /\ stored'[i] = stored[i]
      BY <2>2, <1>1, <1>4
    <3>2. Mine(ses[i].file, conn[i], P)
      BY <1>2, <1>3, MineMore
    <3> QED
      BY <3>1, <3>2, <1>2, <1>3
  <2> QED
    BY <2>1, <2>2
<1> QED
  BY <1>4, <1>5 DEF SInv

\* A step of one session that stays with its operation, and whose file may change
LEMMA StaysStores ==
    ASSUME IInv, SInv, NEW s \in Sessions, NEW g, NEW c, NEW st,
           ses' = [ses EXCEPT ![s] = g], conn' = [conn EXCEPT ![s] = c], stored' = [stored EXCEPT ![s] = st],
           opens' = opens, g.mode = ses[s].mode, g.file = ses[s].file, Adds(ses[s].file, conn[s], c), Storing(g, c, st)
    PROVE  SInv'
<1>1. ses \in [Sessions -> Ses] /\ opens \in Nat
  BY DEF IInv
<1>2. Goes(s, g)
  BY <1>1 DEF Goes
<1>3. Past \subseteq Past'
  BY <1>1, <1>2, PastGrows
<1> DEFINE P == Past'
<1>4. Mine(ses[s].file, conn[s], P)
  BY <1>3, MineMore DEF SInv
<1>5. Mine(g.file, c, P)
  BY <1>4, AddsMine
<1> QED
  BY <1>2, <1>5, OneStores

\* One after which the file is what it was
LEMMA SameStores ==
    ASSUME IInv, SInv, NEW s \in Sessions, NEW w, SetW(s, w), stored' = stored, opens' = opens,
           w.f.mode = ses[s].mode, w.f.file = ses[s].file, Adds(ses[s].file, conn[s], w.c), Storing(w.f, w.c, stored[s])
    PROVE  SInv'
<1>1. ses' = [ses EXCEPT ![s] = w.f] /\ conn' = [conn EXCEPT ![s] = w.c]
  BY DEF SetW
<1>2. stored' = [stored EXCEPT ![s] = stored[s]]
  BY DEF SInv
<1> QED
  BY <1>1, <1>2, StaysStores

\* What the invariants say of one session
LEMMA StoreIs ==
    ASSUME IInv, SInv, NEW s \in Sessions
    PROVE  /\ W(s) \in World /\ W(s).f = ses[s] /\ W(s).c = conn[s] /\ Good(W(s)) /\ ses[s] \in Ses
           /\ (conn[s].on <=> conn[s] \in Conn) /\ opens \in Nat /\ Mine(ses[s].file, conn[s], Past)
           /\ Own(s, ses[s], opens) /\ Storing(ses[s], conn[s], stored[s])
BY SessionIs DEF SInv

\* Do: with the answers that are handled and the state it is in, a store is what it was, or done when all is there.
LEMMA DoStores == ASSUME WritesFirst, IInv, SInv, NEW s \in Sessions, Do(s) PROVE SInv'
<1> DEFINE S == IF ses[s].state = "CONNECTING" THEN {W(s)} ELSE HandleReplies(W(s))  f == ses[s]  st == stored[s]
<1>1. /\ W(s) \in World /\ W(s).f = f /\ W(s).c = conn[s] /\ Good(W(s)) /\ (conn[s].on <=> conn[s] \in Conn) /\ f \in Ses
      /\ Storing(f, conn[s], st)
  BY StoreIs
<1>2. conn[s].on /\ stored' = stored /\ opens' = opens /\ \E w \in S : SetW(s, DoState(w))
  BY DEF Do
<1>3. PICK w \in S : SetW(s, DoState(w))
  BY <1>2
<1>4. w = W(s) \/ w \in HandleReplies(W(s))
  BY <1>3
<1> HIDE DEF S, f, st
<1>5. Good(w) /\ w.f.mode = f.mode /\ w.f.file = f.file /\ Adds(f.file, conn[s], w.c)
  <2>1. CASE w = W(s)
    BY <2>1, <1>1, AddsNone
  <2>2. CASE w \in HandleReplies(W(s))
    <3>1. Leads(W(s), w, {}, {})
      BY <1>1, <1>2, <2>2, HandleRepliesLeads
    <3>2. Adds(f.file, W(s).c, w.c)
      BY <1>1, <1>2, <2>2, HandleRepliesAdds
    <3> QED
      BY <3>1, <3>2, <1>1 DEF Leads, Good
  <2> QED
    BY <1>4, <2>1, <2>2
<1>6. Leads(w, DoState(w), {}, {})
  BY <1>5, DoStateLeads DEF Leads, Good
<1>7. DoState(w).f.mode = f.mode /\ DoState(w).f.file = f.file
  BY <1>5, <1>6 DEF Leads
<1>8. Adds(f.file, conn[s], DoState(w).c)
  <2>1. Adds(f.file, w.c, DoState(w).c)
    BY <1>5, DoStateAdds
  <2> QED
    BY <2>1, <1>5, AddsBoth
<1>9. Storing(DoState(w).f, DoState(w).c, st)
  <2>1. CASE f.mode = "STORE"
    <3>1. Storing(w.f, w.c, st)
      <4>1. CASE w = W(s)
        BY <4>1, <1>1
      <4>2. CASE w \in HandleReplies(W(s))
        BY <4>2, <2>1, <1>1, <1>2, RepliesStoring
      <4> QED
        BY <1>4, <4>1, <4>2
    <3> QED
      BY <3>1, <2>1, <1>5, DoStateStoring
  <2>2. CASE f.mode = "CLOSED"
    <3>1. ~f.eof
      BY <2>2, <1>1 DEF Storing
    <3>2. w.f.eof = f.eof
      <4>1. CASE w = W(s)
        BY <4>1, <1>1
      <4>2. CASE w \in HandleReplies(W(s))
        BY <4>2, <2>2, <1>1, <1>2, RepliesClosed
      <4> QED
        BY <1>4, <4>1, <4>2
    <3>3. DoState(w) = w
      BY <1>5, <2>2, DoStateClosed
    <3> QED
      BY <3>1, <3>2, <3>3, <1>5, <2>2 DEF Storing, Stores
  <2>3. CASE f.mode # "STORE" /\ f.mode # "CLOSED"
    BY <2>3, <1>7, StoringNot DEF Stores
  <2> QED
    BY <2>1, <2>2, <2>3
<1> QED
  BY <1>2, <1>3, <1>7, <1>8, <1>9, SameStores DEF f, st

\* A session whose connection is given up stores no more.
LEMMA DisconnectStores ==
    ASSUME IInv, SInv, NEW s \in Sessions, SetW(s, Disconnect(W(s))), stored' = stored, opens' = opens
    PROVE  SInv'
<1> DEFINE w == Disconnect(W(s))
<1>1. W(s) \in World /\ W(s).f = ses[s] /\ W(s).c = conn[s] /\ Holds(W(s).f) /\ Known(W(s).f) /\ Storing(ses[s], conn[s], stored[s])
  BY StoreIs DEF Good, Whole, Session
<1>2. w.f.mode = ses[s].mode /\ w.f.file = ses[s].file
  BY <1>1, DisconnectLeads DEF Leads
<1>3. w.c = NoConn
  BY DEF Disconnect
<1>4. Storing(w.f, w.c, stored[s])
  BY <1>1, DisconnectStoring
<1> HIDE DEF w
<1>5. Adds(ses[s].file, conn[s], w.c)
  BY <1>3, AddsNone
<1>6. SetW(s, w)
  BY DEF w
<1> QED
  BY <1>2, <1>4, <1>5, <1>6, SameStores

\* Do, DISCONNECTED: nothing has been asked on the new connection.
LEMMA ConnectStores == ASSUME IInv, SInv, NEW s \in Sessions, Connect(s) PROVE SInv'
<1> DEFINE g == [ses[s] EXCEPT !.state = "CONNECTING"]  w == [f |-> g, c |-> NewConn]
<1>1. W(s).f = ses[s] /\ W(s).c = conn[s] /\ Good(W(s)) /\ ses[s] \in Ses /\ opens \in Nat /\ Storing(ses[s], conn[s], stored[s])
  BY StoreIs
<1>2. /\ ses[s].state = "DISCONNECTED" /\ ses[s].mode # "CLOSED" /\ stored' = stored /\ opens' = opens
      /\ ses' = [ses EXCEPT ![s].state = "CONNECTING"] /\ conn' = [conn EXCEPT ![s] = NewConn]
  BY DEF Connect, NeedsConnection
<1>3. Leads(W(s), w, {}, {})
  <2>1. Leads(W(s), [f |-> [W(s).f EXCEPT !.state = "CONNECTING"], c |-> NewConn], {}, {})
    BY <1>1, <1>2, ConnectGood
  <2> QED
    BY <2>1, <1>1
<1>4. /\ ses' = [ses EXCEPT ![s] = g]
      /\ g.mode = ses[s].mode /\ g.file = ses[s].file /\ g.pos = ses[s].pos /\ g.error = ses[s].error /\ g.eof = ses[s].eof
      /\ g.state = "CONNECTING"
  BY <1>1, <1>2, Zenon DEF Ses
<1>5. w.f = g /\ w.c = NewConn
  BY Zenon
<1> HIDE DEF g, w
<1>6. Storing(g, NewConn, stored[s])
  <2>1. AtRest(ses[s]) /\ AtRest(g)
    BY <1>2, <1>4 DEF AtRest
  <2>2. Stores(ses[s]) => ~ses[s].eof /\ stored[s] = Prefix(ses[s].pos)
    <3> DEFINE st == stored[s]
    <3>1. Storing(W(s).f, W(s).c, st)
      BY <1>1
    <3> HIDE DEF st
    <3>2. Stores(W(s).f) => ~W(s).f.eof /\ st = Prefix(W(s).f.pos)
      BY <3>1, <1>1, <2>1, StoringRest
    <3> QED
      BY <3>2, <1>1 DEF st
  <2> DEFINE st == stored[s]
  <2>3. Stores(w.f) => ~w.f.eof /\ st = Prefix(w.f.pos)
    BY <2>2, <1>4, <1>5 DEF Stores
  <2> HIDE DEF st
  <2>4. Storing(w.f, w.c, st)
    BY <2>1, <2>3, <1>2, <1>3, <1>4, <1>5, RestStoring DEF Leads, Good
  <2> QED
    BY <2>4, <1>5 DEF st
<1>7. Goes(s, g)
  BY <1>1, <1>2, <1>4 DEF Goes
<1> DEFINE P == Past'
<1>8. Mine(g.file, NewConn, P)
  BY DEF Mine, NewConn
<1>9. stored' = [stored EXCEPT ![s] = stored[s]]
  BY <1>2 DEF SInv
<1> QED
  BY <1>2, <1>4, <1>6, <1>7, <1>8, <1>9, OneStores

\* The connection is there.
LEMMA EstablishedStores == ASSUME IInv, SInv, NEW s \in Sessions, Established(s) PROVE SInv'
<1> DEFINE d == [conn[s] EXCEPT !.net = "up"]
<1>1. (conn[s].on <=> conn[s] \in Conn) /\ Storing(ses[s], conn[s], stored[s])
  BY StoreIs
<1>2. /\ conn[s].on /\ conn[s].net = "syn" /\ stored' = stored /\ opens' = opens /\ ses' = ses
      /\ conn' = [conn EXCEPT ![s].net = "up"]
  BY DEF Established
<1>3. conn' = [conn EXCEPT ![s] = d]
  BY <1>2, Zenon
<1>4. ses' = [ses EXCEPT ![s] = ses[s]] /\ stored' = [stored EXCEPT ![s] = stored[s]]
  BY <1>2 DEF IInv, SInv
<1>5. Storing(ses[s], d, stored[s])
  BY <1>1, <1>2, EstablishedStoring
<1>6. d.on = conn[s].on /\ d.expect = conn[s].expect
  BY <1>1, <1>2, Zenon DEF Conn
<1> HIDE DEF d
<1>7. Adds(ses[s].file, conn[s], d)
  BY <1>6 DEF Adds
<1> QED
  BY <1>2, <1>3, <1>4, <1>5, <1>7, StaysStores

\* The connection is lost: what was to be written on it is not.
LEMMA LoseStores == ASSUME IInv, SInv, NEW s \in Sessions, Lose(s) PROVE SInv'
<1>1. W(s).f = ses[s] /\ W(s).c = conn[s] /\ Good(W(s)) /\ (conn[s].on <=> conn[s] \in Conn) /\ Storing(ses[s], conn[s], stored[s])
  BY StoreIs
<1>2. PICK n \in 0..Len(conn[s].wire) : conn' = [conn EXCEPT ![s].net = "lost", ![s].wire = SubSeq(conn[s].wire, 1, n), ![s].out = <<>>]
  <2>1. \E n \in 0..Len(conn[s].wire) : conn' = [conn EXCEPT ![s].net = "lost", ![s].wire = SubSeq(@, 1, n), ![s].out = <<>>]
    BY DEF Lose
  <2>2. PICK n \in 0..Len(conn[s].wire) : conn' = [conn EXCEPT ![s].net = "lost", ![s].wire = SubSeq(@, 1, n), ![s].out = <<>>]
    BY <2>1
  <2>3. [conn EXCEPT ![s].net = "lost", ![s].wire = SubSeq(@, 1, n), ![s].out = <<>>]
        = [conn EXCEPT ![s].net = "lost", ![s].wire = SubSeq(conn[s].wire, 1, n), ![s].out = <<>>]
    OBVIOUS
  <2> QED
    BY <2>2, <2>3
<1> DEFINE d == [[[conn[s] EXCEPT !.net = "lost"] EXCEPT !.wire = SubSeq(conn[s].wire, 1, n)] EXCEPT !.out = <<>>]
<1>3. conn[s].on /\ stored' = stored /\ opens' = opens /\ ses' = ses
  BY DEF Lose
<1>4. Storing(ses[s], d, stored[s])
  <2> DEFINE st == stored[s]
  <2>1. n \in 0..Len(W(s).c.wire) /\ Storing(W(s).f, W(s).c, st)
    BY <1>1
  <2> HIDE DEF st
  <2>2. Storing(W(s).f, [[[W(s).c EXCEPT !.net = "lost"] EXCEPT !.wire = SubSeq(W(s).c.wire, 1, n)] EXCEPT !.out = <<>>], st)
    BY <1>1, <1>3, <2>1, LoseStoring
  <2> QED
    BY <2>2, <1>1 DEF st
<1>5. conn' = [conn EXCEPT ![s] = d]
  BY <1>2, Zenon
<1>6. ses' = [ses EXCEPT ![s] = ses[s]] /\ stored' = [stored EXCEPT ![s] = stored[s]]
  BY <1>3 DEF IInv, SInv
<1>7. d.on = conn[s].on /\ d.expect = conn[s].expect
  BY <1>1, <1>3, Zenon DEF Conn
<1> HIDE DEF d
<1>8. Adds(ses[s].file, conn[s], d)
  BY <1>7 DEF Adds
<1> QED
  BY <1>3, <1>4, <1>5, <1>6, <1>8, StaysStores

\* MoveConnectionHere: on a connection that is taken over only what was asked for closed files is expected.
LEMMA TakeStores == ASSUME IInv, SInv, NEW s \in Sessions, NEW o \in Sessions, TakeConnection(s, o) PROVE SInv'
<1> DEFINE g == [ses[s] EXCEPT !.state = "CONNECTED"]  w == [f |-> g, c |-> conn[o]]  v == Disconnect(W(o))  P == Past'
<1>1. /\ W(s).f = ses[s] /\ W(s).c = conn[s] /\ Good(W(s)) /\ ses[s] \in Ses /\ opens \in Nat /\ Storing(ses[s], conn[s], stored[s])
      /\ Own(s, ses[s], opens)
  BY StoreIs
<1>2. /\ W(o).f = ses[o] /\ W(o).c = conn[o] /\ Good(W(o)) /\ W(o) \in World /\ Session(W(o)) /\ Mine(ses[o].file, conn[o], Past)
      /\ (conn[o].on <=> conn[o] \in Conn) /\ Storing(ses[o], conn[o], stored[o])
  BY StoreIs DEF Good, Whole
<1>3. /\ ses[s].state = "DISCONNECTED" /\ ses[s].mode # "CLOSED" /\ stored' = stored /\ opens' = opens
      /\ o # s /\ conn[o].on /\ ses[o].state = "CONNECTED" /\ ses[o].mode = "CLOSED"
      /\ ses' = [ses EXCEPT ![s].state = "CONNECTED", ![o] = v.f]
      /\ conn' = [conn EXCEPT ![s] = conn[o], ![o] = NoConn]
  BY DEF TakeConnection, NeedsConnection, Idle
<1>4. Leads(W(s), w, {}, {})
  <2>1. AtRest(W(o).f)
    BY <1>2, <1>3 DEF AtRest
  <2>2. Leads(W(s), [f |-> [W(s).f EXCEPT !.state = "CONNECTED"], c |-> W(o).c], {}, {})
    BY <1>1, <1>2, <1>3, <2>1, TakenGood
  <2> QED
    BY <2>2, <1>1, <1>2
<1>5. Leads(W(o), v, {}, {}) /\ v.c = NoConn /\ Storing(v.f, v.c, stored[o])
  <2>1. Leads(W(o), v, {}, {})
    BY <1>2, DisconnectLeads DEF Session
  <2>2. v.c = NoConn
    BY DEF Disconnect
  <2>3. Storing(v.f, v.c, stored[o])
    BY <1>2, DisconnectStoring
  <2> QED
    BY <2>1, <2>2, <2>3
<1>6. ses' = [[ses EXCEPT ![s] = g] EXCEPT ![o] = v.f]
  <2> HIDE DEF v
  <2> QED
    BY <1>3, Zenon
<1>7. /\ g.mode = ses[s].mode /\ g.file = ses[s].file /\ g.pos = ses[s].pos /\ g.error = ses[s].error /\ g.eof = ses[s].eof
      /\ g.state = "CONNECTED"
  BY <1>1, Zenon DEF Ses
<1>8. w.f = g /\ w.c = conn[o]
  OBVIOUS
<1> HIDE DEF g, w, v
<1>9. Storing(g, conn[o], stored[s])
  <2> DEFINE st == stored[s]
  <2>1. AtRest(W(s).f) /\ AtRest(w.f) /\ Storing(W(s).f, W(s).c, st)
    BY <1>1, <1>3, <1>7, <1>8 DEF AtRest
  <2> HIDE DEF st
  <2>2. Stores(W(s).f) => ~W(s).f.eof /\ st = Prefix(W(s).f.pos)
    BY <2>1, <1>1, StoringRest
  <2>3. Stores(w.f) => ~w.f.eof /\ st = Prefix(w.f.pos)
    BY <2>2, <1>1, <1>7, <1>8 DEF Stores
  <2>4. Storing(w.f, w.c, st)
    BY <2>1, <2>3, <1>3, <1>4, <1>7, <1>8, RestStoring DEF Leads, Good
  <2> QED
    BY <2>4, <1>8 DEF st
<1>10. ses \in [Sessions -> Ses] /\ conn \in [Sessions -> {NoConn} \cup Conn]
  BY DEF IInv
<1>11. /\ ses'[s] = g /\ conn'[s] = conn[o] /\ ses'[o] = v.f /\ conn'[o] = NoConn
       /\ \A i \in Sessions \ {s, o} : ses'[i] = ses[i] /\ conn'[i] = conn[i]
  BY <1>3, <1>6, <1>10
<1>12. v.f.mode = ses[o].mode /\ v.f.file = ses[o].file
  BY <1>2, <1>5 DEF Leads
<1>13. \A i \in Sessions : ses'[i].mode = ses[i].mode /\ ses'[i].file = ses[i].file
  BY <1>7, <1>11, <1>12
<1>14. Past' = Past
  <2>1. Past' = {x \in Sessions \X (1..opens) : \A i \in Sessions : ses'[i].mode # "CLOSED" => ses'[i].file # x}
    BY <1>3 DEF Past
  <2>2. ASSUME NEW x
        PROVE  (\A i \in Sessions : ses'[i].mode # "CLOSED" => ses'[i].file # x) <=> (\A i \in Sessions : ses[i].mode # "CLOSED" => ses[i].file # x)
    BY <1>13
  <2> QED
    BY <2>1, <2>2 DEF Past
<1>15. Mine(g.file, conn[o], Past)
  <2>1. \A i \in DOMAIN conn[o].expect : conn[o].expect[i].tag \in {"IGNORE", "STALE"}
    <3>1. AtRest(W(o).f)
      BY <1>2, <1>3 DEF AtRest
    <3> QED
      BY <3>1, <1>2, <1>3 DEF Good, Whole, Joint
  <2> QED
    BY <2>1, <1>2 DEF Mine
<1>16. ASSUME NEW i \in Sessions
       PROVE  Own(i, ses'[i], opens') /\ Mine(ses'[i].file, conn'[i], P) /\ Storing(ses'[i], conn'[i], stored'[i])
  <2>1. Own(i, ses[i], opens) /\ Mine(ses[i].file, conn[i], Past) /\ Storing(ses[i], conn[i], stored[i])
    BY DEF SInv
  <2>2. Own(i, ses'[i], opens')
    BY <2>1, <1>3, <1>13 DEF Own
  <2>3. CASE i = s
    BY <2>2, <2>3, <1>3, <1>9, <1>11, <1>14, <1>15
  <2>4. CASE i = o
    <3>1. Mine(v.f.file, NoConn, P)
      BY DEF Mine, NoConn
    <3>2. Storing(v.f, NoConn, stored'[o])
      BY <1>3, <1>5
    <3> HIDE DEF P
    <3> QED
      BY <3>1, <3>2, <2>2, <2>4, <1>11
  <2>5. CASE i # s /\ i # o
    BY <2>1, <2>2, <2>5, <1>3, <1>11, <1>14
  <2> QED
    BY <2>3, <2>4, <2>5
<1>17. stored' = [i \in Sessions |-> stored'[i]]
  BY <1>3 DEF SInv
<1> QED
  BY <1>16, <1>17 DEF SInv

\* Open begins with a file of its own, of which as much is there as was stored before.
LEMMA OpensStores == ASSUME IInv, SInv, NEW s \in Sessions, UserOpens(s) PROVE SInv'
<1>1. /\ W(s).f = ses[s] /\ W(s).c = conn[s] /\ Good(W(s)) /\ opens \in Nat /\ Storing(ses[s], conn[s], stored[s])
      /\ Mine(ses[s].file, conn[s], Past) /\ (conn[s].on <=> conn[s] \in Conn)
  BY StoreIs
<1>0. PICK mode \in ModesOf[s] :
        \E x \in CASE mode = "RETRIEVE" -> GetFrom [] mode = "STORE" -> PutFrom [] OTHER -> {0} : Open(s, mode, x)
  BY DEF UserOpens
<1>2. PICK at \in CASE mode = "RETRIEVE" -> GetFrom [] mode = "STORE" -> PutFrom [] OTHER -> {0} : Open(s, mode, at)
  BY <1>0
<1>3. mode \in {"RETRIEVE", "STORE", "REMOVE", "ARRAY_INFO"} /\ at \in 0..N
  <2>1. mode \in {"RETRIEVE", "STORE", "REMOVE", "ARRAY_INFO"}
    BY Numbers
  <2>2. CASE mode = "RETRIEVE"
    BY <2>1, <2>2, Numbers
  <2>3. CASE mode = "STORE"
    BY <2>1, <2>3, Numbers
  <2>4. CASE mode # "RETRIEVE" /\ mode # "STORE"
    <3>1. at = 0
      BY <2>4
    <3> QED
      BY <3>1, <2>1, Numbers
  <2> QED
    BY <2>1, <2>2, <2>3, <2>4
<1> DEFINE file == <<s, opens + 1>>  g == Opened(ses[s], mode, file, at)  P == Past'
<1>4. file \in File
  BY <1>1 DEF File
<1>5. /\ ses[s].mode = "CLOSED" /\ opens' = opens + 1 /\ conn' = conn
      /\ ses' = [ses EXCEPT ![s].mode = mode, ![s].file = file, ![s].pos = at]
      /\ stored' = [stored EXCEPT ![s] = [i \in 1..at |-> i - 1]]
  BY <1>2 DEF Open
<1>6. file = <<s, opens + 1>>
  OBVIOUS
<1> HIDE DEF file
<1>7. g.mode = mode /\ g.file = file /\ Storing(g, conn[s], Prefix(at))
  <2> DEFINE st == stored[s]
  <2>1. Storing(W(s).f, W(s).c, st) /\ W(s).f.mode = "CLOSED"
    BY <1>1, <1>5
  <2> HIDE DEF st
  <2>2. Storing(Opened(W(s).f, mode, file, at), W(s).c, Prefix(at))
    BY <2>1, <1>1, <1>3, <1>4, OpensStoring
  <2>3. /\ Good([f |-> Opened(W(s).f, mode, file, at), c |-> W(s).c])
        /\ Opened(W(s).f, mode, file, at).mode = mode /\ Opened(W(s).f, mode, file, at).file = file
        /\ Opened(W(s).f, mode, file, at).pos = at
    BY <2>1, <1>1, <1>3, <1>4, OpenGood
  <2> QED
    BY <2>2, <2>3, <1>1
<1>8. ses' = [ses EXCEPT ![s] = g]
  BY <1>5, Zenon DEF Opened
<1>9. conn' = [conn EXCEPT ![s] = conn[s]] /\ stored' = [stored EXCEPT ![s] = Prefix(at)]
  BY <1>5 DEF IInv, Prefix
<1> HIDE DEF g
<1>10. Goes(s, g)
  BY <1>1, <1>5, <1>6, <1>7 DEF Goes
<1>11. Mine(g.file, conn[s], P)
  <2>1. Past \subseteq Past'
    BY <1>8, <1>10, PastGrows DEF IInv
  <2>2. conn[s].on => \A i \in DOMAIN conn[s].expect : conn[s].expect[i].tag \in {"IGNORE", "STALE"}
    <3>1. AtRest(W(s).f)
      BY <1>1, <1>5 DEF AtRest
    <3> QED
      BY <3>1, <1>1 DEF Good, Whole, Joint
  <2>3. Mine(g.file, conn[s], Past)
    BY <2>2, <1>1 DEF Mine
  <2> QED
    BY <2>1, <2>3, MineMore
<1> QED
  BY <1>7, <1>8, <1>9, <1>10, <1>11, OneStores

\* Close: what is expected for the file is from now on for nobody.
LEMMA ClosesStores == ASSUME IInv, SInv, NEW s \in Sessions, UserCloses(s) PROVE SInv'
<1> DEFINE w == CloseSession(W(s))  P == Past'  g == w.f
<1>1. W(s).f = ses[s] /\ W(s).c = conn[s] /\ Good(W(s)) /\ opens \in Nat /\ Mine(ses[s].file, conn[s], Past)
  BY StoreIs
<1>2. ses[s].mode # "CLOSED" /\ SetW(s, w) /\ stored' = stored /\ opens' = opens
  BY DEF UserCloses
<1>3. g.mode = "CLOSED"
  BY <1>1, CloseSessionGood
<1>4. Storing(g, w.c, stored[s])
  BY <1>1, CloseStoring
<1>5. ses' = [ses EXCEPT ![s] = g] /\ conn' = [conn EXCEPT ![s] = w.c]
  BY <1>2 DEF SetW
<1>6. stored' = [stored EXCEPT ![s] = stored[s]]
  BY <1>2 DEF SInv
<1>7. Goes(s, g)
  <2> HIDE DEF w
  <2> QED
    BY <1>1, <1>2, <1>3 DEF Goes
<1>8. Past \subseteq P /\ ses[s].file \in P
  <2> HIDE DEF w, g
  <2>1. ses \in [Sessions -> Ses]
    BY DEF IInv
  <2> QED
    BY <2>1, <1>2, <1>3, <1>5, <1>7, PastGrows, PastHas
<1>9. Mine(g.file, w.c, P)
  <2> DEFINE F == Past  file == g.file
  <2>1. F \subseteq P /\ W(s).f.file \in P /\ Mine(W(s).f.file, W(s).c, F)
    BY <1>1, <1>8
  <2> HIDE DEF F, P, file
  <2>2. Mine(file, CloseSession(W(s)).c, P)
    BY <2>1, <1>1, CloseMine
  <2> QED
    BY <2>2 DEF file
<1> HIDE DEF w, g
<1> QED
  BY <1>4, <1>5, <1>6, <1>7, <1>9, OneStores

\* Read asks for nothing that changes a file.
LEMMA ReadsStores == ASSUME IInv, SInv, NEW s \in Sessions, UserReads(s) PROVE SInv'
<1> DEFINE f == ses[s]  w == IF MayRequest(W(s)) THEN RequestMoreData(W(s)) ELSE W(s)
<1>1. /\ W(s).f = f /\ W(s).c = conn[s] /\ Good(W(s)) /\ W(s) \in World /\ f \in Ses /\ Storing(f, conn[s], stored[s])
      /\ (conn[s].on <=> conn[s] \in Conn)
  BY StoreIs
<1>2. /\ f.mode = "RETRIEVE" /\ opens' = opens /\ stored' = stored
      /\ \/ ses' = ses /\ conn' = conn
         \/ SetW(s, w)
         \/ f.buf.data # <<>> /\ SetW(s, [w EXCEPT !.f.buf.data = Tail(@), !.f.pos = @ + 1])
  BY DEF UserReads
<1>3. Leads(W(s), w, {}, {}) /\ w.f.buf = f.buf /\ Adds(f.file, conn[s], w.c)
  <2>1. CASE MayRequest(W(s))
    <3>1. f.buf.on
      BY <2>1, <1>1 DEF MayRequest, Good, Whole, Session, Phase
    <3>2. W(s).c \in Conn
      BY <3>1, <1>1, BufHasConn
    <3>3. Leads(W(s), RequestMoreData(W(s)), {}, {}) /\ RequestMoreData(W(s)).f.buf = W(s).f.buf
      BY <3>1, <3>2, <1>1, <1>2, RequestLeads
    <3>4. Able(W(s))
      BY <3>2, <1>1, WholeAble DEF Good
    <3>5. Adds(f.file, W(s).c, RequestMoreData(W(s)).c)
      BY <3>4, RequestAdds
    <3> QED
      BY <2>1, <3>3, <3>5, <1>1
  <2>2. CASE ~MayRequest(W(s))
    <3>1. Leads(W(s), W(s), {}, {})
      BY <1>1 DEF Leads, Good
    <3> QED
      BY <2>2, <3>1, <1>1, AddsNone
  <2> QED
    BY <2>1, <2>2
<1> HIDE DEF w
<1>4. Good(w) /\ w \in World /\ w.f.mode = f.mode /\ w.f.file = f.file
  BY <1>1, <1>3 DEF Leads, Good, Whole
<1>5. CASE ses' = ses /\ conn' = conn
  <2>1. ses' = [ses EXCEPT ![s] = ses[s]] /\ conn' = [conn EXCEPT ![s] = conn[s]] /\ stored' = [stored EXCEPT ![s] = stored[s]]
    BY <1>2, <1>5 DEF IInv, SInv
  <2> QED
    BY <2>1, <1>1, <1>2, AddsNone, StaysStores
<1>6. CASE SetW(s, w)
  <2>1. Storing(w.f, w.c, stored[s])
    BY <1>2, <1>4, StoringNot DEF Stores
  <2> QED
    BY <2>1, <1>2, <1>3, <1>4, <1>6, SameStores
<1>7. CASE f.buf.data # <<>> /\ SetW(s, [w EXCEPT !.f.buf.data = Tail(@), !.f.pos = @ + 1])
  <2> DEFINE v == Takes(w)  to == w.f.pos + 1  b == [w.f.buf EXCEPT !.data = Tail(w.f.buf.data)]
             g == [[w.f EXCEPT !.buf = b] EXCEPT !.pos = to]
  <2>1. SetW(s, v)
    BY <1>7, Zenon DEF Takes
  <2>2. v.f.mode = f.mode /\ v.f.file = f.file
    BY <1>2, <1>3, <1>4, <1>7, TakesGood
  <2>3. v.c = w.c
    <3>1. v = [w EXCEPT !.f = g]
      BY Zenon DEF Takes
    <3> HIDE DEF g, v
    <3> QED
      BY <3>1, <1>4, Zenon DEF World
  <2> HIDE DEF v
  <2>4. Storing(v.f, v.c, stored[s])
    BY <1>2, <2>2, StoringNot DEF Stores
  <2> QED
    BY <2>1, <2>2, <2>3, <2>4, <1>2, <1>3, SameStores
<1> QED
  BY <1>2, <1>5, <1>6, <1>7

\* Write puts the next byte of the file behind those that are to be sent.
LEMMA WritesStores == ASSUME IInv, SInv, NEW s \in Sessions, UserWrites(s) PROVE SInv'
<1> DEFINE f == ses[s]  to == f.pos + 1  x == <<f.file, f.pos>>  data == Append(f.buf.data, x)
           g == [[f EXCEPT !.pos = to] EXCEPT !.buf = [f.buf EXCEPT !.data = data]]
<1>1. /\ W(s).f = f /\ W(s).c = conn[s] /\ Good(W(s)) /\ f \in Ses /\ Storing(f, conn[s], stored[s])
  BY StoreIs
<1>2. /\ f.mode = "STORE" /\ f.error = "OK" /\ f.state = "FILE_SEND" /\ ~f.eof /\ conn' = conn /\ stored' = stored /\ opens' = opens
      /\ ses' = [ses EXCEPT ![s].pos = @ + 1, ![s].buf.data = Append(@, <<ses[s].file, ses[s].pos>>)]
  BY DEF UserWrites
<1>3. x \in File \X Nat /\ x[2] = f.pos
  BY <1>1, SesFields
<1>4. ses' = [ses EXCEPT ![s] = g]
  BY <1>2, Zenon
<1>5. Storing(g, conn[s], stored[s])
  <2> DEFINE v == W(s).f  st == stored[s]
  <2>1. v = f
    BY <1>1
  <2>2. /\ v.mode = "STORE" /\ v.error = "OK" /\ v.state = "FILE_SEND" /\ ~v.eof
        /\ data = Append(v.buf.data, x) /\ to = v.pos + 1 /\ x[2] = v.pos /\ Storing(v, W(s).c, st)
    BY <1>1, <1>2
  <2> HIDE DEF to, x, data, st
  <2>3. Storing([[v EXCEPT !.pos = to] EXCEPT !.buf = [v.buf EXCEPT !.data = data]], W(s).c, st)
    BY <1>1, <1>3, <2>2, WritesStoring
  <2> HIDE DEF v, f
  <2> QED
    BY <2>1, <2>3, <1>1 DEF st
<1>6. g.mode = f.mode /\ g.file = f.file
  BY <1>1, Zenon DEF Ses
<1>7. conn' = [conn EXCEPT ![s] = conn[s]] /\ stored' = [stored EXCEPT ![s] = stored[s]]
  BY <1>2 DEF IInv, SInv
<1> HIDE DEF g
<1>8. Adds(f.file, conn[s], conn[s])
  BY AddsNone
<1> QED
  BY <1>2, <1>4, <1>5, <1>6, <1>7, <1>8, StaysStores

\* StoreStatus ends the file where it ends.
LEMMA EndsStores == ASSUME IInv, SInv, NEW s \in Sessions, UserEnds(s) PROVE SInv'
<1> DEFINE f == ses[s]  g == [f EXCEPT !.eof = TRUE]
<1>1. /\ W(s).f = f /\ Good(W(s)) /\ f \in Ses /\ Storing(f, conn[s], stored[s])
  BY StoreIs
<1>2. /\ f.mode = "STORE" /\ f.state = "FILE_SEND" /\ f.pos = N /\ conn' = conn /\ stored' = stored /\ opens' = opens
      /\ ses' = [ses EXCEPT ![s].eof = TRUE]
  BY DEF UserEnds
<1>3. f.buf.on
  BY <1>1, <1>2 DEF Good, Whole, Session, Phase
<1>4. ses' = [ses EXCEPT ![s] = g]
  BY <1>2, Zenon
<1>5. Storing(g, conn[s], stored[s])
  <2> HIDE DEF f
  <2> QED
    BY <1>1, <1>2, <1>3, EndsStoring
<1>6. g.mode = f.mode /\ g.file = f.file
  BY <1>1, Zenon DEF Ses
<1>7. conn' = [conn EXCEPT ![s] = conn[s]] /\ stored' = [stored EXCEPT ![s] = stored[s]]
  BY <1>2 DEF IInv, SInv
<1> HIDE DEF g
<1>8. Adds(f.file, conn[s], conn[s])
  BY AddsNone
<1> QED
  BY <1>2, <1>4, <1>5, <1>6, <1>7, <1>8, StaysStores

\* The server writes what it is asked to, where it is asked to, for the operation that has asked.
LEMMA ServerStores == ASSUME IInv, SInv, NEW s \in Sessions, ServerAnswers(s) PROVE SInv'
<1> DEFINE r == Head(conn[s].out)  f == ses[s]  st == stored[s]
<1>1. /\ W(s).f = f /\ W(s).c = conn[s] /\ Good(W(s)) /\ (conn[s].on <=> conn[s] \in Conn) /\ Storing(f, conn[s], st)
      /\ Mine(f.file, conn[s], Past)
  BY StoreIs
<1>2. conn[s].on /\ conn[s].net = "up" /\ conn[s].out # <<>> /\ opens' = opens /\ ses' = ses
  BY DEF ServerAnswers
<1>3. conn[s] \in Conn /\ OnItsWay(conn[s])
  BY <1>1, <1>2 DEF Good, Whole, Joint
<1>4. \/ /\ \E a \in Granted(r) : conn' = [conn EXCEPT ![s].out = Tail(@), ![s].wire = Append(@, a), ![s].handles = HandlesAfter(conn[s], a)]
         /\ stored' = [stored EXCEPT ![s] = CASE r.req.k = "CREATE" /\ r.req.for = ses[s].file /\ r.req.pos = 0 -> <<>>
                                              [] r.req.k = "WRITE" /\ r.req.for = ses[s].file -> Write(@, r.req.pos, r.req.n)
                                              [] OTHER -> @]
      \/ /\ stored' = stored
         /\ conn' = [conn EXCEPT ![s].out = Tail(@), ![s].wire = Append(@, Refused(r)),
                                 ![s].handles = IF r.req.k = "CLOSE" THEN @ \ {r.req.h} ELSE @,
                                 ![s].refused = IF r.req.k = "STAT" THEN @ \cup {<<r.req.for, r.req.pos>>} ELSE @]
  BY Zenon DEF ServerAnswers, HandlesAfter
<1>5. ses' = [ses EXCEPT ![s] = ses[s]]
  BY <1>2 DEF IInv
<1>6. ASSUME NEW a, NEW handles, NEW refused, Fitting(conn[s], a, handles, refused),
             conn' = [conn EXCEPT ![s] = Answered(conn[s], a, handles, refused)],
             NEW new, stored' = [stored EXCEPT ![s] = new],
             new = Becomes(f, st, r.req) \/ (new = st /\ ~(a.t = "status" /\ a.code = "ok"))
      PROVE  SInv'
  <2> DEFINE d == Answered(conn[s], a, handles, refused)
  <2>1. f.mode # "CLOSED" => f.file \notin Past
    BY DEF Past
  <2>2. Storing(f, d, new)
    <3> DEFINE w == W(s)  F == Past  q == Head(w.c.out).req
    <3>1. /\ Good(w) /\ w.c \in Conn /\ w.c.out # <<>> /\ w.c.net # "lost" /\ Fitting(w.c, a, handles, refused)
          /\ Mine(w.f.file, w.c, F) /\ (w.f.mode # "CLOSED" => w.f.file \notin F) /\ Storing(w.f, w.c, st)
          /\ (new = Becomes(w.f, st, q) \/ (new = st /\ ~(a.t = "status" /\ a.code = "ok")))
      BY <1>1, <1>2, <1>3, <1>6, <2>1
    <3>2. w.f = f /\ w.c = conn[s]
      BY <1>1
    <3> HIDE DEF w, F, st
    <3>3. Storing(w.f, Answered(w.c, a, handles, refused), new)
      BY <3>1, AnsweredStoring
    <3> QED
      BY <3>2, <3>3
  <2>3. Adds(f.file, conn[s], d)
    BY <1>2, <1>3, <1>6, AnsweredAdds
  <2> HIDE DEF d
  <2>4. conn' = [conn EXCEPT ![s] = d]
    BY <1>6 DEF d
  <2> QED
    BY <2>2, <2>3, <2>4, <1>2, <1>5, <1>6, StaysStores
<1>7. CASE /\ \E a \in Granted(r) : conn' = [conn EXCEPT ![s].out = Tail(@), ![s].wire = Append(@, a), ![s].handles = HandlesAfter(conn[s], a)]
           /\ stored' = [stored EXCEPT ![s] = CASE r.req.k = "CREATE" /\ r.req.for = ses[s].file /\ r.req.pos = 0 -> <<>>
                                                [] r.req.k = "WRITE" /\ r.req.for = ses[s].file -> Write(@, r.req.pos, r.req.n)
                                                [] OTHER -> @]
  <2>1. PICK a \in Granted(r) : conn' = [conn EXCEPT ![s].out = Tail(@), ![s].wire = Append(@, a), ![s].handles = HandlesAfter(conn[s], a)]
    BY <1>7
  <2>2. Fitting(conn[s], a, HandlesAfter(conn[s], a), conn[s].refused)
    BY <1>2, <1>3, GrantedFits
  <2>3. conn' = [conn EXCEPT ![s] = Answered(conn[s], a, HandlesAfter(conn[s], a), conn[s].refused)]
    <3> DEFINE H == HandlesAfter(conn[s], a)
    <3>1. conn' = [conn EXCEPT ![s].out = Tail(@), ![s].wire = Append(@, a), ![s].handles = H]
      BY <2>1
    <3> HIDE DEF H
    <3>2. conn' = [conn EXCEPT ![s] = [[[conn[s] EXCEPT !.out = Tail(conn[s].out)] EXCEPT !.wire = Append(conn[s].wire, a)] EXCEPT !.handles = H]]
      BY <3>1
    <3> DEFINE e == [[[conn[s] EXCEPT !.out = Tail(conn[s].out)] EXCEPT !.wire = Append(conn[s].wire, a)] EXCEPT !.handles = H]
    <3>3. e = [e EXCEPT !.refused = conn[s].refused]
      BY <1>3, Zenon DEF Conn
    <3>4. Answered(conn[s], a, H, conn[s].refused) = [e EXCEPT !.refused = conn[s].refused]
      BY Zenon DEF Answered
    <3> HIDE DEF e
    <3> QED
      BY <3>2, <3>3, <3>4 DEF e, H
  <2>4. stored' = [stored EXCEPT ![s] = Becomes(f, st, r.req)]
    BY <1>7 DEF Becomes
  <2> HIDE DEF r, f, st
  <2> QED
    BY <2>2, <2>3, <2>4, <1>6
<1>8. CASE /\ stored' = stored
           /\ conn' = [conn EXCEPT ![s].out = Tail(@), ![s].wire = Append(@, Refused(r)),
                                   ![s].handles = IF r.req.k = "CLOSE" THEN @ \ {r.req.h} ELSE @,
                                   ![s].refused = IF r.req.k = "STAT" THEN @ \cup {<<r.req.for, r.req.pos>>} ELSE @]
  <2> DEFINE c == conn[s]  a == Refused(r)  H == IF r.req.k = "CLOSE" THEN c.handles \ {r.req.h} ELSE c.handles
             R == IF r.req.k = "STAT" THEN c.refused \cup {<<r.req.for, r.req.pos>>} ELSE c.refused
  <2>1. Fitting(c, a, H, R)
    BY <1>2, <1>3, RefusedFits
  <2>2. conn' = [conn EXCEPT ![s] = Answered(c, a, H, R)]
    <3>1. conn' = [conn EXCEPT ![s].out = Tail(c.out), ![s].wire = Append(c.wire, a), ![s].handles = H, ![s].refused = R]
      BY <1>8
    <3> HIDE DEF c, a, H, R
    <3>2. conn' = [conn EXCEPT ![s] = [[[[conn[s] EXCEPT !.out = Tail(c.out)] EXCEPT !.wire = Append(c.wire, a)] EXCEPT !.handles = H] EXCEPT !.refused = R]]
      BY <3>1, Zenon
    <3> QED
      BY <3>2 DEF Answered, c
  <2>3. ~(a.t = "status" /\ a.code = "ok")
    BY DEF Refused
  <2>4. stored' = [stored EXCEPT ![s] = st]
    BY <1>8 DEF SInv
  <2> HIDE DEF a, H, R, r, f, st
  <2> QED
    BY <2>1, <2>2, <2>3, <2>4, <1>6
<1> QED
  BY <1>4, <1>7, <1>8

-----------------------------------------------------------------------------
(* The theorem.                                                            *)

\* Sessions begin without operations.
LEMMA InitStores == Init => SInv
<1> SUFFICES ASSUME Init PROVE SInv
  OBVIOUS
<1>1. ses = [s \in Sessions |-> NewSession] /\ conn = [s \in Sessions |-> NoConn] /\ stored = [s \in Sessions |-> <<>>]
  BY DEF Init
<1>2. NewSession.mode = "CLOSED" /\ ~NewSession.eof
  BY DEF NewSession
<1>3. ASSUME NEW s \in Sessions
      PROVE  Own(s, ses[s], opens) /\ Mine(ses[s].file, conn[s], Past) /\ Storing(ses[s], conn[s], stored[s])
  <2>1. ses[s] = NewSession /\ conn[s] = NoConn
    BY <1>1
  <2>2. Own(s, ses[s], opens)
    BY <2>1, <1>2 DEF Own
  <2>3. Mine(ses[s].file, conn[s], Past)
    BY <2>1 DEF Mine, NoConn
  <2>4. Storing(ses[s], conn[s], stored[s])
    BY <2>1, <1>2 DEF Storing, Stores
  <2> QED
    BY <2>2, <2>3, <2>4
<1>4. stored = [s \in Sessions |-> stored[s]]
  BY <1>1
<1> QED
  BY <1>3, <1>4 DEF SInv

\* Every step keeps the files what they are said to be.
LEMMA NextStores == ASSUME WritesFirst PROVE IInv /\ SInv /\ [Next]_vars => SInv'
<1> SUFFICES ASSUME IInv, SInv, [Next]_vars PROVE SInv'
  OBVIOUS
<1>1. CASE UNCHANGED vars
  <2>1. ses' = ses /\ conn' = conn /\ stored' = stored /\ opens' = opens
    BY <1>1 DEF vars
  <2>2. Past' = Past
    BY <2>1 DEF Past
  <2> QED
    BY <2>1, <2>2 DEF SInv
<1>2. CASE Next
  <2>1. PICK s \in Sessions :
          \/ Do(s) \/ Connect(s) \/ IdleTimeout(s) \/ Timeout(s)
          \/ \E o \in Sessions : TakeConnection(s, o) \/ Interrupt(s, o)
          \/ UserOpens(s) \/ UserReads(s) \/ UserWrites(s) \/ UserEnds(s) \/ UserCloses(s)
          \/ Established(s) \/ Lose(s) \/ ServerAnswers(s)
    BY <1>2 DEF Next
  <2>2. CASE Do(s)
    BY <2>2, DoStores
  <2>3. CASE Connect(s)
    BY <2>3, ConnectStores
  <2>4. CASE IdleTimeout(s) \/ Timeout(s)
    <3>1. SetW(s, Disconnect(W(s))) /\ stored' = stored /\ opens' = opens
      BY <2>4 DEF IdleTimeout, Timeout
    <3> QED
      BY <3>1, DisconnectStores
  <2>5. CASE \E o \in Sessions : TakeConnection(s, o) \/ Interrupt(s, o)
    <3>1. PICK o \in Sessions : TakeConnection(s, o) \/ Interrupt(s, o)
      BY <2>5
    <3>2. CASE TakeConnection(s, o)
      BY <3>2, TakeStores
    <3>3. CASE Interrupt(s, o)
      <4>1. SetW(o, Disconnect(W(o))) /\ stored' = stored /\ opens' = opens
        BY <3>3 DEF Interrupt
      <4> QED
        BY <4>1, DisconnectStores
    <3> QED
      BY <3>1, <3>2, <3>3
  <2>6. CASE UserOpens(s)
    BY <2>6, OpensStores
  <2>7. CASE UserReads(s)
    BY <2>7, ReadsStores
  <2>8. CASE UserWrites(s)
    BY <2>8, WritesStores
  <2>9. CASE UserEnds(s)
    BY <2>9, EndsStores
  <2>10. CASE UserCloses(s)
    BY <2>10, ClosesStores
  <2>11. CASE Established(s)
    BY <2>11, EstablishedStores
  <2>12. CASE Lose(s)
    BY <2>12, LoseStores
  <2>13. CASE ServerAnswers(s)
    BY <2>13, ServerStores
  <2> QED
    BY <2>1, <2>2, <2>3, <2>4, <2>5, <2>6, <2>7, <2>8, <2>9, <2>10, <2>11, <2>12, <2>13
<1> QED
  BY <1>1, <1>2

\* A store is reported done only when the server has all of the file, whatever has been closed, taken over or
\* lost before (CloseExpectQueue, MoveConnectionHere, HandleExpect), if answers to writes are not overtaken
\* by the one to CLOSE: Do waits for the answer to CLOSE and not for those to the writes before it.
THEOREM StoresAll == ASSUME WritesFirst PROVE Spec => []StoredAll
<1>1. ASSUME IInv, SInv PROVE StoredAll
  <2> SUFFICES ASSUME NEW s \in Sessions, ses[s].mode = "STORE", ses[s].state = "DONE", ses[s].error = "OK"
               PROVE  stored[s] = [i \in 1..N |-> i - 1]
    BY DEF StoredAll
  <2>1. /\ Storing(ses[s], conn[s], stored[s]) /\ W(s).f = ses[s] /\ W(s).c = conn[s] /\ Session(W(s))
    BY <1>1, StoreIs DEF Good, Whole
  <2>2. conn[s].on
    BY <2>1 DEF Session
  <2>3. Stored(ses[s], conn[s], stored[s])
    BY <2>1, <2>2 DEF Storing, Stores
  <2> QED
    BY <2>3 DEF Stored, Prefix
<1>2. IInv /\ SInv /\ [Next]_vars => SInv'
  BY NextStores
<1> QED
  BY <1>1, <1>2, InitStores, Invariant, PTL DEF Spec
=============================================================================
