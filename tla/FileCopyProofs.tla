--------------------------- MODULE FileCopyProofs ---------------------------
(***************************************************************************)
(* That a copy stores no byte where it does not belong (InPlace), for      *)
(* sources of every size, all bounds, and any number of failures.  IInv is *)
(* inductive.  It has three parts:                                         *)
(*   GetOK   the buffer of the get peer holds the bytes that belong at its *)
(*           position, and the session delivers what follows them;         *)
(*   PutOK   the buffer of the put peer begins where the session or file   *)
(*           writes next, no further than what is stored and on its way    *)
(*           reaches, and all of that is in place;                         *)
(*   GlueAt  in which states of FileCopy::Do the position of the put peer  *)
(*           may be unknown (FILE_END), and how far the peers may differ.  *)
(* The first sections prove GetOK and PutOK of the operators on the peers  *)
(* and of the steps of the peers and sessions, the next all three of the   *)
(* steps of FileCopy::Do.                                                  *)
(***************************************************************************)
EXTENDS FileCopy, SequenceTheorems, TLAPS

\* A store into a session does not fail.  Without this the data that Put passes to a session
\* past the buffer, when the store has just failed, is later written at another position
\* (buffer.cc:456, FileCopy.cc:1317); a local file may fail, as may the source.
Reliable == \A c \in Copies : c.to_file \/ c.dst_faults = 0

\* The data s is what belongs at position p.
Run(s, p) == \A i \in DOMAIN s : s[i] = p + i - 1

-----------------------------------------------------------------------------
(* The invariant: the get peer and its session. *)

GetRec == [pos : 0..N, buf : Seq(Offset), eof : BOOLEAN, err : BOOLEAN, susp : BOOLEAN,
           seek : 0..N, can : BOOLEAN, size : Int, want : BOOLEAN,
           start : BOOLEAN, removing : BOOLEAN]
GetSession == [st : {"closed", "info", "replied", "remove", "conn", "data", "failed"},
               pos : -1..N, real : -1..N, io : BOOLEAN]
Reading(h) == h.st \in {"conn", "data", "failed"}

\* Peer g with session h: while it reads, the session is where the buffer ends; when it is
\* closed, the peer has reported the end or is where it was sought to, with nothing buffered.
GetOK(g, h) ==
    /\ g \in GetRec /\ h \in GetSession
    /\ Run(g.buf, g.pos)
    /\ g.pos + Len(g.buf) <= N
    /\ g.removing => ~Reading(h)
    /\ IF Reading(h)
       THEN ~g.eof /\ h.pos = g.pos + Len(g.buf)
       ELSE g.eof \/ (g.pos = g.seek /\ g.buf = <<>>)

Pair == [get : GetRec, gs : GetSession]
SrcOK(s) == s \in Pair /\ GetOK(s.get, s.gs)

-----------------------------------------------------------------------------
(* The invariant: the put peer, its session or file, and the target. *)

PutRec == [pos : 0..N, buf : Seq(Offset), eof : BOOLEAN, err : BOOLEAN, susp : BOOLEAN,
           seek : -1..N, can : BOOLEAN, size : Int, want : BOOLEAN, e_size : Int,
           verify : BOOLEAN, done : BOOLEAN]
PutSession == [st : {"closed", "info", "replied", "conn", "data", "wait", "stored", "refused"},
               pos : 0..N, real : -1..N, io : BOOLEAN]
Opened(h) == h.st \notin {"closed", "info", "replied"}

\* Where the first byte in the buffer belongs, and whether the put peer knows it.
Base(p) == p.pos - Len(p.buf)
Fresh(p) == to_file \/ p.seek = Base(p)

\* Target t and what is on its way to it, w: a part of the source, in order.
TargetOK(w, t) ==
    /\ w \in Seq(Offset) /\ t \in Seq(Offset)
    /\ Run(t, 0) /\ Run(w, Len(t)) /\ Len(t) + Len(w) <= N

\* The next byte of put peer p is to be written at position at: into a local file, into an open
\* session, or into one that is closed or asked for the size.
FileOK(p, h, w, t, at) ==
    /\ h.st \in {"data", "refused"} /\ w = <<>>
    /\ h.pos = at /\ at <= Len(t) /\ p.seek # FileEnd
OpenOK(p, h, w, t, at) ==
    /\ h.st # "refused" /\ h.pos = at /\ p.seek = at /\ at <= Len(t) + Len(w)
    /\ h.st = "data" => at = Len(t) + Len(w)
    /\ h.st \notin {"data", "wait"} => w = <<>>
ClosedAt(p, h, w, t) ==
    /\ w = <<>> /\ p.seek <= Len(t)
    /\ p.seek = FileEnd => p.want /\ p.size = NoSizeYet
    /\ h.st = "replied" => h.pos <= Len(t)
Core(p, h, w, t, at) ==
    /\ p \in PutRec /\ h \in PutSession /\ TargetOK(w, t) /\ p.can
    /\ IF to_file THEN FileOK(p, h, w, t, at)
       ELSE IF Opened(h) THEN OpenOK(p, h, w, t, at) ELSE ClosedAt(p, h, w, t)

\* Only a peer with nothing to write may not know its position.
PutOK(p, h, w, t) ==
    /\ Core(p, h, w, t, Base(p))
    /\ 0 <= Base(p) /\ Run(p.buf, Base(p))
    /\ Fresh(p) \/ (p.buf = <<>> /\ p.pos = 0)

Quad == [put : PutRec, ps : PutSession, wire : Seq(Offset), target : Seq(Offset)]
DstOK(o) == o \in Quad /\ PutOK(o.put, o.ps, o.wire, o.target)
NotEnd(p) == p.seek # FileEnd

-----------------------------------------------------------------------------
(* The invariant: how the peers relate. *)

\* The get peer is behind only when it has begun anew, or by less than what is skipped.
Lag(g, p) == g < p => g = 0 \/ p - g < SkipMin

States == {"INITIAL", "GET_INFO_WAIT", "PUT_WAIT", "DO_COPY", "pre_CONFIRM_WAIT", "CONFIRM_WAIT",
           "pre_GET_DONE_WAIT", "GET_DONE_WAIT", "ALL_DONE"}

\* In state st, with get peer g and put peer p, which was at eof_pos when it was to finish.
GlueAt(st, g, p, eof_pos) ==
    /\ st \in States
    /\ st \in {"INITIAL", "GET_INFO_WAIT", "PUT_WAIT"} => g.pos = 0
    /\ st \in {"INITIAL", "GET_INFO_WAIT"} => p.pos = 0 /\ Fresh(p)
    /\ Fresh(p) \/ (g.pos = 0 /\ st # "DO_COPY")
    /\ st = "CONFIRM_WAIT" => NotEnd(p) /\ (Fresh(p) \/ eof_pos = p.pos)
    /\ st \in {"pre_CONFIRM_WAIT", "DO_COPY"} => NotEnd(p)
    /\ st = "GET_DONE_WAIT" => g.eof
    /\ Lag(g.pos, p.pos)

IInv ==
    /\ chosen \in Copies /\ faults \in [1..2 -> Nat]
    /\ GetOK(get, gs)
    /\ PutOK(put, ps, wire, target)
    /\ GlueAt(state, get, put, put_eof_pos)

-----------------------------------------------------------------------------
(* Data and positions. *)

\* Data that follows data without a gap: Buffer::Put appends what belongs next.
LEMMA RunConcat ==
    ASSUME NEW a \in Seq(Offset), NEW b \in Seq(Offset), NEW p \in Int, Run(a, p), Run(b, p + Len(a))
    PROVE  a \o b \in Seq(Offset) /\ Len(a \o b) = Len(a) + Len(b) /\ Run(a \o b, p)
  BY DEF Run, Offset

\* Data from which n bytes are dropped (Buffer::Skip) begins n further on.
LEMMA RunRest ==
    ASSUME NEW s \in Seq(Offset), NEW p \in Int, Run(s, p), NEW n \in 0..Len(s)
    PROVE  Rest(s, n) \in Seq(Offset) /\ Len(Rest(s, n)) = Len(s) - n /\ Run(Rest(s, n), p + n)
<1> DEFINE r == Rest(s, n)
<1>1. \A i \in n + 1..Len(s) : s[i] \in Offset /\ s[i] = p + i - 1
  BY DEF Run
<1>2. /\ r \in Seq(Offset)
      /\ Len(r) = IF n + 1 <= Len(s) THEN Len(s) - (n + 1) + 1 ELSE 0
      /\ \A i \in 1..Len(s) - (n + 1) + 1 : r[i] = s[n + 1 + i - 1]
  BY <1>1, SubSeqProperties DEF Rest
<1>3. Len(s) \in Nat /\ Len(r) = Len(s) - n
  BY <1>2
<1>4. ASSUME NEW i \in 1..Len(r) PROVE r[i] = p + n + i - 1
  <2>1. r[i] = s[n + 1 + i - 1] BY <1>2, <1>3
  <2>2. n + 1 + i - 1 \in n + 1..Len(s) BY <1>3
  <2>3. s[n + 1 + i - 1] = p + (n + 1 + i - 1) - 1 BY <1>1, <2>2
  <2> QED BY <2>1, <2>3
<1>5. DOMAIN r = 1..Len(r) BY <1>2
<1> QED BY <1>2, <1>3, <1>4, <1>5 DEF Run

\* A part of the data, as a short write takes it, begins where the data begins.
LEMMA RunFront ==
    ASSUME NEW s \in Seq(Offset), NEW p \in Int, Run(s, p), NEW n \in 0..Len(s)
    PROVE  Front(s, n) \in Seq(Offset) /\ Len(Front(s, n)) = n /\ Run(Front(s, n), p)
<1> DEFINE r == Front(s, n)
<1>1. \A i \in 1..n : s[i] \in Offset /\ s[i] = p + i - 1
  BY DEF Run
<1>2. /\ r \in Seq(Offset)
      /\ Len(r) = IF 1 <= n THEN n - 1 + 1 ELSE 0
      /\ \A i \in 1..n - 1 + 1 : r[i] = s[1 + i - 1]
  BY <1>1, SubSeqProperties DEF Front
<1> QED BY <1>1, <1>2 DEF Run

\* What a session delivers from x on (Ftp::Read) are the bytes that belong there.
LEMMA SourceRun ==
    ASSUME NEW x \in 0..N, NEW n \in 0..N - x
    PROVE  /\ SubSeq(Source, x + 1, x + n) \in Seq(Offset)
           /\ Len(SubSeq(Source, x + 1, x + n)) = n
           /\ Run(SubSeq(Source, x + 1, x + n), x)
<1>1. N \in Nat BY FileCopyAssumption
<1>2. Source \in [1..N -> Offset] BY <1>1 DEF Source, Offset
<1>3. Source \in Seq(Offset) /\ Len(Source) = N BY <1>1, <1>2
<1>4. \A i \in 1..N : Source[i] = i - 1 BY <1>1 DEF Source
<1> QED BY <1>1, <1>3, <1>4 DEF Run

\* write(2) of the bytes that belong at p, in a file that reaches as far as p, leaves a
\* file with every byte in its place (FileCopyPeerFDStream::Put_LL).
LEMMA OverlayRun ==
    ASSUME NEW t \in Seq(Offset), Run(t, 0), NEW p \in 0..Len(t), NEW d \in Seq(Offset), Run(d, p)
    PROVE  /\ Overlay(t, p, d) \in Seq(Offset)
           /\ Len(Overlay(t, p, d)) = MaxOf(Len(t), p + Len(d))
           /\ Run(Overlay(t, p, d), 0)
<1> DEFINE m == MaxOf(Len(t), p + Len(d))
<1>1. m \in Nat /\ (m = Len(t) \/ m = p + Len(d)) /\ m >= Len(t) /\ m >= p + Len(d)
  BY DEF MaxOf
<1>2. \A i \in 1..m : i \in p + 1..p + Len(d) \/ i <= Len(t)
  BY <1>1
<1>3. \A i \in 1..m : Overlay(t, p, d)[i] = i - 1 /\ Overlay(t, p, d)[i] \in Offset
  BY <1>1, <1>2 DEF Overlay, Run
<1>4. Overlay(t, p, d) \in [1..m -> Offset]
  BY <1>3 DEF Overlay
<1>5. Overlay(t, p, d) \in Seq(Offset) /\ Len(Overlay(t, p, d)) = m
  BY <1>1, <1>4
<1> QED BY <1>1, <1>3, <1>5 DEF Run

\* An empty buffer may be said to begin anywhere.
LEMMA Empty == <<>> \in Seq(Offset) /\ Len(<<>>) = 0 /\ \A p : Run(<<>>, p)
  BY DEF Run

-----------------------------------------------------------------------------
(* The steps of the get peer and of its session. *)

\* GetRealPos of the get peer leaves the position, or sets it to 0 and drops the buffer,
\* when the server has refused REST.
LEMMA RealGetOK ==
    ASSUME NEW s, SrcOK(s)
    PROVE  /\ SrcOK(RealGet(s))
           /\ RealGet(s).get.pos \in {s.get.pos, 0}
           /\ RealGet(s).gs.st = s.gs.st
           /\ RealGet(s).get.eof = s.get.eof
<1> USE FileCopyAssumption
<1>0. s \in Pair /\ s.get \in GetRec /\ s.gs \in GetSession /\ GetOK(s.get, s.gs)
  BY DEF SrcOK, Pair
<1>1. CASE ~Reading(s.gs)
  BY <1>1 DEF RealGet, Reading
<1>2. CASE Reading(s.gs) /\ s.gs.real = 0 /\ s.gs.pos > 0
  <2> DEFINE t == [s EXCEPT !.get.can = FALSE, !.gs.pos = 0]
             u == [t EXCEPT !.get.pos = 0, !.get.buf = <<>>]
             g == [s.get EXCEPT !.can = FALSE]
             k == [g EXCEPT !.pos = 0, !.buf = <<>>]
             h == [s.gs EXCEPT !.pos = 0]
  <2>a. 0 \in 0..N OBVIOUS
  <2>1. t.get = g /\ t.gs = h /\ u.get = k /\ u.gs = h
    BY <1>0 DEF Pair
  <2>2. g \in GetRec /\ h \in GetSession /\ t \in Pair
    <3>1. g \in GetRec BY <1>0, Zenon DEF GetRec
    <3>2. h \in GetSession BY <1>0 DEF GetSession
    <3> QED BY <1>0, <2>1, <3>1, <3>2 DEF Pair
  <2>3. k \in GetRec /\ u \in Pair
    <3>1. k \in GetRec BY <2>2, <2>a, Empty, Zenon DEF GetRec
    <3> QED BY <2>1, <2>2, <3>1 DEF Pair
  <2>4. g.pos = s.get.pos /\ g.buf = s.get.buf /\ h.pos = 0 /\ h.st = s.gs.st
    BY <1>0 DEF GetRec, GetSession
  <2>5. RealGet(s) = u
    <3>1. s.gs.real = 0 /\ s.gs.pos > 0 /\ ~(s.gs.st \notin {"conn", "data", "failed"} \/ s.get.eof)
      BY <1>0, <1>2 DEF Reading, GetOK
    <3>2. t.get.pos + Len(t.get.buf) # t.gs.pos /\ t.gs.pos = 0
      <4>1. s.gs.pos = s.get.pos + Len(s.get.buf) /\ s.gs.pos > 0
        BY <1>0, <1>2 DEF GetOK
      <4>2. t.get.pos = s.get.pos /\ t.get.buf = s.get.buf /\ t.gs.pos = 0
        BY <2>1, <2>4
      <4> QED BY <4>1, <4>2
    <3> QED BY <3>1, <3>2, Zenon DEF RealGet
  <2>6. k.pos = 0 /\ k.buf = <<>> /\ k.eof = s.get.eof /\ k.removing = s.get.removing
    BY <1>0, <2>2 DEF GetRec
  <2> HIDE DEF k, u, t, g, h
  <2> QED BY <1>0, <1>2, <2>1, <2>2, <2>3, <2>4, <2>5, <2>6, Empty DEF SrcOK, GetOK, Reading
<1>3. CASE Reading(s.gs) /\ ~(s.gs.real = 0 /\ s.gs.pos > 0)
  BY <1>0, <1>3 DEF RealGet, Reading, SrcOK, GetOK
<1> QED BY <1>1, <1>2, <1>3

\* What the other fields of a get peer are does not matter.
LEMMA GetFields ==
    ASSUME NEW g, NEW k \in GetRec, NEW h, GetOK(g, h), k.pos = g.pos, k.buf = g.buf, k.seek = g.seek,
           k.eof = g.eof, k.removing = g.removing
    PROVE  GetOK(k, h)
  BY DEF GetOK

\* Suspending or resuming the get peer does not touch its position or its data.
LEMMA SuspendGetOK ==
    ASSUME NEW s, SrcOK(s), NEW b \in BOOLEAN
    PROVE  /\ SrcOK(SuspendGet(s, b))
           /\ SuspendGet(s, b).get.pos = s.get.pos
           /\ SuspendGet(s, b).get.eof = s.get.eof
<1> DEFINE k == [s.get EXCEPT !.susp = b]
           u == SuspendGet(s, b)
<1>1. s \in Pair /\ s.get \in GetRec /\ GetOK(s.get, s.gs)
  BY DEF SrcOK, Pair
<1>2. k \in GetRec /\ k.pos = s.get.pos /\ k.buf = s.get.buf /\ k.seek = s.get.seek
      /\ k.eof = s.get.eof /\ k.removing = s.get.removing
  BY <1>1 DEF GetRec
<1>3. u.get = k /\ u.gs = s.gs /\ u \in Pair
  BY <1>1, <1>2 DEF SuspendGet, Pair
<1> QED BY <1>1, <1>2, <1>3, GetFields DEF SrcOK

\* A closed session is one a get peer may have, and one a put peer may have.
LEMMA ClosedOK == Closed \in GetSession /\ Closed \in PutSession /\ Closed.st = "closed" /\ ~Reading(Closed)
  BY FileCopyAssumption DEF Closed, GetSession, PutSession, Reading

\* A session that begins at x.
At(x) == [Closed EXCEPT !.st = "conn", !.pos = x]
\* So is a session that OpenSession has just asked to begin at x.
LEMMA AtOK ==
    ASSUME NEW x \in 0..N
    PROVE  At(x) \in GetSession /\ At(x) \in PutSession /\ At(x).st = "conn" /\ At(x).pos = x
<1>1. N \in Nat BY FileCopyAssumption
<1>2. x \in -1..N BY <1>1
<1> QED BY <1>1, <1>2, ClosedOK DEF At, GetSession, PutSession

\* Seek of the get peer: the buffer is dropped, the session is closed, and the peer is at x.
LEMMA SeekGetOK ==
    ASSUME NEW s, SrcOK(s), NEW x \in 0..N
    PROVE  SrcOK(SeekGet(s, x)) /\ SeekGet(s, x).get.pos = x
<1>1. s \in Pair /\ s.get \in GetRec /\ GetOK(s.get, s.gs)
  BY DEF SrcOK, Pair
<1>2. CASE s.get.pos = x
  BY <1>2 DEF SeekGet
<1>3. CASE s.get.pos # x
  <2> DEFINE k == [s.get EXCEPT !.seek = x, !.pos = x, !.buf = <<>>, !.eof = FALSE]
  <2>1. k \in GetRec
    BY <1>1, Empty, Zenon DEF GetRec
  <2>2. k.pos = x /\ k.seek = x /\ k.buf = <<>>
    BY <1>1 DEF GetRec
  <2>3. SeekGet(s, x) = [get |-> k, gs |-> Closed]
    BY <1>3, Zenon DEF SeekGet
  <2> HIDE DEF k
  <2>4. GetOK(k, Closed)
    BY <2>1, <2>2, ClosedOK, Empty DEF GetOK
  <2> QED BY <2>1, <2>2, <2>3, <2>4, ClosedOK DEF SrcOK, Pair
<1> QED BY <1>2, <1>3

\* OpenSession of the get peer begins to read where the peer was sought to, and past the
\* known end it reports the end; nothing that was read is lost.
LEMMA OpenGetOK ==
    ASSUME NEW s, SrcOK(s), ~s.get.eof, ~s.get.removing
    PROVE  SrcOK(OpenGet(s)) /\ OpenGet(s).get.pos = s.get.pos
<1> USE FileCopyAssumption
<1> DEFINE g == s.get
           past == g.size # NoSize /\ g.size # NoSizeYet /\ (g.seek > g.size \/ (g.seek = g.size /\ g.size > 0))
<1>1. s \in Pair /\ g \in GetRec /\ s.gs \in GetSession /\ GetOK(g, s.gs)
  BY DEF SrcOK, Pair
<1>2. CASE s.gs.st # "closed"
  BY <1>2 DEF OpenGet
<1>3. CASE s.gs.st = "closed" /\ past
  <2> DEFINE u == [s EXCEPT !.get.pos = g.seek, !.get.eof = TRUE]
             k == [g EXCEPT !.pos = g.seek, !.eof = TRUE]
  <2>1. OpenGet(s) = u
    BY <1>3, Zenon DEF OpenGet
  <2>2. g.pos = g.seek /\ g.buf = <<>> /\ g.seek \in 0..N
    BY <1>1, <1>3 DEF GetOK, Reading, GetRec
  <2>3. k \in GetRec
    BY <1>1, <2>2, Zenon DEF GetRec
  <2>4. u.get = k /\ u.gs = s.gs
    BY <1>1 DEF Pair
  <2>5. k.pos = g.pos /\ k.buf = <<>> /\ k.eof /\ k.removing = g.removing
    BY <1>1, <2>2 DEF GetRec
  <2>6. u \in Pair
    BY <1>1, <2>3, <2>4 DEF Pair
  <2> HIDE DEF k, u, g, past
  <2>7. GetOK(k, s.gs)
    BY <1>1, <1>3, <2>2, <2>3, <2>5, Empty DEF GetOK, Reading
  <2> QED BY <2>1, <2>4, <2>5, <2>6, <2>7 DEF SrcOK, g
<1>4. CASE s.gs.st = "closed" /\ ~past
  <2> DEFINE k == [g EXCEPT !.pos = g.seek, !.buf = <<>>]
             h == At(g.seek)
  <2>1. OpenGet(s) = [get |-> k, gs |-> h]
    BY <1>4, Zenon DEF OpenGet, At
  <2>2. g.pos = g.seek /\ g.buf = <<>> /\ g.seek \in 0..N
    BY <1>1, <1>4 DEF GetOK, Reading, GetRec
  <2>3. k \in GetRec /\ k.pos = g.pos /\ k.buf = <<>> /\ k.eof = g.eof /\ k.removing = g.removing
    BY <1>1, <2>2 DEF GetRec
  <2>4. h \in GetSession /\ h.st = "conn" /\ h.pos = g.pos
    BY <2>2, AtOK
  <2> HIDE DEF k, h, g, past
  <2>5. GetOK(k, h)
    BY <1>1, <2>2, <2>3, <2>4, Empty DEF GetOK, Reading, g, GetRec
  <2> QED BY <2>1, <2>3, <2>4, <2>5 DEF SrcOK, Pair, g
<1> QED BY <1>2, <1>3, <1>4

\* What is read from the session is appended to what was read before it.
LEMMA ReadOK ==
    ASSUME NEW g, NEW h, GetOK(g, h), h.st = "data", NEW d \in Seq(Offset), Run(d, h.pos), h.pos + Len(d) <= N
    PROVE  /\ GetOK([g EXCEPT !.buf = @ \o d], [h EXCEPT !.pos = @ + Len(d), !.real = h.pos + Len(d)])
           /\ [g EXCEPT !.buf = @ \o d].pos = g.pos
<1> DEFINE c == g.buf \o d
           y == h.pos + Len(d)
           k == [g EXCEPT !.buf = c]
           m == [h EXCEPT !.pos = y, !.real = y]
<1>1. /\ g \in GetRec /\ h \in GetSession /\ g.pos \in 0..N /\ Len(g.buf) \in Nat /\ g.buf \in Seq(Offset)
      /\ Run(g.buf, g.pos) /\ ~g.eof /\ ~g.removing /\ h.pos = g.pos + Len(g.buf) /\ N \in Nat
  BY FileCopyAssumption DEF GetOK, Reading, GetRec
<1>2. c \in Seq(Offset) /\ Len(c) = Len(g.buf) + Len(d) /\ Run(c, g.pos)
  <2>1. g.pos \in Int /\ Run(d, g.pos + Len(g.buf)) BY <1>1
  <2> QED BY <1>1, <2>1, RunConcat
<1>3. y \in -1..N /\ y \in Nat /\ y = g.pos + Len(c)
  BY <1>1, <1>2
<1> HIDE DEF c, y
<1>4. k \in GetRec /\ k.pos = g.pos /\ k.buf = c /\ k.eof = g.eof /\ k.removing = g.removing
  BY <1>1, <1>2 DEF GetRec
<1>5. m \in GetSession /\ m.pos = y /\ m.st = "data"
  BY <1>1, <1>3 DEF GetSession
<1>6. k = [g EXCEPT !.buf = @ \o d] /\ m = [h EXCEPT !.pos = @ + Len(d), !.real = h.pos + Len(d)]
  BY DEF c, y
<1> HIDE DEF k, m
<1>7. GetOK(k, m)
  <2>1. Reading(m) BY <1>5 DEF Reading
  <2>2. k.pos + Len(k.buf) <= N BY <1>3, <1>4
  <2> QED BY <1>1, <1>2, <1>3, <1>4, <1>5, <2>1, <2>2 DEF GetOK
<1> QED BY <1>4, <1>6, <1>7

\* Get_LL in each of its outcomes: at most the session turns out to begin at 0.
LEMMA GetLLOK ==
    ASSUME NEW s, SrcOK(s), ~s.get.eof, ~s.get.removing, NEW r \in GetLL(s)
    PROVE  SrcOK(r) /\ r.get.pos \in {s.get.pos, 0}
<1> USE FileCopyAssumption
<1> DEFINE a == OpenGet(s)
           b == RealGet(a)
           fails == [b EXCEPT !.get.err = TRUE]
           ends == [b EXCEPT !.get.eof = TRUE, !.gs = Closed]
           reads(n) == [b EXCEPT !.gs.pos = @ + n, !.gs.real = b.gs.pos + n,
                                 !.get.buf = @ \o SubSeq(Source, b.gs.pos + 1, b.gs.pos + n)]
<1>1. SrcOK(a) /\ a.get.pos = s.get.pos
  BY OpenGetOK
<1>2. SrcOK(b) /\ b.get.pos \in {s.get.pos, 0}
  BY <1>1, RealGetOK
<1>3. b \in Pair /\ b.get \in GetRec /\ b.gs \in GetSession /\ GetOK(b.get, b.gs)
  BY <1>2 DEF SrcOK, Pair
<1>4. \/ r \in {a, b}
      \/ r = fails
      \/ r = ends
      \/ /\ b.gs.st = "data" /\ b.gs.pos < N
         /\ \E n \in 1..MinOf(MaxBuf, N - b.gs.pos) : r = reads(n)
  BY Zenon DEF GetLL
<1> HIDE DEF a, b
<1>5. CASE r \in {a, b}
  BY <1>1, <1>2, <1>5
<1>6. CASE r = fails
  <2> DEFINE k == [b.get EXCEPT !.err = TRUE]
  <2>1. k \in GetRec BY <1>3, Zenon DEF GetRec
  <2>2. fails.get = k /\ fails.gs = b.gs BY <1>3 DEF Pair
  <2>3. fails \in Pair BY <1>3, <2>1, <2>2 DEF Pair
  <2>4. k.pos = b.get.pos /\ k.buf = b.get.buf /\ k.seek = b.get.seek /\ k.eof = b.get.eof
        /\ k.removing = b.get.removing
    BY <1>3 DEF GetRec
  <2> HIDE DEF k, fails
  <2> QED BY <1>2, <1>3, <1>6, <2>1, <2>2, <2>3, <2>4, GetFields DEF SrcOK
<1>7. CASE r = ends
  <2> DEFINE k == [b.get EXCEPT !.eof = TRUE]
  <2>1. k \in GetRec BY <1>3, Zenon DEF GetRec
  <2>2. ends.get = k /\ ends.gs = Closed BY <1>3 DEF Pair
  <2>3. ends \in Pair BY <1>3, <2>1, <2>2, ClosedOK DEF Pair
  <2>4. k.pos = b.get.pos /\ k.buf = b.get.buf /\ k.eof
    BY <1>3 DEF GetRec
  <2> HIDE DEF k, ends
  <2>5. GetOK(k, Closed)
    BY <1>3, <2>1, <2>4, ClosedOK DEF GetOK
  <2> QED BY <1>2, <1>7, <2>2, <2>3, <2>4, <2>5 DEF SrcOK
<1>8. ASSUME b.gs.st = "data", b.gs.pos < N, NEW n \in 1..MinOf(MaxBuf, N - b.gs.pos), r = reads(n)
      PROVE  SrcOK(r) /\ r.get.pos = b.get.pos
  <2> DEFINE d == SubSeq(Source, b.gs.pos + 1, b.gs.pos + n)
  <2>1. b.gs.pos \in 0..N
    BY <1>3, <1>8 DEF GetOK, Reading, GetRec
  <2>2. n \in 1..N - b.gs.pos
    BY <1>8, <2>1 DEF MinOf
  <2>3. d \in Seq(Offset) /\ Len(d) = n /\ Run(d, b.gs.pos)
    BY <2>1, <2>2, SourceRun
  <2>4. r.get = [b.get EXCEPT !.buf = @ \o d] /\ r.gs = [b.gs EXCEPT !.pos = @ + n, !.real = b.gs.pos + n]
    BY <1>3, <1>8 DEF Pair
  <2> HIDE DEF d, reads
  <2>5. GetOK(r.get, r.gs) /\ r.get.pos = b.get.pos
    <3>1. b.gs.pos + Len(d) <= N /\ Len(d) = n BY <2>1, <2>2, <2>3
    <3>2. r.gs = [b.gs EXCEPT !.pos = @ + Len(d), !.real = b.gs.pos + Len(d)] BY <2>4, <3>1
    <3>3. /\ GetOK([b.get EXCEPT !.buf = @ \o d], [b.gs EXCEPT !.pos = @ + Len(d), !.real = b.gs.pos + Len(d)])
          /\ [b.get EXCEPT !.buf = @ \o d].pos = b.get.pos
      BY <1>3, <1>8, <2>3, <3>1, ReadOK, Zenon
    <3> QED BY <2>4, <3>2, <3>3, Zenon
  <2>6. r \in Pair
    <3>1. r.get \in GetRec /\ r.gs \in GetSession BY <2>5 DEF GetOK
    <3> QED BY <1>3, <1>8, <3>1 DEF Pair, reads
  <2> QED BY <2>5, <2>6 DEF SrcOK
<1> QED BY <1>2, <1>4, <1>5, <1>6, <1>7, <1>8

\* The get peer and its session as one record, as the operators of FileCopy take them.
LEMMA PairOK ==
    /\ SrcOK(Getting) <=> GetOK(get, gs)
    /\ \A s : SrcOK(s) /\ SetGet(s) => GetOK(get, gs)' /\ get' = s.get
<1>1. SrcOK(Getting) <=> GetOK(get, gs)
  BY DEF SrcOK, Getting, GetOK, Pair
<1>2. ASSUME NEW s, SrcOK(s), SetGet(s) PROVE GetOK(get, gs)' /\ get' = s.get
  BY <1>2 DEF SrcOK, SetGet, GetOK, Reading
<1> QED BY <1>1, <1>2

\* Do of the get peer, in all its cases, leaves the peer and its session consistent.
LEMMA GetDoStep ==
    ASSUME GetOK(get, gs), GetDo
    PROVE  /\ GetOK(get, gs)' /\ get'.pos \in {get.pos, 0}
           /\ get.eof => get'.eof
           /\ UNCHANGED <<kind, copy, dest>>
<1>0. get \in GetRec /\ gs \in GetSession /\ SrcOK(Getting) /\ Getting.get = get /\ Getting.gs = gs
      /\ UNCHANGED <<kind, copy, dest>>
  BY PairOK DEF GetOK, Getting, GetDo
<1>1. CASE get.removing /\ SetGet([get |-> [get EXCEPT !.removing = FALSE, !.susp = TRUE], gs |-> Closed])
  <2> DEFINE k == [get EXCEPT !.removing = FALSE, !.susp = TRUE]
  <2>1. k \in GetRec BY <1>0, Zenon DEF GetRec
  <2>2. k.pos = get.pos /\ k.buf = get.buf /\ k.seek = get.seek /\ k.eof = get.eof /\ ~k.removing
    BY <1>0 DEF GetRec
  <2> HIDE DEF k
  <2>3. get' = k /\ gs' = Closed BY <1>1 DEF SetGet, k
  <2>4. GetOK(k, Closed) BY <1>1, <2>1, <2>2, ClosedOK DEF GetOK
  <2> QED BY <1>0, <2>2, <2>3, <2>4 DEF GetOK, Reading
<1>2. CASE SetGet(Getting)
  BY <1>0, <1>2, PairOK
<1>3. CASE gs.st = "closed" /\ SetGet([Getting EXCEPT !.gs.st = "info"])
  <2> DEFINE h == [gs EXCEPT !.st = "info"]
  <2>1. get' = get /\ gs' = h BY <1>3 DEF SetGet, Getting
  <2>2. h \in GetSession /\ h.st = "info" BY <1>0 DEF GetSession
  <2> HIDE DEF h
  <2>3. GetOK(get, h) BY <1>0, <1>3, <2>2 DEF GetOK, Reading
  <2> QED BY <1>0, <2>1, <2>3 DEF GetOK, Reading
<1>4. CASE gs.st = "replied" /\ SetGet([get |-> [get EXCEPT !.size = gs.pos], gs |-> Closed])
  <2> DEFINE k == [get EXCEPT !.size = gs.pos]
  <2>1. gs.pos \in Int BY <1>0, FileCopyAssumption DEF GetSession
  <2>2. k \in GetRec /\ k.pos = get.pos /\ k.buf = get.buf /\ k.seek = get.seek /\ k.eof = get.eof
        /\ k.removing = get.removing
    BY <1>0, <2>1 DEF GetRec
  <2>3. get' = k /\ gs' = Closed BY <1>4 DEF SetGet
  <2> HIDE DEF k
  <2>4. GetOK(k, Closed) BY <1>0, <1>4, <2>2, ClosedOK DEF GetOK, Reading
  <2> QED BY <1>0, <2>2, <2>3, <2>4 DEF GetOK, Reading
<1>5. ASSUME ~get.removing, ~get.eof, NEW s \in GetLL(Getting), SetGet(s)
      PROVE  GetOK(get, gs)' /\ get'.pos \in {get.pos, 0}
  BY <1>0, <1>5, GetLLOK, PairOK
<1>6. \/ get.removing /\ SetGet([get |-> [get EXCEPT !.removing = FALSE, !.susp = TRUE], gs |-> Closed])
      \/ SetGet(Getting)
      \/ gs.st = "closed" /\ SetGet([Getting EXCEPT !.gs.st = "info"])
      \/ gs.st = "replied" /\ SetGet([get |-> [get EXCEPT !.size = gs.pos], gs |-> Closed])
      \/ ~get.removing /\ ~get.eof /\ \E s \in GetLL(Getting) : SetGet(s)
  BY Zenon DEF GetDo
<1> QED BY <1>0, <1>1, <1>2, <1>3, <1>4, <1>5, <1>6

\* What the session of the get peer does by itself.
LEMMA SourceStep ==
    ASSUME GetOK(get, gs), SrcConnect \/ SrcFail \/ SrcInfo
    PROVE  /\ GetOK(get, gs)' /\ get'.pos = get.pos /\ get'.eof = get.eof
           /\ UNCHANGED <<kind, copy, dest>>
<1>0. get \in GetRec /\ gs \in GetSession /\ UNCHANGED <<kind, copy, dest>> /\ N \in Nat
  BY FileCopyAssumption DEF GetOK, SrcConnect, SrcFail, SrcInfo, SrcStays
<1>1. CASE SrcConnect
  <2> DEFINE x == IF get.want THEN N ELSE get.size
             k == [get EXCEPT !.size = x]
  <2>1. x \in Int BY <1>0 DEF GetRec
  <2> HIDE DEF x
  <2>2. k \in GetRec /\ k.pos = get.pos /\ k.buf = get.buf /\ k.seek = get.seek /\ k.eof = get.eof
        /\ k.removing = get.removing
    BY <1>0, <2>1 DEF GetRec
  <2>3. get' = k BY <1>1 DEF SrcConnect, x
  <2>4. PICK real \in {gs.pos, 0} : gs.st = "conn" /\ gs' = [gs EXCEPT !.st = "data", !.real = real]
    BY <1>1 DEF SrcConnect
  <2>5. real \in -1..N BY <1>0 DEF GetSession
  <2>6. gs' \in GetSession /\ gs'.pos = gs.pos /\ gs'.st = "data" BY <1>0, <2>4, <2>5 DEF GetSession
  <2> HIDE DEF k
  <2>7. GetOK(k, gs') BY <1>0, <2>2, <2>4, <2>6 DEF GetOK, Reading
  <2> QED BY <1>0, <2>2, <2>3, <2>7 DEF GetOK, Reading
<1>2. CASE SrcFail
  <2>1. PICK st \in {"conn", "failed"} : gs.st \in {"conn", "data"} /\ gs' = [gs EXCEPT !.st = st, !.real = -1]
    BY <1>2 DEF SrcFail
  <2>2. get' = get BY <1>2 DEF SrcFail
  <2>a. -1 \in -1..N BY <1>0
  <2>3. gs' \in GetSession /\ gs'.pos = gs.pos /\ gs'.st = st
    BY <1>0, <2>1, <2>a DEF GetSession
  <2>4. GetOK(get, gs') BY <1>0, <2>1, <2>3 DEF GetOK, Reading
  <2> QED BY <1>0, <2>2, <2>4 DEF GetOK, Reading
<1>3. CASE SrcInfo
  <2>1. PICK x \in {N, NoSize} : gs.st = "info" /\ gs' = [gs EXCEPT !.st = "replied", !.pos = x]
    BY <1>3 DEF SrcInfo
  <2>2. get' = get BY <1>3 DEF SrcInfo
  <2>3. x \in -1..N BY <1>0 DEF NoSize
  <2>4. gs' \in GetSession /\ gs'.st = "replied" BY <1>0, <2>1, <2>3 DEF GetSession
  <2>5. GetOK(get, gs') BY <1>0, <2>1, <2>4 DEF GetOK, Reading
  <2> QED BY <1>0, <2>2, <2>5 DEF GetOK, Reading
<1> QED BY <1>1, <1>2, <1>3

-----------------------------------------------------------------------------
(* The steps of the put peer, of its session and of the server. *)

\* The put peer, its session, the data on its way and the target as one record.
LEMMA QuadOK ==
    /\ DstOK(Putting) <=> PutOK(put, ps, wire, target)
    /\ Putting.put = put /\ Putting.ps = ps /\ Putting.wire = wire /\ Putting.target = target
    /\ \A o : DstOK(o) /\ SetPut(o) => PutOK(put', ps', wire', target') /\ put' = o.put
<1>1. Putting.put = put /\ Putting.ps = ps /\ Putting.wire = wire /\ Putting.target = target
  BY DEF Putting
<1>2. PutOK(put, ps, wire, target) => Putting \in Quad
  BY DEF PutOK, Core, TargetOK, Putting, Quad
<1>3. ASSUME NEW o, DstOK(o), SetPut(o) PROVE PutOK(put', ps', wire', target') /\ put' = o.put
  BY <1>3 DEF DstOK, SetPut
<1> HIDE DEF Putting
<1> QED BY <1>1, <1>2, <1>3 DEF DstOK

\* What a consistent put peer implies about positions: the buffer lies within the file, and
\* begins Len(buf) before the position.
LEMMA BaseOK ==
    ASSUME NEW p, NEW h, NEW w, NEW t, PutOK(p, h, w, t)
    PROVE  /\ N \in Nat /\ p \in PutRec /\ h \in PutSession /\ w \in Seq(Offset) /\ t \in Seq(Offset)
           /\ p.buf \in Seq(Offset) /\ Len(p.buf) \in Nat /\ Len(w) \in Nat /\ Len(t) \in Nat
           /\ Base(p) \in 0..N /\ p.pos \in 0..N /\ p.pos = Base(p) + Len(p.buf)
           /\ Run(p.buf, Base(p)) /\ p.can /\ p.seek \in -1..N
           /\ p.pos = 0 => p.buf = <<>> /\ Base(p) = 0
<1>1. N \in Nat /\ p \in PutRec /\ h \in PutSession /\ w \in Seq(Offset) /\ t \in Seq(Offset) /\ p.can
      /\ 0 <= Base(p) /\ Run(p.buf, Base(p))
  BY FileCopyAssumption DEF PutOK, Core, TargetOK
<1>2. p.buf \in Seq(Offset) /\ p.pos \in 0..N /\ p.seek \in -1..N
  BY <1>1 DEF PutRec
<1>3. Len(p.buf) \in Nat /\ Len(w) \in Nat /\ Len(t) \in Nat
  BY <1>1, <1>2
<1>4. Base(p) \in 0..N /\ p.pos = Base(p) + Len(p.buf)
  BY <1>1, <1>2, <1>3 DEF Base
<1>5. p.pos = 0 => Len(p.buf) = 0 /\ Base(p) = 0
  BY <1>2, <1>3, <1>4
<1> QED BY <1>1, <1>2, <1>3, <1>4, <1>5

\* At FILE_END the size of the target is being asked for.
LEMMA EndOK ==
    ASSUME NEW p, NEW h, NEW w, NEW t, PutOK(p, h, w, t), ~NotEnd(p)
    PROVE  ~to_file /\ ~Opened(h) /\ p.want /\ p.size = NoSizeYet /\ ~Fresh(p)
<1>1. Core(p, h, w, t, Base(p)) /\ p.seek = -1 /\ Base(p) \in 0..N
  BY BaseOK DEF PutOK, NotEnd, FileEnd
<1>2. ~to_file BY <1>1 DEF Core, FileOK, FileEnd
<1>3. ~Opened(h) BY <1>1, <1>2 DEF Core, OpenOK
<1> QED BY <1>1, <1>2, <1>3 DEF Core, ClosedAt, FileEnd, Fresh

\* What the other fields of a put peer are does not matter.
LEMMA PutFields ==
    ASSUME NEW p, NEW h, NEW w, NEW t, PutOK(p, h, w, t), NEW q \in PutRec,
           q.pos = p.pos, q.buf = p.buf, q.seek = p.seek, q.can = p.can,
           NotEnd(p) \/ (q.want /\ q.size = NoSizeYet)
    PROVE  PutOK(q, h, w, t) /\ Base(q) = Base(p) /\ (Fresh(q) <=> Fresh(p)) /\ (NotEnd(q) <=> NotEnd(p))
<1>1. Base(q) = Base(p) BY DEF Base
<1>2. (Fresh(q) <=> Fresh(p)) /\ (NotEnd(q) <=> NotEnd(p)) BY <1>1 DEF Fresh, NotEnd
<1>3. Core(q, h, w, t, Base(q))
  BY <1>1 DEF PutOK, Core, FileOK, OpenOK, ClosedAt, NotEnd
<1> QED BY <1>1, <1>2, <1>3 DEF PutOK

\* Suspending or resuming the put peer does not touch its position or its data.
LEMMA SuspendPutOK ==
    ASSUME NEW o, DstOK(o), NEW b \in BOOLEAN
    PROVE  /\ DstOK(SuspendPut(o, b))
           /\ SuspendPut(o, b).put.pos = o.put.pos
           /\ SuspendPut(o, b).put.buf = o.put.buf
           /\ SuspendPut(o, b).put.seek = o.put.seek
           /\ Base(SuspendPut(o, b).put) = Base(o.put)
<1> DEFINE k == [o.put EXCEPT !.susp = b]
           u == SuspendPut(o, b)
<1>1. o \in Quad /\ o.put \in PutRec /\ PutOK(o.put, o.ps, o.wire, o.target)
  BY DEF DstOK, Quad
<1>2. k \in PutRec /\ k.pos = o.put.pos /\ k.buf = o.put.buf /\ k.seek = o.put.seek
      /\ k.can = o.put.can /\ k.want = o.put.want /\ k.size = o.put.size
  BY <1>1 DEF PutRec
<1>3. u.put = k /\ u.ps = o.ps /\ u.wire = o.wire /\ u.target = o.target /\ u \in Quad
  BY <1>1, <1>2 DEF SuspendPut, Quad
<1>4. NotEnd(o.put) \/ (k.want /\ k.size = NoSizeYet)
  BY <1>1, <1>2, EndOK
<1> HIDE DEF k, u
<1> QED BY <1>1, <1>2, <1>3, <1>4, PutFields DEF DstOK, u

\* GetRealPos finds the session of a put peer always where the peer takes it to be.
LEMMA RealPutOK ==
    ASSUME NEW o, DstOK(o)
    PROVE  RealPut(o) = o
<1>1. to_file \/ ~Open(o) \/ o.put.pos - Len(o.put.buf) = o.ps.pos
  BY DEF DstOK, PutOK, Core, OpenOK, Open, Opened, Base
<1> QED BY <1>1 DEF RealPut

\* Closing the session gives up what is on its way, and leaves peer and target alone.
LEMMA CloseOK ==
    ASSUME NEW o \in Quad
    PROVE  /\ Close(o) \in Quad /\ Close(o).put = o.put /\ Close(o).ps = Closed
           /\ Close(o).wire = <<>> /\ Close(o).target = o.target
<1>1. Close(o).put = o.put /\ Close(o).ps = Closed /\ Close(o).wire = <<>> /\ Close(o).target = o.target
  BY DEF Close, Quad
<1> QED BY <1>1, ClosedOK, Empty DEF Close, Quad

\* Arithmetic: n of the bytes d, written at c, end inside the file.
LEMMA Within ==
    ASSUME NEW c \in 0..N, NEW d \in Seq(Offset), NEW n \in 0..Len(d), N \in Nat, c + Len(d) <= N
    PROVE  c + n \in 0..N /\ c + n \in -1..N /\ n \in Nat /\ Len(d) \in Nat /\ Len(d) - n \in Nat
<1> DEFINE l == Len(d)
<1>1. l \in Nat /\ n \in 0..l /\ c + l <= N OBVIOUS
<1> HIDE DEF l
<1>2. c + n \in 0..N /\ c + n \in -1..N /\ n \in Nat /\ l - n \in Nat BY <1>1
<1> QED BY <1>1, <1>2 DEF l

\* The target is never longer than the source.
LEMMA LenBound ==
    ASSUME NEW w, NEW t, TargetOK(w, t), Len(t) \in Nat, Len(w) \in Nat, N \in Nat
    PROVE  Len(t) \in 0..N
<1> DEFINE a == Len(t)
           b == Len(w)
<1>1. a \in Nat /\ b \in Nat /\ a + b <= N BY DEF TargetOK
<1> HIDE DEF a, b
<1>2. a \in 0..N BY <1>1
<1> QED BY <1>2 DEF a

\* Seek of the put peer to the start, or, from the start, to the end of the target.
LEMMA SeekPutOK ==
    ASSUME NEW o, DstOK(o), NEW x \in {0, FileEnd},
           x = 0 => Fresh(o.put) /\ NotEnd(o.put),
           x = FileEnd => o.put.pos = 0
    PROVE  /\ DstOK(SeekPut(o, x))
           /\ x = 0 => /\ SeekPut(o, x).put.pos = 0
                       /\ Fresh(SeekPut(o, x).put) /\ NotEnd(SeekPut(o, x).put)
           /\ Fresh(SeekPut(o, x).put) \/ SeekPut(o, x).put.pos = 0
<1> DEFINE p == o.put
           u == SeekPut(o, x)
           to == IF x = FileEnd THEN Len(o.target) ELSE x
           q == [p EXCEPT !.seek = x, !.pos = @ - Len(p.buf), !.buf = <<>>, !.eof = FALSE]
<1>1. o \in Quad /\ PutOK(p, o.ps, o.wire, o.target) /\ TargetOK(o.wire, o.target)
      /\ Core(p, o.ps, o.wire, o.target, Base(p))
  BY DEF DstOK, PutOK, Core
<1>2. /\ N \in Nat /\ p \in PutRec /\ o.ps \in PutSession /\ Base(p) \in 0..N /\ p.can
      /\ Len(o.target) \in 0..N /\ Len(o.wire) \in Nat
      /\ p.pos = 0 => p.buf = <<>> /\ Base(p) = 0
  <2>1. /\ N \in Nat /\ p \in PutRec /\ o.ps \in PutSession /\ Base(p) \in 0..N /\ p.can
        /\ Len(o.target) \in Nat /\ Len(o.wire) \in Nat
        /\ p.pos = 0 => p.buf = <<>> /\ Base(p) = 0
    BY <1>1, BaseOK
  <2>2. N \in Nat /\ Len(o.target) \in Nat /\ Len(o.wire) \in Nat BY <2>1
  <2>3. Len(o.target) \in 0..N BY <1>1, <2>2, LenBound
  <2> QED BY <2>1, <2>3
<1>3. q \in PutRec /\ q.seek = x /\ q.pos = Base(p) /\ q.buf = <<>> /\ q.can = p.can /\ q.want = p.want
  <2> DEFINE b == Base(p)
             f == FALSE
             m == [p EXCEPT !.seek = x, !.pos = b, !.buf = <<>>, !.eof = f]
  <2>1. q = m BY DEF Base
  <2>2. f \in BOOLEAN /\ b \in 0..N /\ x \in -1..N /\ <<>> \in Seq(Offset) BY <1>2, Empty DEF FileEnd
  <2> HIDE DEF b, f, q
  <2>3. m \in PutRec /\ m.seek = x /\ m.pos = b /\ m.buf = <<>> /\ m.can = p.can /\ m.want = p.want
    BY <1>2, <2>2 DEF PutRec
  <2> QED BY <2>1, <2>3 DEF b
<1>4. to \in 0..N /\ (x = 0 => to = 0)
  BY <1>2 DEF FileEnd
<1> HIDE DEF q, to
<1>5. CASE p.pos = x
  <2>1. u = o /\ x = 0 BY <1>2, <1>5 DEF SeekPut, FileEnd, PutRec
  <2> QED BY <1>5, <2>1
<1>6. CASE p.pos # x /\ to_file
  <2> DEFINE m == [q EXCEPT !.seek = to, !.pos = to]
             h == [o.ps EXCEPT !.pos = to]
  <2>1. u = [o EXCEPT !.put = m, !.ps.pos = to]
    BY <1>6, Zenon DEF SeekPut, q, to
  <2>2. to \in -1..N /\ m \in PutRec /\ m.seek = to /\ m.pos = to /\ m.buf = <<>> /\ m.can = p.can
    <3>1. to \in -1..N BY <1>2, <1>4
    <3> QED BY <1>3, <1>4, <3>1 DEF PutRec
  <2>3. h \in PutSession /\ h.pos = to /\ h.st = o.ps.st
    BY <1>2, <1>4 DEF PutSession
  <2>4. u.put = m /\ u.ps = h /\ u.wire = o.wire /\ u.target = o.target
    BY <1>1, <2>1 DEF Quad
  <2> HIDE DEF m, h, u
  <2>5. u \in Quad
    BY <1>1, <2>1, <2>2, <2>3, <2>4 DEF Quad, h
  <2>6. Base(m) = to BY <1>4, <2>2, Empty DEF Base
  <2>7. to <= Len(o.target) BY <1>2 DEF to, FileEnd
  <2>8. to # FileEnd BY <1>4 DEF FileEnd
  <2>9. Core(m, h, o.wire, o.target, to)
    BY <1>1, <1>2, <1>6, <2>2, <2>3, <2>7, <2>8 DEF Core, FileOK
  <2>10. PutOK(m, h, o.wire, o.target) /\ Fresh(m) /\ NotEnd(m)
    BY <1>4, <1>6, <2>2, <2>6, <2>8, <2>9, Empty DEF PutOK, Fresh, NotEnd
  <2> QED BY <1>4, <2>2, <2>4, <2>5, <2>10 DEF DstOK, u
<1>7. CASE p.pos # x /\ ~to_file /\ x = FileEnd
  <2> DEFINE w == TRUE
             m == [q EXCEPT !.want = w, !.size = NoSizeYet]
  <2>1. u = [Close(o) EXCEPT !.put = m]
    BY <1>7, Zenon DEF SeekPut, q, w
  <2>2. w \in BOOLEAN /\ NoSizeYet \in Int /\ w BY DEF NoSizeYet
  <2>3. m \in PutRec /\ m.seek = x /\ m.pos = Base(p) /\ m.buf = <<>> /\ m.can = p.can
        /\ m.want = w /\ m.size = NoSizeYet
    <3> HIDE DEF w
    <3> QED BY <1>3, <2>2 DEF PutRec
  <2>4. u.put = m /\ u.ps = Closed /\ u.wire = <<>> /\ u.target = o.target /\ u \in Quad
    <3> HIDE DEF m
    <3> QED BY <1>1, <2>1, <2>3, CloseOK DEF Quad
  <2> HIDE DEF m, u, w
  <2>5. m.pos = 0 /\ Base(m) = 0 BY <1>2, <1>7, <2>3, Empty DEF Base
  <2>6. TargetOK(<<>>, o.target) BY <1>1, <1>2, Empty DEF TargetOK
  <2>7. ClosedAt(m, Closed, <<>>, o.target)
    BY <1>2, <1>7, <2>2, <2>3, ClosedOK DEF ClosedAt, FileEnd
  <2>8. Core(m, Closed, <<>>, o.target, 0)
    BY <1>2, <1>7, <2>3, <2>6, <2>7, ClosedOK DEF Core, Opened
  <2>9. PutOK(m, Closed, <<>>, o.target)
    BY <2>3, <2>5, <2>8, Empty DEF PutOK
  <2>10. x # 0 BY <1>7 DEF FileEnd
  <2> QED BY <2>4, <2>5, <2>9, <2>10 DEF DstOK, u
<1>8. CASE p.pos # x /\ ~to_file /\ x = 0
  <2> DEFINE m == [q EXCEPT !.pos = x]
  <2>a. x # FileEnd BY <1>8 DEF FileEnd
  <2>1. u = [Close(o) EXCEPT !.put = m]
    BY <1>8, <2>a, Zenon DEF SeekPut, q
  <2>3. m \in PutRec /\ m.seek = 0 /\ m.pos = 0 /\ m.buf = <<>> /\ m.can = p.can
    <3>1. x \in 0..N BY <1>2, <1>8
    <3> HIDE DEF p
    <3> QED BY <1>3, <1>8, <3>1 DEF PutRec
  <2>4. u.put = m /\ u.ps = Closed /\ u.wire = <<>> /\ u.target = o.target /\ u \in Quad
    <3> HIDE DEF m
    <3> QED BY <1>1, <2>1, <2>3, CloseOK DEF Quad
  <2> HIDE DEF m, u
  <2>5. Base(m) = 0
    <3>1. m.pos = 0 /\ Len(m.buf) = 0 BY <2>3, Empty
    <3> QED BY <3>1 DEF Base
  <2>6. TargetOK(<<>>, o.target) BY <1>1, <1>2, Empty DEF TargetOK
  <2>7. ClosedAt(m, Closed, <<>>, o.target)
    BY <1>2, <2>3, ClosedOK DEF ClosedAt, FileEnd
  <2>8. Core(m, Closed, <<>>, o.target, 0)
    BY <1>2, <1>8, <2>3, <2>6, <2>7, ClosedOK DEF Core, Opened
  <2>9. PutOK(m, Closed, <<>>, o.target) /\ Fresh(m) /\ NotEnd(m)
    BY <2>3, <2>5, <2>8, Empty DEF PutOK, Fresh, NotEnd, FileEnd
  <2> QED BY <2>3, <2>4, <2>9 DEF DstOK, u
<1> QED BY <1>5, <1>6, <1>7, <1>8

\* OpenSession of the put peer opens the session where the peer is to continue.
LEMMA OpenPutOK ==
    ASSUME NEW o, DstOK(o), ~to_file, o.ps.st = "closed" => NotEnd(o.put)
    PROVE  /\ DstOK(OpenPut(o))
           /\ OpenPut(o).put.buf = o.put.buf
           /\ Fresh(o.put) => Fresh(OpenPut(o).put) /\ OpenPut(o).put.pos = o.put.pos
           /\ ~Fresh(o.put) => Fresh(OpenPut(o).put) \/ OpenPut(o).put.pos = o.put.pos
           /\ NotEnd(o.put) => NotEnd(OpenPut(o).put)
<1> DEFINE p == o.put
           past == p.e_size >= 0 /\ p.size >= 0 /\ p.seek >= p.e_size
           e == p.seek > p.e_size
           t == TRUE
           k == [p EXCEPT !.eof = t, !.err = e]
           q == IF past THEN k ELSE p
           u == OpenPut(o)
<1>1. o \in Quad /\ p \in PutRec /\ PutOK(p, o.ps, o.wire, o.target)
  BY DEF DstOK, Quad
<1>2. e \in BOOLEAN /\ t \in BOOLEAN
  OBVIOUS
<1>3. k \in PutRec /\ k.pos = p.pos /\ k.buf = p.buf /\ k.seek = p.seek /\ k.can = p.can
  <2> HIDE DEF e, t
  <2> QED BY <1>1, <1>2 DEF PutRec
<1> HIDE DEF past, k, e, t
<1>4. CASE o.ps.st # "closed"
  <2>1. u = o BY <1>4 DEF OpenPut
  <2> QED BY <2>1
<1>5. CASE o.ps.st = "closed" /\ past /\ ~dated
  <2>1. u = [o EXCEPT !.put = k]
    BY <1>5, Zenon DEF OpenPut, past, k, e, t
  <2>2. u.put = k /\ u.ps = o.ps /\ u.wire = o.wire /\ u.target = o.target /\ u \in Quad
    BY <1>1, <1>3, <2>1 DEF Quad
  <2> HIDE DEF u
  <2>3. PutOK(k, o.ps, o.wire, o.target) /\ (Fresh(k) <=> Fresh(p)) /\ (NotEnd(k) <=> NotEnd(p))
    BY <1>1, <1>3, <1>5, PutFields
  <2> QED BY <1>3, <2>2, <2>3 DEF DstOK, u
<1>6. CASE o.ps.st = "closed" /\ ~(past /\ ~dated)
  <2> DEFINE x == p.seek
             y == x + Len(p.buf)
             m == [q EXCEPT !.pos = y]
             h == At(x)
  <2>1. u = [o EXCEPT !.put = m, !.ps = h]
    BY <1>6, Zenon DEF OpenPut, past, k, e, t, At
  <2>2. /\ N \in Nat /\ Base(p) \in 0..N /\ p.pos \in 0..N /\ Len(p.buf) \in Nat /\ p.pos = Base(p) + Len(p.buf)
        /\ x \in -1..N
    BY <1>1, BaseOK
  <2>3. x # -1 /\ Core(p, o.ps, o.wire, o.target, Base(p)) /\ Run(p.buf, Base(p))
    BY <1>1, <1>6 DEF NotEnd, FileEnd, PutOK
  <2>4. x \in 0..N BY <2>2, <2>3
  <2>5. o.wire = <<>> /\ x <= Len(o.target) /\ p.can /\ TargetOK(o.wire, o.target)
    BY <1>6, <2>3 DEF Core, ClosedAt, Opened
  <2>6. (Fresh(p) => x = Base(p)) /\ (~Fresh(p) => p.buf = <<>> /\ p.pos = 0)
    BY <1>1 DEF Fresh, PutOK
  <2>7. y \in 0..N /\ (Fresh(p) => y = p.pos)
    <3>1. CASE Fresh(p) BY <2>2, <2>6, <3>1
    <3>2. CASE ~Fresh(p) BY <2>4, <2>6, <3>2, Empty
    <3> QED BY <3>1, <3>2
  <2> HIDE DEF y
  <2>8. q \in PutRec /\ q.buf = p.buf /\ q.seek = x /\ q.can = p.can
    BY <1>1, <1>3
  <2> HIDE DEF q, x
  <2>9. m \in PutRec /\ m.pos = y /\ m.buf = p.buf /\ m.seek = x /\ m.can = p.can
    BY <2>7, <2>8 DEF PutRec
  <2>10. h \in PutSession /\ h.st = "conn" /\ h.pos = x
    BY <2>4, AtOK
  <2> HIDE DEF m, h
  <2>11. u.put = m /\ u.ps = h /\ u.wire = o.wire /\ u.target = o.target /\ u \in Quad
    BY <1>1, <2>1, <2>9, <2>10 DEF Quad
  <2>12. Base(m) = x
    <3>1. y - Len(p.buf) = x BY <2>2, <2>4 DEF y
    <3> QED BY <2>9, <3>1 DEF Base
  <2>13. Core(m, h, o.wire, o.target, x)
    <3>1. x <= Len(o.target) + Len(o.wire)
      BY <1>1, <2>4, <2>5, Empty, BaseOK
    <3>2. OpenOK(m, h, o.wire, o.target, x)
      BY <2>5, <2>9, <2>10, <3>1 DEF OpenOK
    <3> QED BY <2>5, <2>9, <2>10, <3>2 DEF Core, Opened
  <2>14. Run(p.buf, x)
    BY <2>3, <2>6, Empty DEF PutOK
  <2>15. PutOK(m, h, o.wire, o.target) /\ Fresh(m) /\ NotEnd(m)
    BY <2>4, <2>9, <2>12, <2>13, <2>14 DEF PutOK, Fresh, NotEnd, FileEnd
  <2> HIDE DEF u
  <2> QED BY <2>7, <2>9, <2>11, <2>15 DEF DstOK, u
<1> QED BY <1>4, <1>5, <1>6

\* The bytes d are offered; n of them are taken, and the next is to be written n further.
ToSession(o, d, n) ==
    [o EXCEPT !.wire = @ \o Front(d, n), !.ps.pos = @ + n, !.ps.io = n > 0 \/ @, !.put.seek = @ + n]
ToFile(o, d, n) == [o EXCEPT !.target = Overlay(@, o.ps.pos, Front(d, n)), !.ps.pos = @ + n]

\* Ftp::Write takes n bytes of d: they are on their way, in their place.
LEMMA StoredOK ==
    ASSUME NEW o, DstOK(o), ~to_file, o.ps.st = "data", Fresh(o.put), NEW d \in Seq(Offset), Run(d, Base(o.put)),
           Base(o.put) + Len(d) <= N, NEW n \in 0..Len(d), NEW u, u = ToSession(o, d, n)
    PROVE  /\ u \in Quad /\ u.put.buf = o.put.buf /\ u.put.pos = o.put.pos
           /\ Core(u.put, u.ps, u.wire, u.target, Base(u.put) + n)
           /\ u.put.seek = Base(u.put) + n
<1> DEFINE p == o.put
           h == o.ps
           w == o.wire \o Front(d, n)
           x == h.pos + n
           i == n > 0 \/ h.io
           y == p.seek + n
           k == [h EXCEPT !.pos = x, !.io = i]
           m == [p EXCEPT !.seek = y]
<1>1. /\ o \in Quad /\ p \in PutRec /\ h \in PutSession /\ PutOK(p, h, o.wire, o.target)
      /\ Core(p, h, o.wire, o.target, Base(p))
  BY DEF DstOK, Quad, PutOK
<1>2. OpenOK(p, h, o.wire, o.target, Base(p)) /\ TargetOK(o.wire, o.target) /\ p.can
  BY <1>1 DEF Core, Opened
<1>3. h.pos = Base(p) /\ p.seek = Base(p) /\ Base(p) = Len(o.target) + Len(o.wire)
  BY <1>2 DEF OpenOK
<1>4. N \in Nat /\ Base(p) \in 0..N /\ Len(o.wire) \in Nat /\ Len(o.target) \in Nat /\ o.wire \in Seq(Offset)
  BY <1>1, BaseOK
<1>5. Front(d, n) \in Seq(Offset) /\ Len(Front(d, n)) = n /\ Run(Front(d, n), Base(p))
  <2>1. Base(p) \in Int BY <1>4
  <2> QED BY <2>1, RunFront, Zenon
<1>6. w \in Seq(Offset) /\ Len(w) = Len(o.wire) + n /\ Run(w, Len(o.target))
  <2>1. Run(o.wire, Len(o.target)) /\ Run(Front(d, n), Len(o.target) + Len(o.wire))
    BY <1>2, <1>3, <1>5 DEF TargetOK
  <2>2. Len(o.target) \in Int BY <1>4
  <2>3. w \in Seq(Offset) /\ Len(w) = Len(o.wire) + Len(Front(d, n)) /\ Run(w, Len(o.target))
    BY <1>4, <1>5, <2>1, <2>2, RunConcat, Zenon
  <2> QED BY <1>5, <2>3, Zenon
<1>7. x \in 0..N /\ y \in 0..N /\ x = Base(p) + n /\ y = Base(p) + n /\ y \in -1..N /\ n \in Nat
  <2>1. Base(p) + n \in 0..N /\ Base(p) + n \in -1..N /\ n \in Nat BY <1>4, Within
  <2> QED BY <1>3, <2>1, Zenon
<1>8. i \in BOOLEAN
  <2>1. h.io \in BOOLEAN BY <1>1 DEF PutSession
  <2> QED BY <2>1, Zenon
<1>9. u = [o EXCEPT !.wire = w, !.ps = k, !.put = m]
  BY <1>1 DEF Quad, ToSession
<1> HIDE DEF w, x, y, i
<1>10. k \in PutSession /\ k.pos = x /\ k.st = "data"
  BY <1>1, <1>7, <1>8 DEF PutSession
<1>11. m \in PutRec /\ m.seek = y /\ m.pos = p.pos /\ m.buf = p.buf /\ m.can = p.can
  BY <1>1, <1>7 DEF PutRec
<1> HIDE DEF k, m
<1>12. u.put = m /\ u.ps = k /\ u.wire = w /\ u.target = o.target /\ u \in Quad
  BY <1>1, <1>6, <1>9, <1>10, <1>11 DEF Quad
<1>13. Base(m) = Base(p)
  BY <1>11 DEF Base
<1>17. y = Len(o.target) + Len(w) /\ x = y /\ y <= N
  <2> DEFINE a == Len(o.target)
             b == Len(o.wire)
             c == Base(p)
             e == Len(w)
  <2>1. a \in Nat /\ b \in Nat /\ n \in Nat BY <1>4, <1>7
  <2>2. c = a + b /\ e = b + n /\ x = c + n /\ y = c + n /\ y \in 0..N BY <1>3, <1>6, <1>7
  <2>3. y = a + e /\ x = y /\ y <= N
    <3> HIDE DEF a, b, c, e
    <3> QED BY <2>1, <2>2
  <2> QED BY <2>3
<1>14. TargetOK(w, o.target)
  <2>1. Len(o.target) + Len(w) <= N BY <1>17
  <2> QED BY <1>2, <1>6, <2>1 DEF TargetOK
<1>15. OpenOK(m, k, w, o.target, y)
  <2>1. y = Len(o.target) + Len(w) /\ x = y BY <1>17
  <2> QED BY <1>7, <1>10, <1>11, <2>1 DEF OpenOK
<1>16. Core(m, k, w, o.target, y)
  BY <1>2, <1>10, <1>11, <1>14, <1>15 DEF Core, Opened
<1> QED BY <1>7, <1>11, <1>12, <1>13, <1>16

\* write(2) takes n bytes of d: they are in the file, in their place.
LEMMA WrittenOK ==
    ASSUME NEW o, DstOK(o), to_file, NEW d \in Seq(Offset), Run(d, Base(o.put)),
           Base(o.put) + Len(d) <= N, NEW n \in 0..Len(d), NEW u, u = ToFile(o, d, n)
    PROVE  /\ u \in Quad /\ u.put = o.put
           /\ Core(u.put, u.ps, u.wire, u.target, Base(u.put) + n)
<1> DEFINE p == o.put
           h == o.ps
           x == h.pos + n
           t == Overlay(o.target, h.pos, Front(d, n))
           k == [h EXCEPT !.pos = x]
<1>1. /\ o \in Quad /\ p \in PutRec /\ h \in PutSession /\ PutOK(p, h, o.wire, o.target)
      /\ Core(p, h, o.wire, o.target, Base(p))
  BY DEF DstOK, Quad, PutOK
<1>2. FileOK(p, h, o.wire, o.target, Base(p)) /\ TargetOK(o.wire, o.target) /\ p.can
  BY <1>1 DEF Core
<1>3. h.pos = Base(p) /\ Base(p) <= Len(o.target) /\ o.wire = <<>> /\ Run(o.target, 0)
  BY <1>2 DEF FileOK, TargetOK
<1>4. N \in Nat /\ Base(p) \in 0..N /\ Len(o.wire) \in Nat /\ Len(o.target) \in Nat /\ o.target \in Seq(Offset)
  BY <1>1, BaseOK
<1>5. Front(d, n) \in Seq(Offset) /\ Len(Front(d, n)) = n /\ Run(Front(d, n), Base(p))
  <2>1. Base(p) \in Int BY <1>4
  <2> QED BY <2>1, RunFront, Zenon
<1>6. t \in Seq(Offset) /\ Len(t) = MaxOf(Len(o.target), h.pos + n) /\ Run(t, 0)
  <2>1. h.pos \in 0..Len(o.target) BY <1>3, <1>4
  <2>2. Run(Front(d, n), h.pos) BY <1>3, <1>5
  <2>3. t \in Seq(Offset) /\ Len(t) = MaxOf(Len(o.target), h.pos + Len(Front(d, n))) /\ Run(t, 0)
    BY <1>3, <1>4, <1>5, <2>1, <2>2, OverlayRun, Zenon
  <2> QED BY <1>5, <2>3, Zenon
<1>7. x \in 0..N /\ x = Base(p) + n /\ n \in Nat
  BY <1>3, <1>4
<1>8. Len(t) \in 0..N /\ x <= Len(t)
  <2>1. Len(o.target) \in 0..N BY <1>2, <1>4, LenBound
  <2> QED BY <1>4, <1>6, <1>7, <2>1 DEF MaxOf
<1>9. u = [o EXCEPT !.target = t, !.ps = k]
  BY <1>1 DEF Quad, ToFile
<1> HIDE DEF t, x
<1>10. k \in PutSession /\ k.pos = x /\ k.st = h.st
  BY <1>1, <1>7 DEF PutSession
<1> HIDE DEF k
<1>11. u.put = p /\ u.ps = k /\ u.wire = o.wire /\ u.target = t /\ u \in Quad
  BY <1>1, <1>6, <1>9, <1>10 DEF Quad
<1>12. TargetOK(o.wire, t)
  <2>1. Len(t) + Len(<<>>) <= N BY <1>4, <1>8, Empty
  <2> QED BY <1>3, <1>6, <2>1, Empty DEF TargetOK
<1>13. FileOK(p, k, o.wire, t, x)
  BY <1>2, <1>8, <1>10 DEF FileOK
<1>14. Core(p, k, o.wire, t, x)
  BY <1>1, <1>2, <1>10, <1>12, <1>13 DEF Core
<1> QED BY <1>7, <1>11, <1>14

\* What a call leaves of what is known about the position of the put peer.
Moved(p, q) ==
    /\ Fresh(p) => Fresh(q) /\ q.pos = p.pos
    /\ Fresh(q) \/ q.pos = p.pos
    /\ NotEnd(p) => NotEnd(q)

\* n of the bytes Put_LL was given are taken, but the buffer of the peer is as before.
Taken(o, u, n) ==
    /\ u \in Quad /\ u.put.buf = o.put.buf /\ Base(u.put) \in 0..N /\ Run(u.put.buf, Base(u.put))
    /\ Core(u.put, u.ps, u.wire, u.target, Base(u.put) + n)
    /\ \/ to_file
       \/ u.put.seek = Base(u.put) + n
       \/ n = 0 /\ ~Fresh(o.put) /\ u.put.buf = <<>> /\ u.put.pos = 0
    /\ Fresh(o.put) => u.put.pos = o.put.pos
    /\ ~Fresh(o.put) => n = 0
    /\ NotEnd(o.put) => NotEnd(u.put)

\* A call that changes nothing but what Moved allows has taken 0 bytes.
LEMMA NoneTaken ==
    ASSUME NEW o, DstOK(o), NEW u, DstOK(u), u.put.buf = o.put.buf, Moved(o.put, u.put)
    PROVE  Taken(o, u, 0)
<1>1. u \in Quad /\ PutOK(u.put, u.ps, u.wire, u.target)
  BY DEF DstOK
<1>2. Base(u.put) \in 0..N /\ Run(u.put.buf, Base(u.put)) /\ Base(u.put) + 0 = Base(u.put)
  <2>1. Base(u.put) \in 0..N /\ Run(u.put.buf, Base(u.put))
    BY <1>1, BaseOK
  <2> QED BY <2>1
<1>3. Core(u.put, u.ps, u.wire, u.target, Base(u.put)) /\ (Fresh(u.put) \/ (u.put.buf = <<>> /\ u.put.pos = 0))
  BY <1>1 DEF PutOK
<1> QED BY <1>1, <1>2, <1>3, Zenon DEF Moved, Taken, Fresh

\* An outcome of Put_LL of the bytes d, for a put peer whose session is where the peer takes
\* it to be and does not fail.
Outcome(o, d, r) ==
    \/ to_file /\ r = [o |-> [o EXCEPT !.put.err = TRUE], n |-> 0]
    \/ to_file /\ \E n \in 0..Len(d) : r = [o |-> ToFile(o, d, n), n |-> n]
    \/ ~to_file /\ r = [o |-> OpenPut(o), n |-> 0]
    \/ /\ ~to_file /\ OpenPut(o).ps.st = "data"
       /\ \E n \in 0..Len(d) : r = [o |-> ToSession(OpenPut(o), d, n), n |-> n]

\* Put_LL has no other outcomes for a put peer that is consistent.
LEMMA PutLLIs ==
    ASSUME NEW o, DstOK(o), o.ps.st = "closed" => NotEnd(o.put), NEW d, NEW r \in PutLL(o, d)
    PROVE  Outcome(o, d, r)
<1> DEFINE a == OpenPut(o)
<1>1. CASE to_file
  BY <1>1, Zenon DEF PutLL, ToFile, Outcome
<1>2. CASE ~to_file
  <2>1. DstOK(a) BY <1>2, OpenPutOK
  <2> HIDE DEF a
  <2>2. a.ps.st # "failed" /\ a.ps.st # "refused"
    BY <1>2, <2>1 DEF DstOK, PutOK, Core, OpenOK, Opened, PutSession
  <2>3. RealPut(a) = a BY <2>1, RealPutOK
  <2>4. \/ r \in {[o |-> a, n |-> 0]}
        \/ a.ps.st = "data" /\ r \in {[o |-> ToSession(a, d, n), n |-> n] : n \in 0..Len(d)}
    BY <1>2, <2>2, <2>3, Zenon DEF PutLL, ToSession, a
  <2> QED BY <1>2, <2>4 DEF a, Outcome
<1> QED BY <1>1, <1>2

\* Put_LL in each of its outcomes, for data that begins where the buffer of the peer begins:
\* whatever number of bytes it says it has taken is stored, or is on its way to its place.
LEMMA PutLLOK ==
    ASSUME NEW o, DstOK(o), o.ps.st = "closed" => NotEnd(o.put), NEW d \in Seq(Offset), Run(d, Base(o.put)),
           Base(o.put) + Len(d) <= N, Fresh(o.put) \/ d = <<>>, NEW r \in PutLL(o, d)
    PROVE  r.n \in 0..Len(d) /\ Taken(o, r.o, r.n)
<1> DEFINE a == OpenPut(o)
           t == TRUE
           k == [o.put EXCEPT !.err = t]
           fails == [o EXCEPT !.put = k]
           No(s) == [o |-> s, n |-> 0]
<1>1. o \in Quad /\ o.put \in PutRec /\ PutOK(o.put, o.ps, o.wire, o.target)
  BY DEF DstOK, Quad
<1>2. Len(d) \in Nat /\ 0 \in 0..Len(d)
  OBVIOUS
<1>3. CASE to_file /\ r = No(fails)
  <2>1. t \in BOOLEAN OBVIOUS
  <2> HIDE DEF t
  <2>2. k \in PutRec /\ k.pos = o.put.pos /\ k.buf = o.put.buf /\ k.seek = o.put.seek /\ k.can = o.put.can
    BY <1>1, <2>1 DEF PutRec
  <2>3. NotEnd(o.put)
    BY <1>1, <1>3, EndOK
  <2> HIDE DEF k
  <2>4. PutOK(k, o.ps, o.wire, o.target) /\ (Fresh(k) <=> Fresh(o.put)) /\ (NotEnd(k) <=> NotEnd(o.put))
    BY <1>1, <2>2, <2>3, PutFields
  <2>5. fails.put = k /\ fails.ps = o.ps /\ fails.wire = o.wire /\ fails.target = o.target /\ fails \in Quad
    BY <1>1, <2>2 DEF Quad
  <2> HIDE DEF fails
  <2>6. DstOK(fails) /\ Moved(o.put, fails.put) /\ fails.put.buf = o.put.buf
    BY <2>2, <2>4, <2>5 DEF DstOK, Moved
  <2>7. Taken(o, fails, 0) BY <2>6, NoneTaken
  <2> QED BY <1>2, <1>3, <2>7, Zenon
<1>4. ASSUME to_file, NEW n \in 0..Len(d), r = [o |-> ToFile(o, d, n), n |-> n]
      PROVE  r.n \in 0..Len(d) /\ Taken(o, r.o, r.n)
  <2> DEFINE u == ToFile(o, d, n)
  <2>1. u \in Quad /\ u.put = o.put /\ Core(u.put, u.ps, u.wire, u.target, Base(u.put) + n)
    BY <1>4, WrittenOK, Zenon
  <2>2. Base(o.put) \in 0..N /\ Run(o.put.buf, Base(o.put)) /\ Fresh(o.put)
    BY <1>1, <1>4, BaseOK DEF Fresh
  <2> HIDE DEF u
  <2>3. Taken(o, u, n)
    BY <1>4, <2>1, <2>2, Zenon DEF Taken
  <2> QED BY <1>4, <2>3, Zenon DEF u
<1>5. ASSUME ~to_file PROVE DstOK(a) /\ a.put.buf = o.put.buf /\ Moved(o.put, a.put) /\ RealPut(a) = a
                            /\ a.ps.st \notin {"failed", "refused"}
  <2>1. DstOK(a) /\ a.put.buf = o.put.buf /\ Moved(o.put, a.put)
    BY <1>5, OpenPutOK, Zenon DEF Moved
  <2> HIDE DEF a
  <2>2. a.ps.st \notin {"failed", "refused"}
    BY <1>5, <2>1 DEF DstOK, PutOK, Core, OpenOK, Opened, PutSession
  <2> QED BY <2>1, <2>2, RealPutOK
<1>6. CASE ~to_file /\ r = No(a)
  <2>1. Taken(o, a, 0) BY <1>5, <1>6, NoneTaken, Zenon
  <2> QED BY <1>2, <1>6, <2>1, Zenon
<1>7. ASSUME ~to_file, a.ps.st = "data", NEW n \in 0..Len(d), r = [o |-> ToSession(a, d, n), n |-> n]
      PROVE  r.n \in 0..Len(d) /\ Taken(o, r.o, r.n)
  <2> DEFINE u == ToSession(a, d, n)
  <2>1. DstOK(a) /\ a.put.buf = o.put.buf /\ Moved(o.put, a.put)
    BY <1>5, <1>7
  <2> HIDE DEF a
  <2>2. PutOK(a.put, a.ps, a.wire, a.target) /\ OpenOK(a.put, a.ps, a.wire, a.target, Base(a.put))
    BY <1>7, <2>1 DEF DstOK, PutOK, Core, Opened
  <2>3. N \in Nat /\ Base(a.put) \in 0..N /\ Run(a.put.buf, Base(a.put))
    BY <2>2, BaseOK
  <2>4. Fresh(a.put) /\ NotEnd(a.put)
    BY <2>2, <2>3 DEF OpenOK, Fresh, NotEnd, FileEnd
  <2>5. Run(d, Base(a.put)) /\ Base(a.put) + Len(d) <= N
    <3>1. CASE Fresh(o.put)
      <4>1. Base(a.put) = Base(o.put) BY <2>1, <3>1 DEF Moved, Base
      <4> QED BY <4>1
    <3>2. CASE d = <<>>
      BY <2>3, <3>2, Empty
    <3> QED BY <3>1, <3>2
  <2>6. /\ u \in Quad /\ u.put.buf = a.put.buf /\ u.put.pos = a.put.pos
        /\ Core(u.put, u.ps, u.wire, u.target, Base(u.put) + n) /\ u.put.seek = Base(u.put) + n
    BY <1>7, <2>1, <2>4, <2>5, StoredOK, Zenon
  <2> HIDE DEF u
  <2>7. Base(u.put) = Base(a.put) BY <2>6 DEF Base
  <2>8. NotEnd(u.put)
    <3>1. n \in Nat /\ Base(u.put) \in Nat BY <2>3, <2>7
    <3>2. u.put.seek # -1 BY <2>6, <3>1
    <3> QED BY <3>2 DEF NotEnd, FileEnd
  <2>9. ~Fresh(o.put) => n = 0
    BY Empty
  <2>10. Taken(o, u, n)
    BY <2>1, <2>3, <2>6, <2>7, <2>8, <2>9, Zenon DEF Taken, Moved
  <2> QED BY <1>7, <2>10, Zenon DEF u, a
<1>8. \/ to_file /\ r = No(fails)
      \/ to_file /\ \E n \in 0..Len(d) : r = [o |-> ToFile(o, d, n), n |-> n]
      \/ ~to_file /\ r = No(a)
      \/ ~to_file /\ a.ps.st = "data" /\ \E n \in 0..Len(d) : r = [o |-> ToSession(a, d, n), n |-> n]
  <2>1. [o EXCEPT !.put.err = TRUE] = fails BY <1>1 DEF Quad
  <2>2. Outcome(o, d, r) BY PutLLIs
  <2> HIDE DEF fails
  <2> QED BY <2>1, <2>2 DEF Outcome
<1> HIDE DEF a, fails, No
<1> QED BY <1>3, <1>4, <1>6, <1>7, <1>8, Zenon

\* The peer drops from its buffer what was taken of it.
After(u, n) == IF n = 0 THEN u ELSE [u EXCEPT !.put.buf = Rest(@, n)]

\* After the bytes taken are skipped in the buffer the peer is consistent again.
LEMMA DropOK ==
    ASSUME NEW o, NEW u, NEW n \in 0..Len(o.put.buf), DstOK(o), Taken(o, u, n)
    PROVE  DstOK(After(u, n)) /\ Moved(o.put, After(u, n).put)
<1> DEFINE p == u.put
           x == Base(p)
           b == Rest(p.buf, n)
           m == [p EXCEPT !.buf = b]
           v == After(u, n)
<1>1. /\ u \in Quad /\ p \in PutRec /\ p.buf = o.put.buf /\ x \in 0..N /\ Run(p.buf, x)
      /\ Core(p, u.ps, u.wire, u.target, x + n) /\ N \in Nat /\ p.pos \in 0..N /\ p.buf \in Seq(Offset)
  BY FileCopyAssumption DEF Taken, Quad, PutRec
<1>2. PutOK(o.put, o.ps, o.wire, o.target) /\ (Fresh(o.put) \/ o.put.pos = 0)
  BY DEF DstOK, PutOK
<1>3. CASE n = 0
  <2>1. v = u BY <1>3, Zenon DEF After
  <2>2. Core(p, u.ps, u.wire, u.target, x)
    <3>1. x + n = x BY <1>1, <1>3
    <3> QED BY <1>1, <3>1
  <2>3. Fresh(p) \/ (~Fresh(o.put) /\ p.buf = <<>> /\ p.pos = 0)
    <3>1. x + n = x BY <1>1, <1>3
    <3> QED BY <3>1 DEF Taken, Fresh
  <2>4. 0 <= x BY <1>1
  <2>5. PutOK(p, u.ps, u.wire, u.target)
    BY <1>1, <2>2, <2>3, <2>4, Zenon DEF PutOK
  <2>6. Moved(o.put, p)
    BY <1>2, <2>3 DEF Moved, Taken
  <2> QED BY <1>1, <2>1, <2>5, <2>6, Zenon DEF DstOK
<1>4. CASE n # 0
  <2>1. v = [u EXCEPT !.put = m] BY <1>1, <1>4 DEF After, Quad
  <2>2. n \in 0..Len(p.buf) /\ Fresh(o.put) /\ p.pos = o.put.pos
    BY <1>1, <1>4 DEF Taken
  <2>3. x \in Int /\ n \in Nat BY <1>1, <2>2
  <2>4. b \in Seq(Offset) /\ Len(b) = Len(p.buf) - n /\ Run(b, x + n)
    BY <1>1, <2>2, <2>3, RunRest, Zenon
  <2> HIDE DEF b
  <2>5. m \in PutRec /\ m.pos = p.pos /\ m.buf = b /\ m.seek = p.seek /\ m.can = p.can
        /\ m.want = p.want /\ m.size = p.size
    BY <1>1, <2>4 DEF PutRec
  <2> HIDE DEF m, v
  <2>6. Base(m) = x + n
    <3> DEFINE c == Len(p.buf)
    <3>1. c \in Nat /\ n \in Nat /\ Len(m.buf) = c - n BY <1>1, <2>3, <2>4, <2>5
    <3>2. p.pos - (c - n) = (p.pos - c) + n
      <4> HIDE DEF c
      <4> QED BY <1>1, <3>1
    <3> QED BY <2>5, <3>1, <3>2 DEF Base
  <2>7. v.put = m /\ v.ps = u.ps /\ v.wire = u.wire /\ v.target = u.target /\ v \in Quad
    BY <1>1, <2>1, <2>5 DEF Quad
  <2>8. Core(m, u.ps, u.wire, u.target, x + n)
    BY <1>1, <2>5, Zenon DEF Core, FileOK, OpenOK, ClosedAt
  <2>9. Fresh(m)
    BY <1>4, <2>2, <2>5, <2>6 DEF Taken, Fresh
  <2>10. 0 <= x + n BY <1>1, <2>3
  <2>11. PutOK(m, u.ps, u.wire, u.target)
    BY <2>4, <2>5, <2>6, <2>8, <2>9, <2>10, Zenon DEF PutOK
  <2>12. Moved(o.put, m)
    BY <2>2, <2>5, <2>9 DEF Moved, NotEnd, Taken
  <2> QED BY <2>7, <2>11, <2>12, Zenon DEF DstOK, v
<1> QED BY <1>3, <1>4

\* Buffer::Put of the bytes that belong at the position of the peer.
LEMMA BufferPutOK ==
    ASSUME NEW o, DstOK(o), Fresh(o.put), NEW d \in Seq(Offset), Run(d, o.put.pos), o.put.pos + Len(d) <= N
    PROVE  /\ DstOK(BufferPut(o, d))
           /\ Fresh(BufferPut(o, d).put) /\ (NotEnd(o.put) => NotEnd(BufferPut(o, d).put))
           /\ BufferPut(o, d).put.pos = o.put.pos + Len(d)
<1> DEFINE p == o.put
           b == p.buf \o d
           x == p.pos + Len(d)
           m == [p EXCEPT !.buf = b, !.pos = x]
           u == BufferPut(o, d)
<1>1. o \in Quad /\ p \in PutRec /\ PutOK(p, o.ps, o.wire, o.target)
  BY DEF DstOK, Quad
<1>2. /\ N \in Nat /\ Base(p) \in 0..N /\ p.pos \in 0..N /\ p.pos = Base(p) + Len(p.buf)
      /\ Run(p.buf, Base(p)) /\ p.buf \in Seq(Offset) /\ Len(p.buf) \in Nat /\ Len(d) \in Nat
  BY <1>1, BaseOK
<1>3. b \in Seq(Offset) /\ Len(b) = Len(p.buf) + Len(d) /\ Run(b, Base(p))
  <2>1. Base(p) \in Int /\ Run(d, Base(p) + Len(p.buf)) BY <1>2
  <2> QED BY <1>2, <2>1, RunConcat, Zenon
<1>4. x \in 0..N /\ x - Len(b) = Base(p)
  <2> DEFINE c == Len(p.buf)
             e == Len(d)
             y == Base(p)
             z == p.pos
  <2>1. c \in Nat /\ e \in Nat /\ y \in 0..N /\ z = y + c /\ z + e <= N /\ Len(b) = c + e BY <1>2, <1>3
  <2>2. z + e \in 0..N /\ (z + e) - (c + e) = y
    <3> HIDE DEF c, e, y, z
    <3> QED BY <1>2, <2>1
  <2> QED BY <2>1, <2>2
<1>5. u = [o EXCEPT !.put = m]
  BY <1>1 DEF BufferPut, Quad
<1>6. x = p.pos + Len(d) OBVIOUS
<1> HIDE DEF b, x
<1>7. m \in PutRec /\ m.pos = x /\ m.buf = b /\ m.seek = p.seek /\ m.can = p.can
      /\ m.want = p.want /\ m.size = p.size
  BY <1>1, <1>3, <1>4 DEF PutRec
<1> HIDE DEF m, u
<1>8. u.put = m /\ u.ps = o.ps /\ u.wire = o.wire /\ u.target = o.target /\ u \in Quad
  BY <1>1, <1>5, <1>7 DEF Quad
<1>9. Base(m) = Base(p) BY <1>4, <1>7 DEF Base
<1>10. Core(m, o.ps, o.wire, o.target, Base(p))
  BY <1>1, <1>7, Zenon DEF PutOK, Core, FileOK, OpenOK, ClosedAt
<1>11. Fresh(m) /\ (NotEnd(p) => NotEnd(m))
  BY <1>7, <1>9 DEF Fresh, NotEnd
<1>12. PutOK(m, o.ps, o.wire, o.target)
  BY <1>1, <1>3, <1>7, <1>9, <1>10, <1>11, Zenon DEF PutOK
<1> QED BY <1>6, <1>7, <1>8, <1>11, <1>12, Zenon DEF DstOK, u

\* IOBuffer::Put, through the buffer or past it when the buffer is empty and the data is
\* large: the position advances by the length of the data, and all of it is accounted for.
LEMMA PutDataOK ==
    ASSUME NEW o, DstOK(o), Fresh(o.put), NotEnd(o.put), NEW d \in Seq(Offset), Run(d, o.put.pos),
           o.put.pos + Len(d) <= N, NEW v \in Put(o, d)
    PROVE  DstOK(v) /\ Fresh(v.put) /\ NotEnd(v.put) /\ v.put.pos = o.put.pos + Len(d)
<1>1. CASE v = BufferPut(o, d)
  BY <1>1, BufferPutOK, Zenon
<1>2. ASSUME o.put.buf = <<>>, NEW r \in PutLL(o, d), v = BufferPut([r.o EXCEPT !.put.pos = @ + r.n], Rest(d, r.n))
      PROVE  DstOK(v) /\ Fresh(v.put) /\ NotEnd(v.put) /\ v.put.pos = o.put.pos + Len(d)
  <2> DEFINE u == r.o
             n == r.n
             q == u.put
             y == o.put.pos
             x == q.pos + n
             m == [q EXCEPT !.pos = x]
             e == [u EXCEPT !.put.pos = @ + n]
  <2>1. PutOK(o.put, o.ps, o.wire, o.target) BY DEF DstOK
  <2>2. N \in Nat /\ y \in 0..N /\ y = Base(o.put) + Len(o.put.buf) BY <2>1, BaseOK
  <2>3. y = Base(o.put) BY <1>2, <2>1, <2>2, BaseOK, Empty
  <2>4. n \in 0..Len(d) /\ Taken(o, u, n)
    BY <1>2, <2>3, PutLLOK, Zenon
  <2> HIDE DEF u, n
  <2>5. /\ u \in Quad /\ q.buf = <<>> /\ Core(q, u.ps, u.wire, u.target, Base(q) + n) /\ q \in PutRec
        /\ q.pos = y /\ (to_file \/ q.seek = Base(q) + n) /\ NotEnd(q)
    BY <1>2, <2>4 DEF Taken, Quad
  <2>6. Base(q) = y
    <3>1. q.pos - Len(q.buf) = y BY <2>2, <2>5, Empty
    <3> QED BY <3>1 DEF Base
  <2>7. x = y + n /\ x \in 0..N /\ n \in Nat /\ Len(d) \in Nat
    <3>1. y + n \in 0..N /\ n \in Nat /\ Len(d) \in Nat BY <2>2, <2>4, Within
    <3> QED BY <2>5, <3>1
  <2>8. e = [u EXCEPT !.put = m] BY <2>5 DEF Quad
  <2> HIDE DEF x, y
  <2>9. m \in PutRec /\ m.pos = x /\ m.buf = <<>> /\ m.seek = q.seek /\ m.can = q.can
        /\ m.want = q.want /\ m.size = q.size
    BY <2>5, <2>7 DEF PutRec
  <2> HIDE DEF m, e
  <2>10. e.put = m /\ e.ps = u.ps /\ e.wire = u.wire /\ e.target = u.target /\ e \in Quad
    BY <2>5, <2>8, <2>9 DEF Quad
  <2> HIDE DEF q
  <2>11. Base(m) = x
    <3>1. x - Len(m.buf) = x BY <2>7, <2>9, Empty
    <3> QED BY <2>9, <3>1 DEF Base
  <2>12. Core(m, u.ps, u.wire, u.target, x)
    <3>1. Core(q, u.ps, u.wire, u.target, x) BY <2>5, <2>6, <2>7
    <3> QED BY <2>9, <3>1, Zenon DEF Core, FileOK, OpenOK, ClosedAt
  <2>13. Fresh(m) /\ NotEnd(m)
    BY <2>5, <2>6, <2>7, <2>9, <2>11, Zenon DEF Fresh, NotEnd
  <2>14. 0 <= x BY <2>7
  <2>15. PutOK(m, u.ps, u.wire, u.target)
    BY <2>9, <2>11, <2>12, <2>13, <2>14, Empty, Zenon DEF PutOK
  <2>16. DstOK(e) /\ Fresh(e.put) /\ NotEnd(e.put) /\ e.put.pos = x
    BY <2>9, <2>10, <2>13, <2>15, Zenon DEF DstOK
  <2>17. Rest(d, n) \in Seq(Offset) /\ Len(Rest(d, n)) = Len(d) - n /\ Run(Rest(d, n), x)
    <3>1. y \in Int /\ Run(d, y) BY <2>2 DEF y
    <3>2. Rest(d, n) \in Seq(Offset) /\ Len(Rest(d, n)) = Len(d) - n /\ Run(Rest(d, n), y + n)
      BY <2>4, <3>1, RunRest, Zenon
    <3> QED BY <2>7, <3>2
  <2>18. x + Len(Rest(d, n)) = y + Len(d)
    <3> DEFINE l == Len(d)
               k == Len(Rest(d, n))
    <3>1. l \in Nat /\ k = l - n /\ y \in 0..N BY <2>2, <2>7, <2>17
    <3>2. x + k = y + l
      <4> HIDE DEF l, k
      <4> QED BY <2>7, <2>2, <3>1
    <3> QED BY <3>2
  <2>19. y + Len(d) <= N BY DEF y
  <2>20. v = BufferPut(e, Rest(d, n)) BY <1>2, Zenon DEF e, u, n
  <2>21. e.put.pos + Len(Rest(d, n)) <= N BY <2>16, <2>18, <2>19
  <2>22. Run(Rest(d, n), e.put.pos) BY <2>16, <2>17, Zenon
  <2>23. DstOK(v) /\ Fresh(v.put) /\ NotEnd(v.put) /\ v.put.pos = e.put.pos + Len(Rest(d, n))
    BY <2>16, <2>17, <2>20, <2>21, <2>22, BufferPutOK, Zenon
  <2>24. v.put.pos = y + Len(d) BY <2>16, <2>18, <2>23, Zenon
  <2> QED BY <2>23, <2>24, Zenon DEF y
<1>3. \/ v = BufferPut(o, d)
      \/ o.put.buf = <<>> /\ \E r \in PutLL(o, d) : v = BufferPut([r.o EXCEPT !.put.pos = @ + r.n], Rest(d, r.n))
  BY Zenon DEF Put
<1> QED BY <1>1, <1>2, <1>3, Zenon

\* Moved holds of two calls when it holds of each.
LEMMA MovedTwice ==
    ASSUME NEW p, NEW q, NEW m, Moved(p, q), Moved(q, m)
    PROVE  Moved(p, m)
  BY DEF Moved

\* When nothing is on its way any more the session may be closed.
LEMMA CloseHereOK ==
    ASSUME NEW p, NEW h, NEW w, NEW t, PutOK(p, h, w, t), ~to_file, h.st \notin {"data", "wait"}
    PROVE  PutOK(p, Closed, <<>>, t) /\ w = <<>> /\ p.seek <= Len(t) /\ p.can /\ TargetOK(<<>>, t)
<1>1. Core(p, h, w, t, Base(p)) /\ Base(p) \in 0..N /\ Len(t) \in Nat
  BY BaseOK DEF PutOK
<1>2. w = <<>> /\ p.can /\ TargetOK(w, t)
  BY <1>1 DEF Core, OpenOK, ClosedAt
<1>3. p.seek <= Len(t) /\ (p.seek = FileEnd => p.want /\ p.size = NoSizeYet)
  <2>1. CASE Opened(h)
    <3>1. OpenOK(p, h, w, t, Base(p)) BY <1>1, <2>1 DEF Core
    <3>2. Len(t) + Len(w) = Len(t) BY <1>1, <1>2, Empty
    <3> QED BY <1>1, <3>1, <3>2 DEF OpenOK, FileEnd
  <2>2. CASE ~Opened(h)
    BY <1>1, <2>2 DEF Core, ClosedAt
  <2> QED BY <2>1, <2>2
<1>4. ClosedAt(p, Closed, <<>>, t)
  BY <1>3, ClosedOK DEF ClosedAt
<1>5. Core(p, Closed, <<>>, t, Base(p))
  <2>1. ~Opened(Closed) BY ClosedOK DEF Opened
  <2> QED BY <1>1, <1>2, <1>4, <2>1, ClosedOK DEF Core
<1> QED BY <1>2, <1>3, <1>5 DEF PutOK

\* A step that only changes another field of the put peer.
LEMMA ChangeOK ==
    ASSUME NEW o, DstOK(o), NEW q \in PutRec, NEW v, v = [o EXCEPT !.put = q],
           q.pos = o.put.pos, q.buf = o.put.buf, q.seek = o.put.seek, q.can = o.put.can,
           q.want = o.put.want, q.size = o.put.size
    PROVE  DstOK(v) /\ Moved(o.put, v.put) /\ v.put = q
<1>1. o \in Quad /\ PutOK(o.put, o.ps, o.wire, o.target)
  BY DEF DstOK
<1>2. NotEnd(o.put) \/ (q.want /\ q.size = NoSizeYet)
  BY <1>1, EndOK, Zenon
<1>3. PutOK(q, o.ps, o.wire, o.target) /\ (Fresh(q) <=> Fresh(o.put)) /\ (NotEnd(q) <=> NotEnd(o.put))
  BY <1>1, <1>2, PutFields, Zenon
<1>4. v.put = q /\ v.ps = o.ps /\ v.wire = o.wire /\ v.target = o.target /\ v \in Quad
  BY <1>1 DEF Quad
<1> QED BY <1>3, <1>4, Zenon DEF DstOK, Moved

Verified(p) == [p EXCEPT !.verify = TRUE]

\* Setting verify (do_verify) changes no position.
LEMMA VerifiedOK ==
    ASSUME NEW p \in PutRec
    PROVE  /\ Verified(p) \in PutRec /\ Verified(p).pos = p.pos /\ Verified(p).buf = p.buf
           /\ Verified(p).seek = p.seek /\ Verified(p).can = p.can /\ Verified(p).want = p.want
           /\ Verified(p).size = p.size
<1> DEFINE t == TRUE
           m == [p EXCEPT !.verify = t]
<1>1. t \in BOOLEAN OBVIOUS
<1>2. Verified(p) = m BY DEF Verified
<1> HIDE DEF t
<1>3. m \in PutRec /\ m.pos = p.pos /\ m.buf = p.buf /\ m.seek = p.seek /\ m.can = p.can
      /\ m.want = p.want /\ m.size = p.size
  BY <1>1 DEF PutRec
<1> QED BY <1>2, <1>3

\* The end of Do of a put peer that has written all: it asks whether all is stored, and
\* when the store has failed it is sought to where it can continue.
LEMMA StoreStatusOK ==
    ASSUME NEW o, DstOK(o), NEW v \in StoreStatus(o)
    PROVE  DstOK(v) /\ Moved(o.put, v.put)
<1> DEFINE p == o.put
           t == TRUE
           k == [p EXCEPT !.err = t]
<1>1. o \in Quad /\ p \in PutRec /\ PutOK(p, o.ps, o.wire, o.target) /\ o.ps \in PutSession
      /\ Core(p, o.ps, o.wire, o.target, Base(p)) /\ Base(p) \in 0..N
  BY BaseOK DEF DstOK, Quad, PutOK
<1>2. CASE o.ps.st \in {"closed", "stored"} /\ v = [Close(o) EXCEPT !.put.verify = TRUE]
  <2> DEFINE c == Close(o)
  <2>1. ~to_file BY <1>1, <1>2 DEF Core, FileOK
  <2>2. PutOK(p, Closed, <<>>, o.target)
    BY <1>1, <1>2, <2>1, CloseHereOK
  <2>3. c \in Quad /\ c.put = p /\ c.ps = Closed /\ c.wire = <<>> /\ c.target = o.target
    BY <1>1, CloseOK
  <2>4. v = [c EXCEPT !.put = Verified(p)]
    BY <1>2, <2>3 DEF Quad, Verified
  <2> HIDE DEF c
  <2>5. DstOK(c) BY <2>2, <2>3, Zenon DEF DstOK
  <2>6. DstOK(v) /\ Moved(c.put, v.put)
    <3>1. c.put \in PutRec /\ v = [c EXCEPT !.put = Verified(c.put)] BY <1>1, <2>3, <2>4, Zenon
    <3> QED BY <2>5, <3>1, VerifiedOK, ChangeOK, Zenon
  <2> QED BY <2>3, <2>6, Zenon
<1>3. CASE v = [o EXCEPT !.put.verify = TRUE]
  <2>1. v = [o EXCEPT !.put = Verified(p)] BY <1>1, <1>3 DEF Quad, Verified
  <2> QED BY <1>1, <2>1, VerifiedOK, ChangeOK, Zenon
<1>4. CASE o.ps.st = "data" /\ ~to_file /\ v = [o EXCEPT !.ps.st = "wait"]
  <2> DEFINE h == [o.ps EXCEPT !.st = "wait"]
  <2>1. h \in PutSession /\ h.st = "wait" /\ h.pos = o.ps.pos
    BY <1>1 DEF PutSession
  <2> HIDE DEF h
  <2>2. v.put = p /\ v.ps = h /\ v.wire = o.wire /\ v.target = o.target /\ v \in Quad
    BY <1>1, <1>4, <2>1 DEF Quad, h
  <2>3. Core(p, h, o.wire, o.target, Base(p))
    BY <1>1, <1>4, <2>1 DEF Core, OpenOK, Opened
  <2>4. PutOK(p, h, o.wire, o.target)
    BY <1>1, <2>3, Zenon DEF PutOK
  <2> QED BY <2>2, <2>4, Zenon DEF DstOK, Moved
<1>5. CASE v = [o EXCEPT !.put.err = TRUE]
  <2>1. v = [o EXCEPT !.put = k] BY <1>1, <1>5 DEF Quad
  <2>2. t \in BOOLEAN OBVIOUS
  <2> HIDE DEF t
  <2>3. k \in PutRec /\ k.pos = p.pos /\ k.buf = p.buf /\ k.seek = p.seek /\ k.can = p.can
        /\ k.want = p.want /\ k.size = p.size
    BY <1>1, <2>2 DEF PutRec
  <2> HIDE DEF k
  <2> QED BY <2>1, <2>3, ChangeOK, Zenon
<1>6. CASE v = o
  BY <1>6 DEF Moved
<1>7. o.ps.st # "failed"
  BY <1>1 DEF PutSession
<1>8. \/ o.ps.st \in {"closed", "stored"} /\ v \in {[Close(o) EXCEPT !.put.verify = TRUE]}
      \/ v \in {[o EXCEPT !.put.verify = TRUE]}
      \/ o.ps.st = "data" /\ ~to_file /\ v \in {[o EXCEPT !.ps.st = "wait"]}
      \/ v \in {[o EXCEPT !.put.err = TRUE]}
      \/ v \in {o}
  BY <1>7, Zenon DEF StoreStatus
<1> QED BY <1>2, <1>3, <1>4, <1>5, <1>6, <1>8, Zenon

\* case PUT of Do: what is in the buffer is written, and the end is asked for.
LEMMA PutCaseOK ==
    ASSUME NEW o, DstOK(o), o.ps.st = "closed" => NotEnd(o.put), NEW v \in PutCase(o)
    PROVE  DstOK(v) /\ Moved(o.put, v.put)
<1>1. PutOK(o.put, o.ps, o.wire, o.target)
  BY DEF DstOK
<1>2. o.put.buf \in Seq(Offset) /\ Run(o.put.buf, Base(o.put)) /\ Base(o.put) + Len(o.put.buf) <= N
      /\ (Fresh(o.put) \/ o.put.buf = <<>>)
  <2>1. o.put.pos <= N /\ o.put.pos = Base(o.put) + Len(o.put.buf) BY <1>1, BaseOK
  <2>2. Base(o.put) + Len(o.put.buf) <= N BY <2>1
  <2> QED BY <1>1, <2>2, BaseOK, Zenon DEF PutOK
<1>3. ASSUME NEW r \in PutLL(o, o.put.buf) PROVE DstOK(After(r.o, r.n)) /\ Moved(o.put, After(r.o, r.n).put)
  <2>1. r.n \in 0..Len(o.put.buf) /\ Taken(o, r.o, r.n)
    BY <1>2, <1>3, PutLLOK, Zenon
  <2> QED BY <2>1, DropOK, Zenon
<1>4. \/ v \in StoreStatus(o)
      \/ \E r \in PutLL(o, o.put.buf) : v \in StoreStatus(After(r.o, r.n)) \/ v = After(r.o, r.n)
  BY Zenon DEF PutCase, After
<1>5. CASE v \in StoreStatus(o)
  BY <1>5, StoreStatusOK, Zenon
<1>6. ASSUME NEW r \in PutLL(o, o.put.buf), v \in StoreStatus(After(r.o, r.n)) PROVE DstOK(v) /\ Moved(o.put, v.put)
  <2>1. DstOK(v) /\ Moved(After(r.o, r.n).put, v.put)
    BY <1>3, <1>6, StoreStatusOK, Zenon
  <2> QED BY <1>3, <2>1, MovedTwice, Zenon
<1> QED BY <1>3, <1>4, <1>5, <1>6, Zenon

\* The answer tells how long the file on the server is, and a peer at FILE_END is from then
\* on at that position (FileCopyPeer::SetSize).
LEMMA SetSizeOK ==
    ASSUME NEW o, DstOK(o), o.ps.st = "replied", NEW v, v = [Close(o) EXCEPT !.put = SetSize(o.put, o.ps.pos)]
    PROVE  DstOK(v) /\ Moved(o.put, v.put)
<1> DEFINE p == o.put
           c == Close(o)
           x == IF p.seek # FileEnd THEN p.seek ELSE o.ps.pos
           y == o.ps.pos
           m == [p EXCEPT !.size = y, !.seek = x]
<1>1. o \in Quad /\ p \in PutRec /\ PutOK(p, o.ps, o.wire, o.target) /\ o.ps \in PutSession
      /\ Core(p, o.ps, o.wire, o.target, Base(p))
  BY DEF DstOK, Quad, PutOK
<1>2. ~to_file /\ ClosedAt(p, o.ps, o.wire, o.target) /\ y \in 0..N
  BY <1>1 DEF Core, FileOK, Opened, PutSession
<1>3. PutOK(p, Closed, <<>>, o.target) /\ TargetOK(<<>>, o.target)
  BY <1>1, <1>2, CloseHereOK
<1>4. N \in Nat /\ p.seek \in -1..N /\ Base(p) \in 0..N BY <1>1, BaseOK
<1>5. x \in 0..N /\ x \in -1..N /\ x <= Len(o.target) /\ y \in Int
  BY <1>2, <1>4 DEF FileEnd, ClosedAt
<1>6. c \in Quad /\ c.put = p /\ c.ps = Closed /\ c.wire = <<>> /\ c.target = o.target
  BY <1>1, CloseOK
<1>7. v = [c EXCEPT !.put = m]
  <2>1. y >= 0 BY <1>2
  <2> QED BY <2>1, Zenon DEF SetSize
<1>8. p.seek # FileEnd => x = p.seek OBVIOUS
<1> HIDE DEF c, x, y
<1>9. m \in PutRec /\ m.seek = x /\ m.pos = p.pos /\ m.buf = p.buf /\ m.can = p.can
  BY <1>1, <1>5 DEF PutRec
<1> HIDE DEF m
<1>10. v.put = m /\ v.ps = Closed /\ v.wire = <<>> /\ v.target = o.target /\ v \in Quad
  BY <1>6, <1>7, <1>9 DEF Quad
<1>11. Base(m) = Base(p) /\ NotEnd(m)
  BY <1>5, <1>9 DEF Base, NotEnd, FileEnd
<1>12. Fresh(p) => Fresh(m)
  BY <1>2, <1>4, <1>8, <1>9, <1>11 DEF Fresh, FileEnd
<1>13. ClosedAt(m, Closed, <<>>, o.target)
  BY <1>5, <1>9, ClosedOK DEF ClosedAt, FileEnd
<1>14. Core(m, Closed, <<>>, o.target, Base(p))
  <2>1. ~Opened(Closed) BY ClosedOK DEF Opened
  <2>2. p.can BY <1>1 DEF Core
  <2> QED BY <1>2, <1>3, <1>9, <1>13, <2>1, <2>2, ClosedOK DEF Core
<1>15. PutOK(m, Closed, <<>>, o.target)
  BY <1>1, <1>9, <1>11, <1>12, <1>14 DEF PutOK
<1> QED BY <1>9, <1>10, <1>11, <1>12, <1>15, Zenon DEF DstOK, Moved

\* Do of the put peer, in all its cases, leaves the peer, its session and the target consistent.
LEMMA PutDoStep ==
    ASSUME PutOK(put, ps, wire, target), PutDo
    PROVE  /\ PutOK(put', ps', wire', target') /\ Moved(put, put')
           /\ UNCHANGED <<kind, copy, source>>
<1> DEFINE o == Putting
           t == TRUE
           k == [put EXCEPT !.done = t]
           h == [ps EXCEPT !.st = "info"]
<1>1. DstOK(o) /\ o.put = put /\ o.ps = ps /\ o.wire = wire /\ o.target = target
      /\ put \in PutRec /\ ps \in PutSession /\ o \in Quad
  BY QuadOK, BaseOK DEF DstOK
<1>2. UNCHANGED <<kind, copy, source>>
  BY DEF PutDo
<1> SUFFICES PutOK(put', ps', wire', target') /\ Moved(put, put')
  BY <1>2, Zenon
<1>3. ASSUME NEW v, SetPut(v), DstOK(v), Moved(put, v.put)
      PROVE  PutOK(put', ps', wire', target') /\ Moved(put, put')
  <2>1. PutOK(put', ps', wire', target') /\ put' = v.put BY <1>3, QuadOK, Zenon
  <2> HIDE DEF o
  <2> QED BY <1>3, <2>1
<1>4. CASE SetPut(o)
  BY <1>1, <1>3, <1>4, Zenon DEF Moved
<1>5. CASE SetPut([o EXCEPT !.put.done = TRUE])
  <2> DEFINE v == [o EXCEPT !.put.done = TRUE]
  <2>1. v = [o EXCEPT !.put = k] BY <1>1 DEF Quad
  <2>2. t \in BOOLEAN OBVIOUS
  <2> HIDE DEF t, v
  <2>3. k \in PutRec /\ k.pos = put.pos /\ k.buf = put.buf /\ k.seek = put.seek /\ k.can = put.can
        /\ k.want = put.want /\ k.size = put.size
    BY <1>1, <2>2 DEF PutRec
  <2> HIDE DEF k
  <2>4. DstOK(v) /\ Moved(put, v.put) BY <1>1, <2>1, <2>3, ChangeOK, Zenon
  <2> QED BY <1>3, <1>5, <2>4, Zenon DEF v
<1>6. CASE ~to_file /\ ps.st = "closed" /\ SetPut([o EXCEPT !.ps.st = "info"])
  <2> DEFINE v == [o EXCEPT !.ps.st = "info"]
  <2>1. h \in PutSession /\ h.st = "info" BY <1>1 DEF PutSession
  <2> HIDE DEF h
  <2>2. v.put = put /\ v.ps = h /\ v.wire = wire /\ v.target = target /\ v \in Quad
    BY <1>1, <2>1 DEF Quad, h
  <2> HIDE DEF v
  <2>3. Core(put, h, wire, target, Base(put))
    BY <1>6, <2>1 DEF PutOK, Core, Opened, ClosedAt
  <2>4. PutOK(put, h, wire, target) BY <2>3 DEF PutOK
  <2>5. DstOK(v) /\ Moved(put, v.put) BY <2>2, <2>4, Zenon DEF DstOK, Moved
  <2> QED BY <1>3, <1>6, <2>5, Zenon DEF v
<1>7. CASE ps.st = "replied" /\ SetPut([Close(o) EXCEPT !.put = SetSize(put, ps.pos)])
  <2> DEFINE v == [Close(o) EXCEPT !.put = SetSize(o.put, o.ps.pos)]
  <2>1. DstOK(v) /\ Moved(o.put, v.put) BY <1>1, <1>7, SetSizeOK, Zenon
  <2>2. SetPut(v) BY <1>1, <1>7, Zenon
  <2> QED BY <1>1, <1>3, <2>1, <2>2, Zenon
<1>8. ASSUME ps.st = "closed" => NotEnd(put), NEW v \in PutCase(o), SetPut(v)
      PROVE  PutOK(put', ps', wire', target') /\ Moved(put, put')
  <2>1. DstOK(v) /\ Moved(put, v.put) BY <1>1, <1>8, PutCaseOK, Zenon
  <2> QED BY <1>3, <1>8, <2>1, Zenon
<1>9. ~NotEnd(put) => ~to_file /\ put.want /\ put.size = NoSizeYet
  BY EndOK
<1>10. \/ SetPut(o)
       \/ SetPut([o EXCEPT !.put.done = TRUE])
       \/ ~to_file /\ ps.st = "closed" /\ SetPut([o EXCEPT !.ps.st = "info"])
       \/ ps.st = "replied" /\ SetPut([Close(o) EXCEPT !.put = SetSize(put, ps.pos)])
       \/ (ps.st = "closed" => NotEnd(put)) /\ \E v \in PutCase(o) : SetPut(v)
  BY <1>9, Zenon DEF PutDo
<1> HIDE DEF o
<1> QED BY <1>2, <1>4, <1>5, <1>6, <1>7, <1>8, <1>10, Zenon

\* Under Reliable only a local file may fail.
LEMMA NoDstFault ==
    ASSUME Reliable, chosen \in Copies, faults \in [1..2 -> Nat], DstFault
    PROVE  to_file
<1>1. faults[2] \in Nat /\ faults[2] < chosen.dst_faults
  BY DEF DstFault
<1>2. chosen.dst_faults # 0
  BY <1>1
<1> QED BY <1>2, Zenon DEF Reliable, to_file

\* One byte of what is on its way arrives.
LEMMA StoreOne ==
    ASSUME NEW w, NEW t, TargetOK(w, t), w # <<>>
    PROVE  TargetOK(Tail(w), Append(t, Head(w))) /\ Len(Append(t, Head(w))) + Len(Tail(w)) = Len(t) + Len(w)
<1>1. w \in Seq(Offset) /\ t \in Seq(Offset) /\ Run(t, 0) /\ Run(w, Len(t)) /\ Len(t) + Len(w) <= N
  BY DEF TargetOK
<1>2. Len(w) \in Nat /\ Len(w) # 0 /\ Len(t) \in Nat BY <1>1
<1>3. Head(w) = Len(t) /\ Head(w) \in Offset
  <2>1. w[1] = Len(t) /\ w[1] \in Offset
    <3>1. 1 \in DOMAIN w BY <1>1, <1>2
    <3> QED BY <1>1, <1>2, <3>1 DEF Run
  <2> QED BY <1>1, <2>1
<1>4. Append(t, Head(w)) \in Seq(Offset) /\ Len(Append(t, Head(w))) = Len(t) + 1 /\ Run(Append(t, Head(w)), 0)
  BY <1>1, <1>2, <1>3 DEF Run
<1>5. Tail(w) \in Seq(Offset) /\ Len(Tail(w)) = Len(w) - 1 /\ Run(Tail(w), Len(t) + 1)
  <2>1. Tail(w) \in Seq(Offset) /\ Len(Tail(w)) = Len(w) - 1 /\ \A i \in 1..Len(w) - 1 : Tail(w)[i] = w[i + 1]
    BY <1>1, <1>2
  <2>2. ASSUME NEW i \in 1..Len(w) - 1 PROVE Tail(w)[i] = Len(t) + 1 + i - 1
    <3>1. i + 1 \in DOMAIN w BY <1>1, <1>2
    <3>2. w[i + 1] = Len(t) + (i + 1) - 1 BY <1>1, <3>1 DEF Run
    <3> QED BY <1>2, <2>1, <3>2
  <2>3. DOMAIN Tail(w) = 1..Len(w) - 1 BY <2>1
  <2> QED BY <2>1, <2>2, <2>3 DEF Run
<1>6. Len(Append(t, Head(w))) + Len(Tail(w)) = Len(t) + Len(w)
  BY <1>2, <1>4, <1>5
<1> QED BY <1>1, <1>4, <1>5, <1>6 DEF TargetOK

\* What the session of the put peer and the server do by themselves.
LEMMA DestStep ==
    ASSUME Reliable, chosen \in Copies, faults \in [1..2 -> Nat], PutOK(put, ps, wire, target),
           DstConnect \/ DstComplete \/ DstStore \/ DstFail \/ DstStored \/ DstInfo
    PROVE  /\ PutOK(put', ps', wire', target') /\ put' = put
           /\ UNCHANGED <<kind, copy, source>>
<1>1. put' = put /\ UNCHANGED <<kind, copy, source>>
  BY DEF DstConnect, DstComplete, DstStore, DstFail, DstStored, DstInfo, DstStays
<1>2. /\ Core(put, ps, wire, target, Base(put)) /\ TargetOK(wire, target) /\ N \in Nat /\ ps \in PutSession
      /\ wire \in Seq(Offset) /\ target \in Seq(Offset) /\ Len(wire) \in Nat /\ Len(target) \in Nat
      /\ Base(put) \in 0..N /\ put \in PutRec /\ put.can
  BY BaseOK DEF PutOK, Core
<1> SUFFICES Core(put, ps', wire', target', Base(put))
  BY <1>1, Zenon DEF PutOK
<1>3. CASE DstConnect
  <2> DEFINE x == ps.pos
             h == [ps EXCEPT !.st = "data", !.pos = x]
             y == MinOf(x, Len(target))
             t == Front(target, y)
  <2>1. ps.st = "conn" /\ ~to_file BY <1>2, <1>3 DEF DstConnect, Core, FileOK
  <2>2. wire = <<>> /\ x = Base(put) /\ put.seek = x /\ x <= Len(target) + Len(wire)
    BY <1>2, <2>1 DEF Core, OpenOK, Opened
  <2>3. x <= Len(target) /\ y = x /\ y \in 0..Len(target)
    <3>1. x \in 0..N /\ x <= Len(target) BY <1>2, <2>2, Empty
    <3> QED BY <1>2, <3>1 DEF MinOf
  <2>4. ps' = h /\ target' = t /\ wire' = <<>>
    <3>1. PICK rest \in BOOLEAN :
             /\ IF (IF rest THEN ps.pos ELSE 0) = ps.pos THEN NoFault ELSE DstFault
             /\ ps' = [ps EXCEPT !.st = "data", !.pos = IF rest THEN ps.pos ELSE 0]
             /\ target' = Front(target, MinOf(IF rest THEN ps.pos ELSE 0, Len(target)))
      BY <1>3, Zenon DEF DstConnect
    <3>2. (IF rest THEN ps.pos ELSE 0) = ps.pos BY <2>1, <3>1, NoDstFault, Zenon
    <3>3. wire' = wire BY <1>3 DEF DstConnect
    <3> QED BY <2>2, <3>1, <3>2, <3>3, Zenon
  <2>5. t \in Seq(Offset) /\ Len(t) = y /\ Run(t, 0)
    <3>1. 0 \in Int /\ Run(target, 0) BY <1>2 DEF TargetOK
    <3> QED BY <1>2, <2>3, <3>1, RunFront, Zenon
  <2>6. x \in 0..N BY <1>2, <2>2
  <2>7. h \in PutSession /\ h.st = "data" /\ h.pos = x BY <1>2, <2>6 DEF PutSession
  <2> HIDE DEF h, t, y
  <2>8. Len(t) + Len(<<>>) = x /\ Len(t) = x /\ x <= N BY <2>3, <2>5, <2>6, Empty
  <2>9. TargetOK(<<>>, t) BY <2>5, <2>8, Empty, Zenon DEF TargetOK
  <2>10. OpenOK(put, h, <<>>, t, Base(put)) BY <2>2, <2>6, <2>7, <2>8 DEF OpenOK
  <2>11. Core(put, h, <<>>, t, Base(put)) BY <1>2, <2>1, <2>7, <2>9, <2>10 DEF Core, Opened
  <2> QED BY <2>4, <2>11, Zenon
<1>4. CASE DstComplete \/ DstStored
  <2>1. PICK st \in {"wait", "stored"} :
          /\ ps' = [ps EXCEPT !.st = st] /\ wire' = wire /\ target' = target /\ wire = <<>> /\ ps.st \in {"conn", "wait"}
    <3>1. CASE DstComplete
      <4>1. ps.st = "conn" /\ ps' = [ps EXCEPT !.st = "wait"] /\ wire' = wire /\ target' = target
        BY <3>1 DEF DstComplete
      <4>2. wire = <<>> BY <1>2, <4>1 DEF Core, FileOK, OpenOK, Opened
      <4> QED BY <4>1, <4>2
    <3>2. CASE DstStored
      BY <3>2 DEF DstStored
    <3> QED BY <1>4, <3>1, <3>2
  <2>2. ps' \in PutSession /\ ps'.st = st /\ ps'.pos = ps.pos BY <1>2, <2>1 DEF PutSession
  <2>3. ~to_file BY <1>2, <2>1 DEF Core, FileOK
  <2>4. OpenOK(put, ps, wire, target, Base(put)) BY <1>2, <2>1, <2>3 DEF Core, Opened
  <2>5. OpenOK(put, ps', wire, target, Base(put)) BY <2>1, <2>2, <2>4 DEF OpenOK
  <2> QED BY <1>2, <2>1, <2>2, <2>3, <2>5 DEF Core, Opened
<1>5. CASE DstStore
  <2>1. wire # <<>> /\ target' = Append(target, Head(wire)) /\ wire' = Tail(wire) /\ ps' = ps
    BY <1>5 DEF DstStore
  <2>2. ~to_file /\ Opened(ps) /\ OpenOK(put, ps, wire, target, Base(put)) /\ ps.st \in {"data", "wait"}
    BY <1>2, <2>1 DEF Core, FileOK, ClosedAt, OpenOK
  <2>3. TargetOK(wire', target') /\ Len(target') + Len(wire') = Len(target) + Len(wire)
    BY <1>2, <2>1, StoreOne, Zenon
  <2>4. OpenOK(put, ps, wire', target', Base(put))
    BY <2>2, <2>3 DEF OpenOK
  <2> QED BY <1>2, <2>1, <2>2, <2>3, <2>4 DEF Core
<1>6. CASE DstFail
  <2>1. to_file BY <1>6, NoDstFault, Zenon DEF DstFail
  <2>2. ps' = [ps EXCEPT !.st = "refused"] /\ wire' = <<>> /\ target' = target
    BY <1>6, <2>1 DEF DstFail
  <2>3. ps' \in PutSession /\ ps'.st = "refused" /\ ps'.pos = ps.pos BY <1>2, <2>2 DEF PutSession
  <2> QED BY <1>2, <2>1, <2>2, <2>3 DEF Core, FileOK
<1>7. CASE DstInfo
  <2>1. ps.st = "info" /\ wire' = wire /\ target' = target BY <1>7 DEF DstInfo
  <2>2. ~to_file /\ ClosedAt(put, ps, wire, target) BY <1>2, <2>1 DEF Core, FileOK, Opened
  <2>3. ps' = [ps EXCEPT !.st = "replied", !.pos = Len(target)]
    BY <1>7, <2>2, NoDstFault, Zenon DEF DstInfo
  <2>4. Len(target) \in 0..N BY <1>2, LenBound
  <2>5. ps' \in PutSession /\ ps'.st = "replied" /\ ps'.pos = Len(target) BY <1>2, <2>3, <2>4 DEF PutSession
  <2>6. ClosedAt(put, ps', wire, target) BY <1>2, <2>2, <2>5 DEF ClosedAt
  <2> QED BY <1>2, <2>1, <2>2, <2>5, <2>6 DEF Core, Opened
<1> QED BY <1>3, <1>4, <1>5, <1>6, <1>7

-----------------------------------------------------------------------------
(* The steps of FileCopy::Do. *)

\* After the step the peers are consistent, each and with each other.
Good == GetOK(get', gs') /\ PutOK(put', ps', wire', target') /\ GlueAt(state', get', put', put_eof_pos')

\* The facts about the peers that all steps of FileCopy::Do begin from.
LEMMA Facts ==
    ASSUME IInv
    PROVE  /\ SrcOK(Getting) /\ Getting.get = get /\ Getting.gs = gs /\ Getting \in Pair
           /\ get \in GetRec /\ get.pos \in 0..N /\ GetOK(get, gs)
           /\ SrcOK(G) /\ G.get.pos \in {get.pos, 0} /\ G.get.eof = get.eof
           /\ DstOK(Putting) /\ Putting.put = put /\ Putting \in Quad /\ P = Putting
           /\ PutOK(put, ps, wire, target) /\ put \in PutRec /\ put.pos \in 0..N /\ put.can
           /\ GlueAt(state, get, put, put_eof_pos)
<1>1. /\ GetOK(get, gs) /\ PutOK(put, ps, wire, target) /\ GlueAt(state, get, put, put_eof_pos)
  BY DEF IInv
<1>2. SrcOK(Getting) /\ Getting.get = get /\ Getting.gs = gs /\ Getting \in Pair
  BY <1>1, PairOK DEF Getting, SrcOK
<1>3. get \in GetRec /\ get.pos \in 0..N
  BY <1>1 DEF GetOK, GetRec
<1>4. DstOK(Putting) /\ Putting.put = put
  BY <1>1, QuadOK
<1>5. Putting \in Quad /\ P = Putting
  BY <1>4, RealPutOK, Zenon DEF DstOK, P
<1>6. SrcOK(G) /\ G.get.pos \in {get.pos, 0} /\ G.get.eof = get.eof
  BY <1>2, RealGetOK, Zenon DEF G
<1>7. put \in PutRec /\ put.pos \in 0..N /\ put.can
  BY <1>1, BaseOK
<1> QED BY <1>1, <1>2, <1>3, <1>4, <1>5, <1>6, <1>7

\* The get peer after a step that sets it to a consistent one.
LEMMA GetIs ==
    ASSUME NEW s, SrcOK(s), SetGet(s)
    PROVE  GetOK(get', gs') /\ get' = s.get
  BY DEF SrcOK, SetGet

\* The put peer after a step that sets it to a consistent one.
LEMMA PutIs ==
    ASSUME NEW o, DstOK(o), SetPut(o)
    PROVE  PutOK(put', ps', wire', target') /\ put' = o.put
  BY DEF DstOK, SetPut

\* A step that only changes another field of the get peer.
LEMMA GetChangeOK ==
    ASSUME NEW s, SrcOK(s), NEW k \in GetRec, NEW v, v = [s EXCEPT !.get = k],
           k.pos = s.get.pos, k.buf = s.get.buf, k.seek = s.get.seek, k.eof = s.get.eof, k.removing = s.get.removing
    PROVE  SrcOK(v) /\ v.get = k
<1>1. s \in Pair /\ GetOK(s.get, s.gs) BY DEF SrcOK
<1>2. v.get = k /\ v.gs = s.gs /\ v \in Pair BY <1>1 DEF Pair
<1>3. GetOK(k, s.gs) BY <1>1, GetFields, Zenon
<1> QED BY <1>2, <1>3, Zenon DEF SrcOK

\* The first n bytes in the buffer of the get peer are taken or skipped.
LEMMA DropGetOK ==
    ASSUME NEW s, SrcOK(s), NEW n \in 0..Len(s.get.buf), NEW v,
           v = [s EXCEPT !.get.pos = @ + n, !.get.buf = Rest(@, n)]
    PROVE  SrcOK(v) /\ v.get.pos = s.get.pos + n /\ v.get.pos \in 0..N
<1> DEFINE g == s.get
           b == Rest(g.buf, n)
           x == g.pos + n
           k == [g EXCEPT !.pos = x, !.buf = b]
<1>1. /\ s \in Pair /\ g \in GetRec /\ GetOK(g, s.gs) /\ N \in Nat /\ g.pos \in 0..N /\ g.buf \in Seq(Offset)
      /\ Run(g.buf, g.pos) /\ g.pos + Len(g.buf) <= N
  BY FileCopyAssumption DEF SrcOK, GetOK, GetRec
<1>2. b \in Seq(Offset) /\ Len(b) = Len(g.buf) - n /\ Run(b, x)
  <2>1. g.pos \in Int BY <1>1
  <2> QED BY <1>1, <2>1, RunRest, Zenon
<1>3. x \in 0..N /\ n \in Nat /\ Len(g.buf) \in Nat
  BY <1>1, Within, Zenon
<1>4. x + Len(b) = g.pos + Len(g.buf) /\ x = g.pos + n
  <2> DEFINE c == Len(g.buf)
             y == g.pos
  <2>1. c \in Nat /\ y \in 0..N /\ Len(b) = c - n BY <1>1, <1>2, <1>3
  <2>2. (y + n) + (c - n) = y + c
    <3> HIDE DEF c, y
    <3> QED BY <1>3, <2>1
  <2> QED BY <2>1, <2>2
<1>5. v = [s EXCEPT !.get = k] BY <1>1 DEF Pair
<1> HIDE DEF b, x
<1>6. k \in GetRec /\ k.pos = x /\ k.buf = b /\ k.seek = g.seek /\ k.eof = g.eof /\ k.removing = g.removing
  BY <1>1, <1>2, <1>3 DEF GetRec
<1> HIDE DEF k
<1>7. v.get = k /\ v.gs = s.gs /\ v \in Pair BY <1>1, <1>5, <1>6 DEF Pair
<1>8. ~Reading(s.gs) => g.eof \/ (x = g.seek /\ b = <<>>)
  <2> SUFFICES ASSUME ~Reading(s.gs), ~g.eof PROVE x = g.seek /\ b = <<>>
    OBVIOUS
  <2>1. g.pos = g.seek /\ g.buf = <<>> BY <1>1 DEF GetOK
  <2>2. n = 0 /\ Len(b) = 0 BY <1>2, <2>1, Empty
  <2>3. x = g.pos BY <1>1, <1>4, <2>2
  <2> QED BY <1>2, <2>1, <2>2, <2>3
<1>9. GetOK(k, s.gs)
  BY <1>1, <1>2, <1>4, <1>6, <1>8 DEF GetOK
<1> QED BY <1>3, <1>4, <1>6, <1>7, <1>9, Zenon DEF SrcOK

\* Steps that leave the peers alone.
LEMMA StayGood ==
    ASSUME IInv, UNCHANGED <<source, dest>>, GlueAt(state', get, put, put_eof_pos')
    PROVE  Good
<1>1. get' = get /\ gs' = gs /\ put' = put /\ ps' = ps /\ wire' = wire /\ target' = target
  BY DEF source, dest
<1> QED BY <1>1, Facts DEF Good

\* case INITIAL when the size of the source is to be found first.
LEMMA InfoGood ==
    ASSUME IInv, Initial_Info
    PROVE  Good
<1> DEFINE t == TRUE
           f == FALSE
           m == [put EXCEPT !.want = t, !.size = NoSizeYet, !.susp = t]
           k == [get EXCEPT !.start = f, !.susp = f, !.want = t]
<1>1. state = "INITIAL" /\ state' = "GET_INFO_WAIT" /\ get.pos = 0 /\ put.pos = 0 /\ Fresh(put) /\ NotEnd(put)
  <2>1. state = "INITIAL" /\ state' = "GET_INFO_WAIT" BY DEF Initial_Info, Turn, Enter
  <2>2. get.pos = 0 /\ put.pos = 0 /\ Fresh(put) BY <2>1, Facts DEF GlueAt
  <2> QED BY <2>1, <2>2, Facts, EndOK
<1>2. t \in BOOLEAN /\ f \in BOOLEAN /\ NoSizeYet \in Int /\ NoSizeYet # FileEnd BY DEF NoSizeYet, FileEnd
<1>3. SetPut([Putting EXCEPT !.put = m]) /\ SetGet([Getting EXCEPT !.get = k])
  <2>1. SetPut(SuspendPut([Putting EXCEPT !.put.want = TRUE, !.put.size = NoSizeYet], TRUE))
        /\ SetGet([Getting EXCEPT !.get.start = FALSE, !.get.susp = FALSE, !.get.want = TRUE])
    BY DEF Initial_Info
  <2>2. SuspendPut([Putting EXCEPT !.put.want = TRUE, !.put.size = NoSizeYet], TRUE) = [Putting EXCEPT !.put = m]
    BY Facts DEF SuspendPut, Quad
  <2>3. [Getting EXCEPT !.get.start = FALSE, !.get.susp = FALSE, !.get.want = TRUE] = [Getting EXCEPT !.get = k]
    BY Facts DEF Pair
  <2> QED BY <2>1, <2>2, <2>3, Zenon
<1> HIDE DEF t, f
<1>4. m \in PutRec /\ m.pos = put.pos /\ m.buf = put.buf /\ m.seek = put.seek /\ m.can = put.can
  BY <1>2, Facts DEF PutRec
<1>5. k \in GetRec /\ k.pos = get.pos /\ k.buf = get.buf /\ k.seek = get.seek /\ k.eof = get.eof /\ k.removing = get.removing
  BY <1>2, Facts DEF GetRec
<1> HIDE DEF m, k
<1>6. put' = m /\ ps' = ps /\ wire' = wire /\ target' = target /\ get' = k /\ gs' = gs
  BY <1>3, Facts DEF SetPut, SetGet, Putting, Getting
<1>7. PutOK(m, ps, wire, target) /\ (Fresh(m) <=> Fresh(put)) /\ (NotEnd(m) <=> NotEnd(put))
  BY <1>1, <1>4, Facts, PutFields, Zenon
<1>8. GetOK(k, gs)
  BY <1>5, Facts, GetFields, Zenon
<1>9. GlueAt("GET_INFO_WAIT", k, m, put_eof_pos')
  BY <1>1, <1>4, <1>5, <1>7, Facts DEF GlueAt, Lag, States
<1> QED BY <1>1, <1>6, <1>7, <1>8, <1>9 DEF Good

\* case GET_INFO_WAIT.
LEMMA InfoWaitGood ==
    ASSUME IInv, GetInfoWait
    PROVE  Good
<1>1. state = "GET_INFO_WAIT" /\ state' \in {"GET_INFO_WAIT", "INITIAL"} /\ UNCHANGED <<source, dest>>
  BY DEF GetInfoWait, Turn, Enter, Leave, Fail
<1>2. GlueAt(state', get, put, put_eof_pos')
  BY <1>1, Facts DEF GlueAt, States
<1> QED BY <1>1, <1>2, StayGood

\* case INITIAL: only here a put peer is sought to FILE_END, and the get peer has read nothing.
LEMMA InitialGood ==
    ASSUME IInv, Initial
    PROVE  Good
<1> DEFINE t == TRUE
           wg == get.want \/ get.size = NoSizeYet
           g == [get EXCEPT !.want = wg]
           e == IF Known(get.size) THEN get.size ELSE put.e_size
           wp == put.want \/ cont
           p == [put EXCEPT !.e_size = e, !.want = wp]
           o == [Putting EXCEPT !.put = p]
           s == [Getting EXCEPT !.get = g]
           gt == [g EXCEPT !.start = t]
           st == [Getting EXCEPT !.get = gt]
<1>1. state = "INITIAL" /\ get.pos = 0 /\ put.pos = 0 /\ Fresh(put) /\ NotEnd(put)
  <2>1. state = "INITIAL" BY DEF Initial, Turn
  <2>2. get.pos = 0 /\ put.pos = 0 /\ Fresh(put) BY <2>1, Facts DEF GlueAt
  <2> QED BY <2>1, <2>2, Facts, EndOK
<1>2. wg \in BOOLEAN /\ t \in BOOLEAN
  <2>1. get.want \in BOOLEAN BY Facts DEF GetRec
  <2> QED BY <2>1, Zenon
<1>3. e \in Int
  BY Facts DEF GetRec, PutRec
<1>4. wp \in BOOLEAN OBVIOUS
<1> HIDE DEF t, wg, e, wp
<1>5. g \in GetRec /\ g.pos = get.pos /\ g.buf = get.buf /\ g.seek = get.seek /\ g.eof = get.eof /\ g.removing = get.removing
  BY <1>2, Facts DEF GetRec
<1>6. p \in PutRec /\ p.pos = put.pos /\ p.buf = put.buf /\ p.seek = put.seek /\ p.can = put.can
  BY <1>3, <1>4, Facts DEF PutRec
<1> HIDE DEF g, p
<1>7. gt \in GetRec /\ gt.pos = get.pos /\ gt.buf = get.buf /\ gt.seek = get.seek /\ gt.eof = get.eof /\ gt.removing = get.removing
  BY <1>2, <1>5 DEF GetRec
<1> HIDE DEF gt
<1>8. SrcOK(s) /\ s.get = g /\ SrcOK(st) /\ st.get = gt
  <2>1. SrcOK(s) /\ s.get = g
    <3>1. g.pos = Getting.get.pos /\ g.buf = Getting.get.buf /\ g.seek = Getting.get.seek /\ g.eof = Getting.get.eof
          /\ g.removing = Getting.get.removing
      BY <1>5, Facts
    <3> QED BY <1>5, <3>1, Facts, GetChangeOK, Zenon
  <2>2. SrcOK(st) /\ st.get = gt
    <3>1. gt.pos = Getting.get.pos /\ gt.buf = Getting.get.buf /\ gt.seek = Getting.get.seek /\ gt.eof = Getting.get.eof
          /\ gt.removing = Getting.get.removing
      BY <1>7, Facts
    <3> QED BY <1>7, <3>1, Facts, GetChangeOK, Zenon
  <2> QED BY <2>1, <2>2
<1>9. DstOK(o) /\ o.put = p /\ Fresh(p) /\ NotEnd(p)
  <2>1. PutOK(p, ps, wire, target) /\ (Fresh(p) <=> Fresh(put)) /\ (NotEnd(p) <=> NotEnd(put))
    BY <1>1, <1>6, Facts, PutFields, Zenon
  <2>2. o.put = p /\ o.ps = ps /\ o.wire = wire /\ o.target = target /\ o \in Quad
    BY <1>6, Facts DEF Quad, Putting
  <2> QED BY <1>1, <2>1, <2>2, Zenon DEF DstOK
<1> HIDE DEF o, s, st
<1>10. CASE cont
  <2> DEFINE v == SeekPut(o, FileEnd)
             u == SuspendPut(v, FALSE)
             r == SuspendGet(s, TRUE)
  <2>1. SetGet(r) /\ SetPut(u) /\ state' = "PUT_WAIT"
    BY <1>10, Zenon DEF Initial, Enter, g, p, o, s, wg, e, wp
  <2>2. DstOK(v) /\ (Fresh(v.put) \/ v.put.pos = 0)
    <3>1. o.put.pos = 0 BY <1>1, <1>6, <1>9
    <3>2. FileEnd # 0 BY DEF FileEnd
    <3> QED BY <1>9, <3>1, <3>2, SeekPutOK
  <2> HIDE DEF v
  <2>3. DstOK(u) /\ (Fresh(u.put) \/ u.put.pos = 0)
    <3>1. FALSE \in BOOLEAN OBVIOUS
    <3>2. DstOK(u) /\ u.put.pos = v.put.pos /\ u.put.seek = v.put.seek /\ Base(u.put) = Base(v.put)
      BY <2>2, <3>1, SuspendPutOK, Zenon
    <3> HIDE DEF u
    <3> QED BY <2>2, <3>2 DEF Fresh
  <2>4. SrcOK(r) /\ r.get.pos = 0
    <3>1. TRUE \in BOOLEAN OBVIOUS
    <3>2. SrcOK(r) /\ r.get.pos = s.get.pos BY <1>8, <3>1, SuspendGetOK, Zenon
    <3> QED BY <1>1, <1>5, <1>8, <3>2
  <2> HIDE DEF u, r
  <2>5. GetOK(get', gs') /\ PutOK(put', ps', wire', target') /\ get' = r.get /\ put' = u.put
    BY <2>1, <2>3, <2>4, GetIs, PutIs, Zenon
  <2>6. GlueAt(state', get', put', put_eof_pos')
    BY <2>1, <2>3, <2>4, <2>5 DEF GlueAt, States, Lag
  <2> QED BY <2>5, <2>6 DEF Good
<1>11. CASE ~cont
  <2> DEFINE r == SuspendGet(st, FALSE)
  <2>1. SetGet(r) /\ SetPut(o) /\ state' = "DO_COPY"
    <3>1. [Getting EXCEPT !.get = [g EXCEPT !.start = TRUE]] = st BY DEF st, gt, t
    <3>2. SetGet(SuspendGet([Getting EXCEPT !.get = [g EXCEPT !.start = TRUE]], FALSE)) /\ SetPut(o) /\ state' = "DO_COPY"
      BY <1>11, Zenon DEF Initial, Enter, g, p, o, wg, e, wp
    <3> QED BY <3>1, <3>2, Zenon
  <2>2. SrcOK(r) /\ r.get.pos = 0
    <3>1. FALSE \in BOOLEAN OBVIOUS
    <3>2. SrcOK(r) /\ r.get.pos = st.get.pos BY <1>8, <3>1, SuspendGetOK, Zenon
    <3> QED BY <1>1, <1>7, <1>8, <3>2
  <2> HIDE DEF r
  <2>3. GetOK(get', gs') /\ PutOK(put', ps', wire', target') /\ get' = r.get /\ put' = p
    BY <1>9, <2>1, <2>2, GetIs, PutIs, Zenon
  <2>4. GlueAt(state', get', put', put_eof_pos')
    BY <1>1, <1>6, <1>9, <2>1, <2>2, <2>3 DEF GlueAt, States, Lag
  <2> QED BY <2>3, <2>4 DEF Good
<1> QED BY <1>10, <1>11

\* Suspending the put peer does not change what is known of its position.
LEMMA SuspendPutSame ==
    ASSUME NEW o, DstOK(o), NEW b \in BOOLEAN
    PROVE  /\ DstOK(SuspendPut(o, b)) /\ SuspendPut(o, b).put.pos = o.put.pos
           /\ SuspendPut(o, b).put.buf = o.put.buf
           /\ (Fresh(SuspendPut(o, b).put) <=> Fresh(o.put)) /\ (NotEnd(SuspendPut(o, b).put) <=> NotEnd(o.put))
<1> DEFINE u == SuspendPut(o, b)
<1>1. DstOK(u) /\ u.put.pos = o.put.pos /\ u.put.buf = o.put.buf /\ u.put.seek = o.put.seek /\ Base(u.put) = Base(o.put)
  BY SuspendPutOK, Zenon
<1> HIDE DEF u
<1>2. (Fresh(u.put) <=> Fresh(o.put)) /\ (NotEnd(u.put) <=> NotEnd(o.put))
  BY <1>1 DEF Fresh, NotEnd
<1> QED BY <1>1, <1>2, Zenon DEF u

\* case PUT_WAIT: the copy begins when the position of the put peer is known, and the get
\* peer is sought there.
LEMMA PutWaitGood ==
    ASSUME IInv, PutWait
    PROVE  Good
<1>1. state = "PUT_WAIT" /\ get.pos = 0
  <2>1. state = "PUT_WAIT" BY DEF PutWait, Turn
  <2> QED BY <2>1, Facts DEF GlueAt
<1> DEFINE complete == put.seek # FileEnd /\ get.size >= 0 /\ put.seek >= get.size
           s == IF get.can THEN SeekGet(Getting, P.put.pos) ELSE Getting
           t == TRUE
           k == [s.get EXCEPT !.start = t]
           v == [s EXCEPT !.get = k]
           r == SuspendGet(v, FALSE)
<1>2. CASE UNCHANGED <<source, dest>> /\ (state' = "PUT_WAIT" \/ (complete /\ state' \in {"pre_CONFIRM_WAIT", "pre_GET_DONE_WAIT"}))
  <2>1. GlueAt(state', get, put, put_eof_pos')
    BY <1>1, <1>2, Facts DEF GlueAt, States, NotEnd, Lag
  <2> QED BY <1>2, <2>1, StayGood
<1>3. CASE IOReady /\ SetPut(P) /\ SetGet(SuspendGet([s EXCEPT !.get.start = TRUE], FALSE)) /\ state' = "DO_COPY"
  <2>1. SrcOK(s) /\ (s.get.pos = put.pos \/ s.get.pos = 0)
    BY <1>1, Facts, SeekGetOK
  <2> HIDE DEF s
  <2>2. s \in Pair /\ s.get \in GetRec BY <2>1 DEF SrcOK, Pair
  <2>3. [s EXCEPT !.get.start = TRUE] = v BY <2>2 DEF Pair
  <2>4. t \in BOOLEAN OBVIOUS
  <2> HIDE DEF t
  <2>5. k \in GetRec /\ k.pos = s.get.pos /\ k.buf = s.get.buf /\ k.seek = s.get.seek /\ k.eof = s.get.eof
        /\ k.removing = s.get.removing
    BY <2>2, <2>4 DEF GetRec
  <2> HIDE DEF k
  <2>6. SrcOK(v) /\ v.get = k BY <2>1, <2>5, GetChangeOK, Zenon
  <2> HIDE DEF v
  <2>7. SrcOK(r) /\ (r.get.pos = put.pos \/ r.get.pos = 0)
    <3>1. FALSE \in BOOLEAN OBVIOUS
    <3>2. SrcOK(r) /\ r.get.pos = v.get.pos BY <2>6, <3>1, SuspendGetOK, Zenon
    <3> QED BY <2>1, <2>5, <2>6, <3>2, Zenon
  <2>8. SetGet(r) BY <1>3, <2>3, Zenon
  <2> HIDE DEF r
  <2>9. Fresh(put) /\ NotEnd(put)
    <3>1. CASE to_file BY <3>1, Facts, EndOK DEF Fresh
    <3>2. CASE ~to_file /\ put.seek = 0
      <4>1. put.pos = 0 => Base(put) = 0 BY Facts, BaseOK, Zenon
      <4>2. Fresh(put) BY <3>2, <4>1, Facts DEF PutOK, Fresh
      <4> QED BY <3>2, <4>2 DEF NotEnd, FileEnd
    <3>3. CASE ~to_file /\ ps.st \in {"data", "wait"}
      <4>1. OpenOK(put, ps, wire, target, Base(put)) BY <3>3, Facts DEF PutOK, Core, Opened
      <4>2. Base(put) \in 0..N BY Facts, BaseOK
      <4> QED BY <4>1, <4>2 DEF OpenOK, Fresh, NotEnd, FileEnd
    <3> QED BY <1>3, <3>1, <3>2, <3>3 DEF IOReady
  <2>10. GetOK(get', gs') /\ PutOK(put', ps', wire', target') /\ get' = r.get /\ put' = put
    BY <1>3, <2>7, <2>8, Facts, GetIs, PutIs, Zenon
  <2>11. GlueAt(state', get', put', put_eof_pos')
    <3>1. Lag(r.get.pos, put.pos) BY <2>7, Facts DEF Lag
    <3> QED BY <1>3, <2>9, <2>10, <3>1 DEF GlueAt, States
  <2> QED BY <2>10, <2>11 DEF Good
<1>4. \/ UNCHANGED <<source, dest>> /\ (state' = "PUT_WAIT" \/ (complete /\ state' \in {"pre_CONFIRM_WAIT", "pre_GET_DONE_WAIT"}))
      \/ IOReady /\ SetPut(P) /\ SetGet(SuspendGet([s EXCEPT !.get.start = TRUE], FALSE)) /\ state' = "DO_COPY"
  <2>1. CASE put.err
    <3>1. UNCHANGED <<source, dest>> /\ state' = state BY <2>1, Zenon DEF PutWait, Fail, Enter
    <3> QED BY <1>1, <3>1
  <2>2. CASE ~put.err /\ (complete \/ ~IOReady)
    <3>1. /\ UNCHANGED <<source, dest>>
          /\ IF ~complete THEN Leave ELSE IF dated THEN Enter("pre_CONFIRM_WAIT", TRUE) ELSE Enter("pre_GET_DONE_WAIT", TRUE)
      BY <2>2, Zenon DEF PutWait
    <3> HIDE DEF complete
    <3>2. state' = "PUT_WAIT" \/ (complete /\ state' \in {"pre_CONFIRM_WAIT", "pre_GET_DONE_WAIT"})
      BY <1>1, <3>1 DEF Leave, Enter
    <3> QED BY <3>1, <3>2
  <2>3. CASE ~put.err /\ ~complete /\ IOReady
    <3>1. SetPut(P) /\ SetGet(SuspendGet([s EXCEPT !.get.start = TRUE], FALSE)) /\ Enter("DO_COPY", TRUE)
      BY <2>3, Zenon DEF PutWait
    <3> QED BY <2>3, <3>1, Zenon DEF Enter
  <2> QED BY <2>1, <2>2, <2>3
<1> HIDE DEF complete, s
<1> QED BY <1>2, <1>3, <1>4

\* In DO_COPY the position of the put peer is known, and agrees with its session.
LEMMA CopyingFacts ==
    ASSUME IInv, state = "DO_COPY"
    PROVE  /\ Fresh(put) /\ NotEnd(put) /\ Lag(get.pos, put.pos) /\ Lag(G.get.pos, put.pos)
           /\ Fresh(P.put) /\ NotEnd(P.put) /\ P.put.pos = put.pos /\ P.put = put
           /\ G.get.pos \in 0..N /\ G.get \in GetRec /\ G \in Pair
           /\ SrcOK(Resumed(G)) /\ Resumed(G).get.pos = G.get.pos
           /\ DstOK(PutResumed) /\ PutResumed.put.pos = put.pos /\ Fresh(PutResumed.put) /\ NotEnd(PutResumed.put)
<1>1. Fresh(put) /\ NotEnd(put) /\ Lag(get.pos, put.pos)
  BY Facts DEF GlueAt
<1>2. P.put = put /\ DstOK(P) BY Facts
<1>3. G.get \in GetRec /\ G \in Pair /\ G.get.pos \in 0..N
  BY Facts DEF SrcOK, Pair, GetRec
<1>4. Lag(G.get.pos, put.pos) BY <1>1, Facts DEF Lag
<1>5. FALSE \in BOOLEAN OBVIOUS
<1>6. SrcOK(Resumed(G)) /\ Resumed(G).get.pos = G.get.pos
  BY <1>5, Facts, SuspendGetOK, Zenon DEF Resumed
<1>7. DstOK(PutResumed) /\ PutResumed.put.pos = P.put.pos /\ (Fresh(PutResumed.put) <=> Fresh(P.put))
      /\ (NotEnd(PutResumed.put) <=> NotEnd(P.put))
  BY <1>2, <1>5, SuspendPutSame, Zenon DEF PutResumed
<1> QED BY <1>1, <1>2, <1>3, <1>4, <1>6, <1>7, Zenon

\* Both peers are in step or as far apart as they may be, and the copy goes on or ends.
LEMMA ApartGood ==
    ASSUME NEW s, SrcOK(s), NEW o, DstOK(o), SetGet(s), SetPut(o), Fresh(o.put), NotEnd(o.put),
           Lag(s.get.pos, o.put.pos), state' \in {"DO_COPY", "pre_CONFIRM_WAIT"}
    PROVE  Good
<1>1. GetOK(get', gs') /\ PutOK(put', ps', wire', target') /\ get' = s.get /\ put' = o.put
  BY GetIs, PutIs, Zenon
<1>2. GlueAt(state', get', put', put_eof_pos')
  BY <1>1 DEF GlueAt, States
<1> QED BY <1>1, <1>2 DEF Good

\* The end of the source is reached, or the target is as long as the source already.
LEMMA AtEofGood ==
    ASSUME IInv, Copying, AtEof(G, P)
    PROVE  Good
<1>1. state = "DO_COPY" BY DEF Copying, Turn
<1> DEFINE u == SuspendPut(P, FALSE)
<1>2. SetGet(Resumed(G)) /\ SetPut(u) /\ state' \in {"DO_COPY", "pre_CONFIRM_WAIT"}
  BY <1>1 DEF AtEof, Enter, Fail
<1>3. u = PutResumed BY DEF PutResumed
<1> HIDE DEF u
<1>4. DstOK(u) /\ Fresh(u.put) /\ NotEnd(u.put) /\ SrcOK(Resumed(G)) /\ Lag(Resumed(G).get.pos, u.put.pos)
  BY <1>1, <1>3, CopyingFacts
<1> QED BY <1>2, <1>4, ApartGood, Zenon

\* DO_COPY when the put peer is behind: the get peer is sought back to it.
LEMMA PutBehindGood ==
    ASSUME IInv, DoCopy_PutBehind
    PROVE  Good
<1>1. state = "DO_COPY" /\ state' = "DO_COPY" /\ put.pos < G.get.pos /\ SetPut(PutResumed)
  <2>1. state = "DO_COPY" BY DEF DoCopy_PutBehind, Copying, Turn
  <2> QED BY <2>1, CopyingFacts DEF DoCopy_PutBehind, Leave, Fail, Enter
<1>2. \/ SetGet(SeekGet(Resumed(G), P.put.pos))
      \/ SetGet(Resumed(G))
  BY DEF DoCopy_PutBehind
<1>3. CASE SetGet(SeekGet(Resumed(G), P.put.pos))
  <2>1. SrcOK(SeekGet(Resumed(G), P.put.pos)) /\ SeekGet(Resumed(G), P.put.pos).get.pos = P.put.pos
    <3>1. P.put.pos \in 0..N BY Facts
    <3> QED BY <1>1, <3>1, CopyingFacts, SeekGetOK, Zenon
  <2>2. Lag(SeekGet(Resumed(G), P.put.pos).get.pos, PutResumed.put.pos)
    <3>1. ~(put.pos < put.pos) BY Facts
    <3>2. SeekGet(Resumed(G), P.put.pos).get.pos = put.pos /\ PutResumed.put.pos = put.pos
      BY <1>1, <2>1, CopyingFacts
    <3> QED BY <3>1, <3>2, Zenon DEF Lag
  <2> QED BY <1>1, <1>3, <2>1, <2>2, CopyingFacts, ApartGood, Zenon
<1>4. CASE SetGet(Resumed(G))
  <2>1. Lag(Resumed(G).get.pos, PutResumed.put.pos)
    BY <1>1, CopyingFacts
  <2> QED BY <1>1, <1>4, <2>1, CopyingFacts, ApartGood, Zenon
<1> QED BY <1>2, <1>3, <1>4

\* DO_COPY when the get peer is behind, having begun anew at 0: its data is skipped, or the
\* put peer is sought back.
LEMMA GetBehindGood ==
    ASSUME IInv, DoCopy_GetBehind
    PROVE  Good
<1> DEFINE skip == P.put.pos - G.get.pos
           n == MinOf(skip, Len(G.get.buf))
           v == [G EXCEPT !.get.pos = @ + n, !.get.buf = Rest(@, n)]
           u == SeekPut(PutResumed, G.get.pos)
<1>1. Copying /\ state = "DO_COPY" /\ G.get.pos < put.pos
  <2>1. Copying /\ state = "DO_COPY" /\ P.put.pos > G.get.pos BY DEF DoCopy_GetBehind, Copying, Turn
  <2> QED BY <2>1, CopyingFacts
<1>2. /\ G.get.pos \in 0..N /\ put.pos \in 0..N /\ P.put = put /\ N \in Nat /\ SkipMin \in Nat
      /\ SrcOK(G) /\ G.get.buf \in Seq(Offset) /\ Len(G.get.buf) \in Nat
  <2>1. G.get.buf \in Seq(Offset) BY <1>1, CopyingFacts DEF GetRec
  <2> QED BY <1>1, <2>1, Facts, CopyingFacts, FileCopyAssumption
<1>3. skip = put.pos - G.get.pos /\ skip \in Nat /\ n \in 0..Len(G.get.buf) /\ n <= skip
  <2>1. skip = put.pos - G.get.pos BY <1>2
  <2>2. skip \in Nat BY <1>1, <1>2, <2>1
  <2> HIDE DEF skip
  <2> QED BY <1>2, <2>1, <2>2 DEF MinOf
<1>4. CASE AtEof(G, P)
  BY <1>1, <1>4, AtEofGood
<1>5. CASE state' = "DO_COPY" /\ skip < SkipMin /\ SetGet(Resumed(v)) /\ SetPut(PutResumed)
  <2>1. SrcOK(v) /\ v.get.pos = G.get.pos + n
    BY <1>2, <1>3, DropGetOK, Zenon
  <2> HIDE DEF v
  <2>2. SrcOK(Resumed(v)) /\ Resumed(v).get.pos = v.get.pos
    <3>1. FALSE \in BOOLEAN OBVIOUS
    <3> QED BY <2>1, <3>1, SuspendGetOK, Zenon DEF Resumed
  <2>3. Lag(Resumed(v).get.pos, PutResumed.put.pos)
    <3>1. n \in Nat BY <1>2, <1>3
    <3> HIDE DEF n, skip
    <3>2. put.pos - (G.get.pos + n) < SkipMin BY <1>2, <1>3, <1>5, <3>1
    <3>3. Resumed(v).get.pos = G.get.pos + n /\ PutResumed.put.pos = put.pos BY <1>1, <2>1, <2>2, CopyingFacts
    <3> QED BY <3>2, <3>3, Zenon DEF Lag
  <2>4. state' \in {"DO_COPY", "pre_CONFIRM_WAIT"} BY <1>5
  <2> QED BY <1>1, <1>5, <2>2, <2>3, <2>4, CopyingFacts, ApartGood, Zenon
<1>6. CASE state' = "DO_COPY" /\ ~(skip < SkipMin) /\ SetGet(Resumed(G)) /\ SetPut(u)
  <2>1. G.get.pos = 0
    <3>1. Lag(G.get.pos, put.pos) BY <1>1, CopyingFacts
    <3> QED BY <1>1, <1>3, <1>6, <3>1 DEF Lag
  <2>2. DstOK(u) /\ u.put.pos = 0 /\ Fresh(u.put) /\ NotEnd(u.put)
    <3>1. DstOK(PutResumed) /\ Fresh(PutResumed.put) /\ NotEnd(PutResumed.put) BY <1>1, CopyingFacts
    <3>2. 0 # FileEnd BY DEF FileEnd
    <3>3. DstOK(SeekPut(PutResumed, 0)) /\ SeekPut(PutResumed, 0).put.pos = 0
          /\ Fresh(SeekPut(PutResumed, 0).put) /\ NotEnd(SeekPut(PutResumed, 0).put)
      BY <3>1, <3>2, SeekPutOK
    <3> QED BY <2>1, <3>3, Zenon
  <2> HIDE DEF u
  <2>3. Lag(Resumed(G).get.pos, u.put.pos)
    BY <1>1, <2>1, <2>2, CopyingFacts DEF Lag
  <2>4. state' \in {"DO_COPY", "pre_CONFIRM_WAIT"} BY <1>6
  <2> QED BY <1>1, <1>6, <2>2, <2>3, <2>4, CopyingFacts, ApartGood, Zenon
<1>7. \/ AtEof(G, P)
      \/ state' = "DO_COPY" /\ skip < SkipMin /\ SetGet(Resumed(v)) /\ SetPut(PutResumed)
      \/ state' = "DO_COPY" /\ ~(skip < SkipMin) /\ SetGet(Resumed(G)) /\ SetPut(u)
  <2>1. CanSeekPut(P.put, G.get.pos) BY <1>2, Facts DEF CanSeekPut
  <2>2. \/ AtEof(G, P)
        \/ /\ Leave
           /\ IF ~CanSeekPut(P.put, G.get.pos) \/ skip < SkipMin
              THEN SetGet(Resumed(v)) /\ SetPut(PutResumed)
              ELSE SetGet(Resumed(G)) /\ SetPut(u)
    BY Zenon DEF DoCopy_GetBehind
  <2>3. Leave => state' = "DO_COPY" BY <1>1 DEF Leave, Enter
  <2> QED BY <2>1, <2>2, <2>3, Zenon
<1> HIDE DEF skip, n, v, u
<1> QED BY <1>4, <1>5, <1>6, <1>7

\* DO_COPY when there is nothing to copy now.
LEMMA NoDataGood ==
    ASSUME IInv, DoCopy_NoData
    PROVE  Good
<1> DEFINE s == SuspendGet(G, Full)
           o == SuspendPut(P, Idle)
<1>1. state = "DO_COPY" /\ state' = "DO_COPY" /\ SetGet(s) /\ SetPut(o)
  BY DEF DoCopy_NoData, InStep, Copying, Turn, Leave, Enter
<1>2. Full \in BOOLEAN /\ Idle \in BOOLEAN BY DEF Full, Idle
<1>3. SrcOK(s) /\ s.get.pos = G.get.pos BY <1>2, Facts, SuspendGetOK, Zenon
<1>4. DstOK(o) /\ o.put.pos = P.put.pos /\ (Fresh(o.put) <=> Fresh(P.put)) /\ (NotEnd(o.put) <=> NotEnd(P.put))
  <2>1. DstOK(P) BY Facts
  <2> QED BY <1>2, <2>1, SuspendPutSame, Zenon
<1> HIDE DEF s, o
<1>5. Lag(s.get.pos, o.put.pos) BY <1>1, <1>3, <1>4, CopyingFacts
<1>6. state' \in {"DO_COPY", "pre_CONFIRM_WAIT"} BY <1>1
<1> QED BY <1>1, <1>3, <1>4, <1>5, <1>6, CopyingFacts, ApartGood, Zenon

\* DO_COPY when both are in step: the data passes from the get peer to the put peer.
LEMMA DataGood ==
    ASSUME IInv, DoCopy_Data
    PROVE  Good
<1> DEFINE d == G.get.buf
           v == [G EXCEPT !.get.pos = @ + Len(d), !.get.buf = Rest(@, Len(d))]
           s == SuspendGet(v, Full)
<1>1. state = "DO_COPY" /\ state' = "DO_COPY" /\ put.pos = G.get.pos
      /\ SetGet(SuspendGet([G EXCEPT !.get.pos = @ + Len(G.get.buf), !.get.buf = <<>>], Full))
      /\ \E o \in Put(PutResumed, d) : SetPut(o)
  <2>1. state = "DO_COPY" BY DEF DoCopy_Data, InStep, Copying, Turn
  <2> QED BY <2>1, CopyingFacts DEF DoCopy_Data, InStep, Leave, Enter
<1>2. /\ SrcOK(G) /\ d \in Seq(Offset) /\ Run(d, put.pos) /\ put.pos + Len(d) <= N /\ G \in Pair
      /\ Len(d) \in 0..Len(d)
  <2>1. SrcOK(G) /\ G \in Pair /\ d \in Seq(Offset) BY <1>1, Facts, CopyingFacts DEF GetRec
  <2>2. Run(d, G.get.pos) /\ G.get.pos + Len(d) <= N BY <2>1 DEF SrcOK, GetOK
  <2>3. Len(d) \in 0..Len(d) BY <2>1
  <2> QED BY <1>1, <2>1, <2>2, <2>3
<1>3. Rest(d, Len(d)) = <<>>
  <2>1. 0 \in Int /\ put.pos \in Int BY Facts
  <2>2. Rest(d, Len(d)) \in Seq(Offset) /\ Len(Rest(d, Len(d))) = Len(d) - Len(d)
    BY <1>2, <2>1, RunRest, Zenon
  <2>3. Len(d) \in Nat BY <1>2
  <2>4. Len(Rest(d, Len(d))) = 0 BY <2>2, <2>3
  <2> HIDE DEF d
  <2> QED BY <2>2, <2>4
<1>4. SetGet(s)
  <2>1. v = [G EXCEPT !.get.pos = @ + Len(G.get.buf), !.get.buf = <<>>]
    BY <1>2, <1>3 DEF Pair
  <2> QED BY <1>1, <2>1, Zenon
<1>5. SrcOK(v) /\ v.get.pos = put.pos + Len(d)
  BY <1>1, <1>2, DropGetOK, Zenon
<1> HIDE DEF v
<1>6. SrcOK(s) /\ s.get.pos = v.get.pos
  <2>1. Full \in BOOLEAN BY DEF Full
  <2> QED BY <1>5, <2>1, SuspendGetOK, Zenon
<1> HIDE DEF s
<1>7. PICK o \in Put(PutResumed, d) : SetPut(o) BY <1>1
<1>8. DstOK(o) /\ Fresh(o.put) /\ NotEnd(o.put) /\ o.put.pos = put.pos + Len(d)
  <2>1. DstOK(PutResumed) /\ Fresh(PutResumed.put) /\ NotEnd(PutResumed.put) /\ PutResumed.put.pos = put.pos
    BY <1>1, CopyingFacts
  <2> HIDE DEF d
  <2>2. Run(d, PutResumed.put.pos) /\ PutResumed.put.pos + Len(d) <= N BY <1>2, <2>1
  <2>3. DstOK(o) /\ Fresh(o.put) /\ NotEnd(o.put) /\ o.put.pos = PutResumed.put.pos + Len(d)
    BY <1>2, <1>7, <2>1, <2>2, PutDataOK, Zenon
  <2> QED BY <2>1, <2>3, Zenon
<1>9. Lag(s.get.pos, o.put.pos)
  <2>1. put.pos + Len(d) \in Nat
    <3>1. Len(d) \in Nat /\ put.pos \in Nat BY <1>2, Facts
    <3> QED BY <3>1
  <2>2. ~(put.pos + Len(d) < put.pos + Len(d)) BY <2>1
  <2> QED BY <1>5, <1>6, <1>8, <2>2, Zenon DEF Lag
<1>10. state' \in {"DO_COPY", "pre_CONFIRM_WAIT"} BY <1>1
<1> HIDE DEF d
<1> QED BY <1>4, <1>6, <1>7, <1>8, <1>9, <1>10, ApartGood, Zenon

\* case pre_CONFIRM_WAIT: the end is announced to the put peer.
LEMMA PreConfirmGood ==
    ASSUME IInv, PreConfirmWait
    PROVE  Good
<1> DEFINE t == TRUE
           e == IF Known(get.size) THEN get.size ELSE put.e_size
           q == [put EXCEPT !.eof = t, !.e_size = e]
           v == [Putting EXCEPT !.put = q]
           o == SuspendPut(v, FALSE)
           s == SuspendGet(Getting, TRUE)
<1>1. /\ state = "pre_CONFIRM_WAIT" /\ state' = "CONFIRM_WAIT" /\ put_eof_pos' = put.pos /\ SetGet(s) /\ NotEnd(put)
      /\ (Fresh(put) \/ get.pos = 0) /\ Lag(get.pos, put.pos)
      /\ SetPut(SuspendPut([Putting EXCEPT !.put.eof = TRUE, !.put.e_size = IF Known(get.size) THEN get.size ELSE @], FALSE))
  <2>1. state = "pre_CONFIRM_WAIT" /\ P = Putting /\ Putting.put = put BY Facts DEF PreConfirmWait
  <2>2. state' = "CONFIRM_WAIT" /\ put_eof_pos' = put.pos /\ SetGet(s)
        /\ SetPut(SuspendPut([Putting EXCEPT !.put.eof = TRUE, !.put.e_size = IF Known(get.size) THEN get.size ELSE @], FALSE))
    BY <2>1, Zenon DEF PreConfirmWait, Enter
  <2> QED BY <2>1, <2>2, Facts DEF GlueAt
<1>2. t \in BOOLEAN /\ e \in Int BY Facts DEF GetRec, PutRec
<1>3. SetPut(o)
  <2>1. v = [Putting EXCEPT !.put.eof = TRUE, !.put.e_size = IF Known(get.size) THEN get.size ELSE @]
    BY Facts DEF Quad
  <2> QED BY <1>1, <2>1, Zenon
<1> HIDE DEF t, e
<1>4. q \in PutRec /\ q.pos = put.pos /\ q.buf = put.buf /\ q.seek = put.seek /\ q.can = put.can
      /\ q.want = put.want /\ q.size = put.size
  BY <1>2, Facts DEF PutRec
<1> HIDE DEF q
<1>5. DstOK(v) /\ Moved(put, v.put) /\ v.put.pos = put.pos
  <2>1. Putting.put = put /\ DstOK(Putting) BY Facts
  <2>2. DstOK(v) /\ Moved(Putting.put, v.put) /\ v.put = q
    BY <1>4, <2>1, ChangeOK, Zenon
  <2> QED BY <1>4, <2>1, <2>2, Zenon
<1> HIDE DEF v
<1>6. DstOK(o) /\ o.put.pos = v.put.pos /\ (Fresh(o.put) <=> Fresh(v.put)) /\ (NotEnd(o.put) <=> NotEnd(v.put))
  <2>1. FALSE \in BOOLEAN OBVIOUS
  <2> QED BY <1>5, <2>1, SuspendPutSame, Zenon
<1>7. SrcOK(s) /\ s.get.pos = get.pos
  <2>1. TRUE \in BOOLEAN OBVIOUS
  <2>2. SrcOK(s) /\ s.get.pos = Getting.get.pos BY <2>1, Facts, SuspendGetOK, Zenon
  <2> QED BY <2>2, Facts
<1> HIDE DEF o, s
<1>8. GetOK(get', gs') /\ PutOK(put', ps', wire', target') /\ get' = s.get /\ put' = o.put
  BY <1>1, <1>3, <1>6, <1>7, GetIs, PutIs, Zenon
<1>9. o.put.pos = put.pos
  BY <1>5, <1>6
<1>10. GlueAt(state', get', put', put_eof_pos')
  <2>1. Fresh(o.put) \/ s.get.pos = 0 BY <1>1, <1>5, <1>6, <1>7 DEF Moved
  <2>2. NotEnd(o.put) /\ Lag(s.get.pos, o.put.pos) BY <1>1, <1>5, <1>6, <1>7, <1>9 DEF Moved
  <2> QED BY <1>1, <1>8, <1>9, <2>1, <2>2 DEF GlueAt, States
<1> QED BY <1>8, <1>10 DEF Good

\* case CONFIRM_WAIT: back to copying only with a position that is known.
LEMMA ConfirmGood ==
    ASSUME IInv, ConfirmWait
    PROVE  Good
<1>1. state = "CONFIRM_WAIT" /\ NotEnd(put) /\ (Fresh(put) \/ put_eof_pos = put.pos) /\ (Fresh(put) \/ get.pos = 0)
  <2>1. state = "CONFIRM_WAIT" BY DEF ConfirmWait, Turn
  <2> QED BY <2>1, Facts DEF GlueAt
<1>2. UNCHANGED <<source, dest, put_eof_pos>>
  <2>1. SetPut(Putting) /\ UNCHANGED source BY Facts, Zenon DEF ConfirmWait
  <2>2. put_eof_pos' = put_eof_pos BY DEF ConfirmWait, Settled
  <2> QED BY <2>1, <2>2 DEF SetPut, Putting, dest
<1>3. state' \in {"CONFIRM_WAIT", "pre_GET_DONE_WAIT"} \/ (state' = "DO_COPY" /\ put_eof_pos # put.pos)
  <2>1. P.put.pos = put.pos /\ put.seek # FileEnd BY <1>1, Facts DEF NotEnd
  <2> QED BY <1>1, <2>1 DEF ConfirmWait, Fail, Leave, Enter
<1>4. GlueAt(state', get, put, put_eof_pos')
  BY <1>1, <1>2, <1>3, Facts DEF GlueAt, States
<1> QED BY <1>2, <1>4, StayGood

\* case pre_GET_DONE_WAIT: the get peer is told that it is done.
LEMMA PreGetDoneGood ==
    ASSUME IInv, PreGetDoneWait
    PROVE  Good
<1> DEFINE k == [get EXCEPT !.buf = <<>>, !.eof = TRUE, !.susp = FALSE]
           o == SuspendPut(Putting, TRUE)
<1>1. /\ state = "pre_GET_DONE_WAIT" /\ state' = "GET_DONE_WAIT" /\ SetGet([get |-> k, gs |-> Closed]) /\ SetPut(o)
      /\ (Fresh(put) \/ get.pos = 0) /\ Lag(get.pos, put.pos)
  <2>1. state = "pre_GET_DONE_WAIT" BY DEF PreGetDoneWait
  <2> QED BY <2>1, Facts DEF PreGetDoneWait, Enter, GlueAt
<1>2. k \in GetRec BY Facts, Empty, Zenon DEF GetRec
<1>3. k.pos = get.pos /\ k.buf = <<>> /\ k.eof BY Facts DEF GetRec
<1> HIDE DEF k
<1>4. get' = k /\ gs' = Closed BY <1>1 DEF SetGet
<1>5. GetOK(k, Closed)
  <2>1. k.pos + Len(k.buf) <= N
    <3>1. k.pos \in 0..N /\ Len(k.buf) = 0 /\ N \in Nat BY <1>3, Facts, Empty, FileCopyAssumption
    <3> QED BY <3>1
  <2> QED BY <1>2, <1>3, <2>1, ClosedOK, Empty DEF GetOK
<1>6. DstOK(o) /\ o.put.pos = put.pos /\ (Fresh(o.put) <=> Fresh(put))
  <2>1. TRUE \in BOOLEAN OBVIOUS
  <2>2. DstOK(o) /\ o.put.pos = Putting.put.pos /\ (Fresh(o.put) <=> Fresh(Putting.put))
    BY <2>1, Facts, SuspendPutSame, Zenon
  <2> QED BY <2>2, Facts
<1> HIDE DEF o
<1>7. PutOK(put', ps', wire', target') /\ put' = o.put BY <1>1, <1>6, PutIs, Zenon
<1>8. GlueAt(state', get', put', put_eof_pos')
  BY <1>1, <1>3, <1>4, <1>6, <1>7 DEF GlueAt, States
<1> QED BY <1>4, <1>5, <1>7, <1>8 DEF Good

\* case GET_DONE_WAIT: the source may be removed.
LEMMA GetDoneGood ==
    ASSUME IInv, GetDoneWait
    PROVE  Good
<1> DEFINE t == TRUE
           k == [get EXCEPT !.removing = t]
           h == [gs EXCEPT !.st = "remove"]
           s == IF remove_source_later THEN [Getting EXCEPT !.get.removing = TRUE, !.gs.st = "remove"] ELSE Getting
<1>1. /\ state = "GET_DONE_WAIT" /\ state' \in {"GET_DONE_WAIT", "ALL_DONE"} /\ UNCHANGED dest
      /\ (UNCHANGED source \/ SetGet(SuspendGet(s, TRUE)) \/ SetGet(s))
      /\ get.eof /\ (Fresh(put) \/ get.pos = 0) /\ Lag(get.pos, put.pos)
  <2>1. state = "GET_DONE_WAIT" BY DEF GetDoneWait, Turn
  <2>2. state' \in {"GET_DONE_WAIT", "ALL_DONE"} BY <2>1 DEF GetDoneWait, Fail, Leave, Enter
  <2>3. UNCHANGED dest BY DEF GetDoneWait
  <2>4. UNCHANGED source \/ SetGet(SuspendGet(s, TRUE)) \/ SetGet(s) BY Zenon DEF GetDoneWait
  <2> QED BY <2>1, <2>2, <2>3, <2>4, Facts DEF GlueAt
<1>2. SrcOK(s) /\ s.get.pos = get.pos /\ s.get.eof
  <2>1. CASE ~remove_source_later BY <1>1, <2>1, Facts
  <2>2. CASE remove_source_later
    <3>1. k \in GetRec BY Facts, Zenon DEF GetRec
    <3>2. k.pos = get.pos /\ k.buf = get.buf /\ k.eof = get.eof BY Facts DEF GetRec
    <3>3. gs \in GetSession BY Facts DEF GetOK
    <3>4. h \in GetSession /\ ~Reading(h) BY <3>3 DEF GetSession, Reading
    <3>5. s = [Getting EXCEPT !.get = k, !.gs = h]
      <4>1. Getting \in Pair BY Facts
      <4>2. s = [Getting EXCEPT !.get.removing = t, !.gs.st = "remove"] BY <2>2, Zenon
      <4> HIDE DEF t, s
      <4> QED BY <4>1, <4>2, Facts DEF Pair
    <3> HIDE DEF k, h, s
    <3>6. GetOK(k, h) BY <1>1, <3>1, <3>2, <3>4, Facts DEF GetOK
    <3>7. s.get = k /\ s.gs = h /\ s \in Pair BY <3>1, <3>4, <3>5, Facts DEF Pair
    <3> QED BY <1>1, <3>2, <3>6, <3>7, Zenon DEF SrcOK
  <2> QED BY <2>1, <2>2
<1> HIDE DEF s
<1>3. GetOK(get', gs') /\ get'.pos = get.pos /\ get'.eof
  <2>1. CASE UNCHANGED source BY <1>1, <2>1, Facts DEF source
  <2>2. CASE SetGet(SuspendGet(s, TRUE))
    <3>1. TRUE \in BOOLEAN OBVIOUS
    <3>2. SrcOK(SuspendGet(s, TRUE)) /\ SuspendGet(s, TRUE).get.pos = s.get.pos /\ SuspendGet(s, TRUE).get.eof = s.get.eof
      BY <1>2, <3>1, SuspendGetOK, Zenon
    <3>3. GetOK(get', gs') /\ get' = SuspendGet(s, TRUE).get BY <2>2, <3>2, GetIs, Zenon
    <3> QED BY <1>2, <3>2, <3>3, Zenon
  <2>3. CASE SetGet(s)
    <3>1. GetOK(get', gs') /\ get' = s.get BY <1>2, <2>3, GetIs, Zenon
    <3> QED BY <1>2, <3>1, Zenon
  <2> QED BY <1>1, <2>1, <2>2, <2>3
<1>4. put' = put /\ ps' = ps /\ wire' = wire /\ target' = target BY <1>1 DEF dest
<1>5. GlueAt(state', get', put', put_eof_pos')
  BY <1>1, <1>3, <1>4 DEF GlueAt, States
<1> QED BY <1>3, <1>4, <1>5, Facts DEF Good

\* FileCopy::Do, all cases.
LEMMA DoGood ==
    ASSUME IInv, Do
    PROVE  Good /\ UNCHANGED <<kind, faults>>
<1>1. UNCHANGED <<kind, faults>>
  BY DEF Do, Initial_Info, GetInfoWait, Initial, PutWait, DoCopy_Error, DoCopy_PosUnknown, DoCopy_PutBehind,
         DoCopy_GetBehind, DoCopy_Eof, DoCopy_NoData, DoCopy_Data, PreConfirmWait, ConfirmWait, PreGetDoneWait,
         GetDoneWait, Settled
<1> SUFFICES Good
  BY <1>1, Zenon
<1>2. CASE DoCopy_Error
  <2>1. UNCHANGED <<source, dest>> /\ state' = state /\ put_eof_pos' = put_eof_pos
    BY <1>2 DEF DoCopy_Error, Fail, Enter, Settled
  <2>2. GlueAt(state', get, put, put_eof_pos') BY <2>1, Facts
  <2> QED BY <2>1, <2>2, StayGood
<1>3. CASE DoCopy_PosUnknown
  <2>1. state = "DO_COPY" /\ put.seek = FileEnd BY <1>3 DEF DoCopy_PosUnknown, Turn
  <2> QED BY <2>1, Facts DEF GlueAt, NotEnd
<1>4. CASE DoCopy_Eof
  BY <1>4, AtEofGood DEF DoCopy_Eof, InStep
<1> QED BY <1>1, <1>2, <1>3, <1>4, InfoGood, InfoWaitGood, InitialGood, PutWaitGood, PutBehindGood, GetBehindGood,
           NoDataGood, DataGood, PreConfirmGood, ConfirmGood, PreGetDoneGood, GetDoneGood, Zenon DEF Do

-----------------------------------------------------------------------------
(* The invariant holds initially and is kept by every step. *)

\* The invariant holds after a step whose outcome is Good.
LEMMA Keeps ==
    ASSUME IInv, Good, UNCHANGED kind, faults' \in [1..2 -> Nat]
    PROVE  IInv'
<1>1. chosen' = chosen BY DEF kind
<1>2. (to_file <=> to_file') /\ chosen' \in Copies
  <2>1. to_file' = to_file BY <1>1 DEF to_file
  <2> QED BY <1>1, <2>1 DEF IInv
<1>3. GetOK(get, gs)' BY DEF Good, GetOK, Reading
<1>4. PutOK(put, ps, wire, target)'
  BY <1>2 DEF Good, PutOK, Core, FileOK, OpenOK, ClosedAt, TargetOK, Opened, Base, Fresh
<1>5. GlueAt(state, get, put, put_eof_pos)'
  BY <1>2 DEF Good, GlueAt, Fresh, Base, NotEnd, Lag
<1> QED BY <1>2, <1>3, <1>4, <1>5 DEF IInv

\* The counts of failures are numbers.
LEMMA FaultsStay ==
    ASSUME faults \in [1..2 -> Nat], UNCHANGED faults \/ SrcFault \/ DstFault
    PROVE  faults' \in [1..2 -> Nat]
  BY DEF SrcFault, DstFault

\* What a step of a peer or of its session leaves of how the peers relate.
LEMMA PeerGood ==
    ASSUME IInv, UNCHANGED copy, GetOK(get', gs'), PutOK(put', ps', wire', target'), Moved(put, put'),
           get'.pos \in {get.pos, 0}, get.eof => get'.eof
    PROVE  Good
<1>1. state' = state /\ put_eof_pos' = put_eof_pos BY DEF copy
<1>2. GlueAt(state, get, put, put_eof_pos) BY Facts
<1>3. Lag(get'.pos, put'.pos)
  <2>1. CASE Fresh(put) BY <1>2, <2>1 DEF Moved, GlueAt, Lag
  <2>2. CASE ~Fresh(put) BY <1>2, <2>2 DEF GlueAt, Lag
  <2> QED BY <2>1, <2>2
<1>4. GlueAt(state, get', put', put_eof_pos)
  BY <1>2, <1>3 DEF GlueAt, Moved
<1> QED BY <1>1, <1>4 DEF Good

\* A copy that has just been made: all is at 0, the target is empty or, with -c or on a
\* server, a part of the source.
LEMMA IInvInit ==
    ASSUME Init
    PROVE  IInv
<1>1. N \in Nat /\ chosen \in Copies /\ Copies \subseteq [to_file : BOOLEAN, put_min : Nat \ {0}, src_faults : Nat, dst_faults : Nat]
  BY FileCopyAssumption DEF Init
<1>2. faults \in [1..2 -> Nat] BY DEF Init
<1>3. 0 \in 0..N /\ 0 \in -1..N /\ <<>> \in Seq(Offset) BY <1>1, Empty
<1>4. PICK size \in {N, NoSizeYet} : get = GetPeer(size) BY DEF Init
<1>5. size \in Int BY <1>1 DEF NoSizeYet
<1>6. get \in GetRec BY <1>3, <1>4, <1>5, Zenon DEF GetPeer, GetRec
<1>7. get.pos = 0 /\ get.seek = 0 /\ get.buf = <<>> /\ gs = Closed /\ ~get.removing BY <1>4 DEF GetPeer, Init
<1>8. GetOK(get, gs)
  <2>1. get.pos + Len(get.buf) <= N BY <1>1, <1>7, Empty
  <2> QED BY <1>6, <1>7, <2>1, ClosedOK, Empty DEF GetOK
<1>9. put \in PutRec
  <2>1. NoSizeYet \in Int /\ NoSize \in Int BY DEF NoSizeYet, NoSize
  <2>2. put = PutPeer BY DEF Init
  <2> QED BY <1>3, <2>1, <2>2, Zenon DEF PutPeer, PutRec
<1>10. put.pos = 0 /\ put.seek = 0 /\ put.buf = <<>> /\ put.can BY DEF PutPeer, Init
<1>11. Base(put) = 0
  <2>1. put.pos = 0 /\ Len(put.buf) = 0 BY <1>10, Empty
  <2> QED BY <2>1 DEF Base
<1>12. wire = <<>> /\ state = "INITIAL" /\ ps = IF to_file THEN [Closed EXCEPT !.st = "data"] ELSE Closed
  BY DEF Init
<1>13. TargetOK(wire, target)
  <2>1. PICK k \in 0..N : target = IF cont \/ ~to_file THEN Front(Source, k) ELSE <<>> BY DEF Init
  <2>2. Source \in Seq(Offset) /\ Len(Source) = N /\ Run(Source, 0)
    <3>1. Source \in [1..N -> Offset] BY <1>1 DEF Source, Offset
    <3>2. Source \in Seq(Offset) /\ Len(Source) = N BY <1>1, <3>1
    <3> QED BY <1>1, <3>2 DEF Source, Run
  <2>3. 0 \in Int OBVIOUS
  <2>4. k \in 0..Len(Source) BY <2>2
  <2>5. Front(Source, k) \in Seq(Offset) /\ Len(Front(Source, k)) = k /\ Run(Front(Source, k), 0)
    BY <2>2, <2>3, <2>4, RunFront, Zenon
  <2>6. target \in Seq(Offset) /\ Run(target, 0) /\ Len(target) \in 0..N
    <3>1. CASE cont \/ ~to_file BY <2>1, <2>5, <3>1
    <3>2. CASE ~(cont \/ ~to_file) BY <1>3, <2>1, <3>2, Empty
    <3> QED BY <3>1, <3>2
  <2>7. Len(target) + Len(<<>>) <= N BY <1>1, <2>6, Empty
  <2> QED BY <1>3, <1>12, <2>6, <2>7, Empty DEF TargetOK
<1>14. Core(put, ps, wire, target, Base(put))
  <2>1. Len(target) \in Nat BY <1>13 DEF TargetOK
  <2>2. CASE to_file
    <3>1. ps \in PutSession /\ ps.st = "data" /\ ps.pos = 0
      <4>1. ps = [Closed EXCEPT !.st = "data"] BY <1>12, <2>2
      <4> QED BY <4>1, ClosedOK DEF PutSession, Closed
    <3>2. FileOK(put, ps, wire, target, 0) BY <1>10, <1>12, <2>1, <3>1 DEF FileOK, FileEnd
    <3> QED BY <1>9, <1>10, <1>11, <1>13, <2>2, <3>1, <3>2 DEF Core
  <2>3. CASE ~to_file
    <3>1. ps = Closed BY <1>12, <2>3
    <3>2. ClosedAt(put, ps, wire, target) BY <1>10, <1>12, <2>1, <3>1, ClosedOK DEF ClosedAt, FileEnd
    <3>3. ~Opened(ps) BY <3>1, ClosedOK DEF Opened
    <3> QED BY <1>9, <1>10, <1>13, <2>3, <3>1, <3>2, <3>3, ClosedOK DEF Core
  <2> QED BY <2>2, <2>3
<1>15. Fresh(put) BY <1>10, <1>11 DEF Fresh
<1>16. PutOK(put, ps, wire, target) BY <1>10, <1>11, <1>14, <1>15, Empty DEF PutOK
<1>17. GlueAt(state, get, put, put_eof_pos) BY <1>7, <1>10, <1>12, <1>15 DEF GlueAt, States, Lag
<1> QED BY <1>1, <1>2, <1>8, <1>16, <1>17 DEF IInv

\* The inductive step, over FileCopy::Do, both peers, and both sessions.
LEMMA IInvNext ==
    ASSUME Reliable, IInv, [Next]_vars
    PROVE  IInv'
<1>0. chosen \in Copies /\ faults \in [1..2 -> Nat] BY DEF IInv
<1>1. CASE Do
  BY <1>0, <1>1, DoGood, Keeps, Zenon
<1>2. CASE GetDo
  <2>1. GetOK(get', gs') /\ get'.pos \in {get.pos, 0} /\ (get.eof => get'.eof) /\ UNCHANGED <<kind, copy, dest>>
    BY <1>2, Facts, GetDoStep DEF GetOK, Reading
  <2>2. PutOK(put', ps', wire', target') /\ Moved(put, put') BY <2>1, Facts DEF dest, Moved
  <2>3. faults' = faults BY <1>2 DEF GetDo
  <2> QED BY <1>0, <2>1, <2>2, <2>3, PeerGood, Keeps, Zenon
<1>3. CASE PutDo
  <2>1. PutOK(put', ps', wire', target') /\ Moved(put, put') /\ UNCHANGED <<kind, copy, source>>
    BY <1>3, Facts, PutDoStep, Zenon
  <2>2. GetOK(get', gs') /\ get' = get BY <2>1, Facts DEF source
  <2>3. faults' = faults BY <1>3 DEF PutDo
  <2>4. get'.pos \in {get.pos, 0} /\ (get.eof => get'.eof) BY <2>2
  <2> QED BY <1>0, <2>1, <2>2, <2>3, <2>4, PeerGood, Keeps, Zenon
<1>4. CASE SrcConnect \/ SrcFail \/ SrcInfo
  <2>1. GetOK(get', gs') /\ get'.pos = get.pos /\ get'.eof = get.eof /\ UNCHANGED <<kind, copy, dest>>
    BY <1>4, Facts, SourceStep DEF GetOK, Reading
  <2>2. PutOK(put', ps', wire', target') /\ Moved(put, put') BY <2>1, Facts DEF dest, Moved
  <2>3. faults' \in [1..2 -> Nat]
    BY <1>0, <1>4, FaultsStay DEF SrcConnect, SrcFail, SrcInfo, NoFault
  <2>4. get'.pos \in {get.pos, 0} /\ (get.eof => get'.eof) BY <2>1
  <2> QED BY <1>0, <2>1, <2>2, <2>3, <2>4, PeerGood, Keeps, Zenon
<1>5. CASE DstConnect \/ DstComplete \/ DstStore \/ DstFail \/ DstStored \/ DstInfo
  <2>1. PutOK(put', ps', wire', target') /\ put' = put /\ UNCHANGED <<kind, copy, source>>
    BY <1>0, <1>5, Facts, DestStep, Zenon
  <2>2. GetOK(get', gs') /\ get' = get BY <2>1, Facts DEF source
  <2>3. faults' \in [1..2 -> Nat]
    BY <1>0, <1>5, FaultsStay DEF DstConnect, DstComplete, DstStore, DstFail, DstStored, DstInfo, NoFault
  <2>4. get'.pos \in {get.pos, 0} /\ (get.eof => get'.eof) /\ Moved(put, put') BY <2>1, <2>2 DEF Moved
  <2> QED BY <1>0, <2>1, <2>2, <2>3, <2>4, PeerGood, Keeps, Zenon
<1>6. CASE UNCHANGED vars
  <2>1. UNCHANGED <<kind, source, dest, faults>> /\ state' = state /\ put_eof_pos' = put_eof_pos
    BY <1>6 DEF vars, copy
  <2>2. GlueAt(state', get, put, put_eof_pos') BY <2>1, Facts
  <2>3. UNCHANGED <<source, dest>> /\ UNCHANGED kind /\ faults' \in [1..2 -> Nat] BY <1>0, <2>1
  <2> QED BY <2>2, <2>3, StayGood, Keeps, Zenon
<1> QED BY <1>1, <1>2, <1>3, <1>4, <1>5, <1>6, Zenon DEF Next, Sessions, Failures

\* The invariant is strong enough: every byte of the target is in its place.
LEMMA IInvInPlace ==
    ASSUME IInv
    PROVE  InPlace
<1>1. /\ PutOK(put, ps, wire, target) /\ GetOK(get, gs) /\ TargetOK(wire, target) /\ N \in Nat
  BY FileCopyAssumption DEF IInv, PutOK, Core
<1>2. target \in Seq(Offset) /\ wire \in Seq(Offset) /\ Run(target, 0) BY <1>1 DEF TargetOK
<1>3. get.buf \in Seq(Offset) /\ get.pos \in 0..N /\ get.seek \in 0..N BY <1>1 DEF GetOK, GetRec
<1>4. put.buf \in Seq(Offset) /\ put.pos \in 0..N /\ put.seek \in {FileEnd} \cup 0..2 * N
  <2>1. put.buf \in Seq(Offset) /\ put.pos \in 0..N /\ put.seek \in -1..N BY <1>1, BaseOK
  <2>2. put.seek = -1 \/ put.seek \in 0..2 * N BY <1>1, <2>1
  <2> QED BY <2>1, <2>2 DEF FileEnd
<1> QED BY <1>2, <1>3, <1>4 DEF InPlace, TypeOK, Run

\* For files of any size, any buffers, any number of failures of the source, and a target that
\* is a local file or on a server that does not fail: no byte is ever stored where it does not
\* belong, whatever FileCopy::Do, its peers and their sessions do.
THEOREM BytesInPlace == Reliable => (Spec => []InPlace)
<1> SUFFICES ASSUME Reliable PROVE Spec => []InPlace
  OBVIOUS
<1>1. Init => IInv BY IInvInit
<1>2. IInv /\ [Next]_vars => IInv' BY IInvNext
<1>3. IInv => InPlace BY IInvInPlace
<1> QED BY <1>1, <1>2, <1>3, PTL DEF Spec
=============================================================================
