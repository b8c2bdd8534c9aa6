------------------------- MODULE FileCopyWholeProofs -------------------------
(***************************************************************************)
(* That a copy that ends without an error has made the target equal to the *)
(* source (Faithful), for sources of every size, all bounds, and any       *)
(* number of failures of the source.  By BytesInPlace every byte of the    *)
(* target is in its place; what is left is that none is missing, and that  *)
(* is WInv, which is inductive together with IInv.  It has three parts:    *)
(*   GetWhole  a size of the source that is known is right, and the get    *)
(*             peer reports the end only when it has read to the end;      *)
(*   PutWhole  the put peer takes itself to be finished only at the end of *)
(*             the source, and believes that all is stored only when the   *)
(*             target is as long as the source;                            *)
(*   Phase     what a state of FileCopy::Do relies on of what the states   *)
(*             before it have found out.                                   *)
(* IInv is of the data; WInv of the length, the ends and the confirmation. *)
(***************************************************************************)
EXTENDS FileCopyProofs

\* Where the put peer will be when what it holds is written.
End(p) == IF to_file THEN p.pos ELSE p.seek + Len(p.buf)

\* Get peer g with session h.
GetWhole(g, h) ==
    /\ g.size \in {N, NoSize, NoSizeYet}
    /\ h.st \in {"info", "replied"} => g.size = NoSizeYet
    /\ h.st = "replied" => h.pos \in {N, NoSize}
    /\ g.eof => g.pos + Len(g.buf) = N

\* Put peer p with session or file h and target t, when the source is known to be of that size.
PutWhole(size, p, h, t) ==
    /\ p.e_size = NoSize \/ (p.e_size = N /\ size = N)
    /\ p.eof => End(p) = N
    /\ p.verify => p.eof /\ p.buf = <<>> /\ Len(t) = N /\ (to_file \/ h.st = "closed")
    /\ p.done => p.verify

Early == {"INITIAL", "GET_INFO_WAIT", "PUT_WAIT"}
Last == {"GET_DONE_WAIT", "ALL_DONE"}

\* In state st, which Do falls through (fl) or not: a put peer that has found by itself that
\* nothing is left to send knows the size of the source; the end is announced at the end of
\* the source; confirmed is a target that is as long.
Phase(st, fl, size, p, w, t, at) ==
    /\ st \in {"INITIAL", "GET_INFO_WAIT"} => p.susp /\ ~p.eof
    /\ st \in Early => p.buf = <<>> /\ w = <<>> /\ (to_file => p.seek = p.pos)
    /\ st \in Early \cup {"DO_COPY"} /\ p.eof => size = N
    /\ st = "pre_CONFIRM_WAIT" => fl /\ End(p) = N /\ (Fresh(p) \/ size = N)
    /\ st = "CONFIRM_WAIT" => p.eof /\ (size = N \/ (Fresh(p) /\ at = p.pos))
    /\ st = "pre_GET_DONE_WAIT" => fl /\ Len(t) = N

WholeAt(st, fl, g, h, p, k, w, t, at) ==
    IF st \in Last THEN p.susp /\ Len(t) = N
    ELSE GetWhole(g, h) /\ PutWhole(g.size, p, k, t) /\ Phase(st, fl, g.size, p, w, t, at)

WInv == ~error => WholeAt(state, fall, get, gs, put, ps, wire, target, put_eof_pos)

-----------------------------------------------------------------------------
(* The get peer. *)

SrcWhole(s) == SrcOK(s) /\ GetWhole(s.get, s.gs)

\* When a session begins anew at 0 the get peer has not reported the end.
LEMMA RealGetWhole ==
    ASSUME NEW s, SrcWhole(s)
    PROVE  SrcWhole(RealGet(s)) /\ RealGet(s).get.size = s.get.size
<1>1. SrcOK(s) /\ s \in Pair /\ s.get \in GetRec /\ s.gs \in GetSession /\ GetWhole(s.get, s.gs)
  BY DEF SrcWhole, SrcOK, Pair
<1>2. SrcOK(RealGet(s)) /\ RealGet(s).gs.st = s.gs.st /\ RealGet(s).get.eof = s.get.eof
  BY <1>1, RealGetOK
<1>3. CASE ~Reading(s.gs) \/ s.get.eof
  <2>1. RealGet(s) = s BY <1>3 DEF RealGet, Reading
  <2> QED BY <1>1, <2>1 DEF SrcWhole
<1>4. CASE Reading(s.gs) /\ ~s.get.eof
  <2>1. RealGet(s).get.size = s.get.size
    BY <1>1 DEF RealGet, Pair, GetRec, GetSession
  <2> HIDE DEF SrcOK
  <2>2. GetWhole(RealGet(s).get, RealGet(s).gs)
    BY <1>1, <1>2, <1>4, <2>1 DEF GetWhole, Reading
  <2> QED BY <1>2, <2>1, <2>2 DEF SrcWhole
<1> QED BY <1>3, <1>4

\* The fields that are about the position, the end and the size, are all that matters.
LEMMA GetWholeFields ==
    ASSUME NEW g, NEW k, NEW h, GetWhole(g, h), k.pos = g.pos, k.buf = g.buf, k.eof = g.eof, k.size = g.size
    PROVE  GetWhole(k, h)
  BY DEF GetWhole

\* A session that is closed or reads has no answer to wait for.
LEMMA GetWholeSession ==
    ASSUME NEW g, NEW h, GetWhole(g, h), NEW m, m.st \notin {"info", "replied"}
    PROVE  GetWhole(g, m)
  BY DEF GetWhole

\* Suspending or resuming the get peer.
LEMMA SuspendGetWhole ==
    ASSUME NEW s, SrcWhole(s), NEW b \in BOOLEAN
    PROVE  SrcWhole(SuspendGet(s, b)) /\ SuspendGet(s, b).get.size = s.get.size
<1> DEFINE k == [s.get EXCEPT !.susp = b]
<1>1. SrcOK(s) /\ s \in Pair /\ s.get \in GetRec /\ GetWhole(s.get, s.gs)
  BY DEF SrcWhole, SrcOK, Pair
<1>2. SrcOK(SuspendGet(s, b)) BY <1>1, SuspendGetOK
<1>3. SuspendGet(s, b).get = k /\ SuspendGet(s, b).gs = s.gs
  BY <1>1 DEF SuspendGet, Pair
<1>4. k.pos = s.get.pos /\ k.buf = s.get.buf /\ k.eof = s.get.eof /\ k.size = s.get.size
  BY <1>1 DEF GetRec
<1>5. GetWhole(k, s.gs) BY <1>1, <1>4, GetWholeFields, Zenon
<1> QED BY <1>2, <1>3, <1>4, <1>5 DEF SrcWhole

\* Seek takes back the report of the end.
LEMMA SeekGetWhole ==
    ASSUME NEW s, SrcWhole(s), NEW x \in 0..N
    PROVE  SrcWhole(SeekGet(s, x)) /\ SeekGet(s, x).get.size = s.get.size
<1>1. SrcOK(s) /\ s \in Pair /\ s.get \in GetRec /\ GetWhole(s.get, s.gs)
  BY DEF SrcWhole, SrcOK, Pair
<1>2. SrcOK(SeekGet(s, x)) BY <1>1, SeekGetOK
<1>3. CASE s.get.pos = x
  BY <1>3 DEF SeekGet
<1>4. CASE s.get.pos # x
  <2> DEFINE k == [s.get EXCEPT !.seek = x, !.pos = x, !.buf = <<>>, !.eof = FALSE]
  <2>1. SeekGet(s, x) = [get |-> k, gs |-> Closed]
    BY <1>4, Zenon DEF SeekGet
  <2>2. k.size = s.get.size /\ ~k.eof
    BY <1>1 DEF GetRec
  <2> HIDE DEF k
  <2>3. GetWhole(k, Closed)
    BY <1>1, <2>2, ClosedOK DEF GetWhole
  <2> QED BY <1>2, <2>1, <2>2, <2>3 DEF SrcWhole
<1> QED BY <1>3, <1>4

\* OpenSession reports the end past the known size: there is the end of the source.
LEMMA OpenGetWhole ==
    ASSUME NEW s, SrcWhole(s), ~s.get.eof, ~s.get.removing
    PROVE  SrcWhole(OpenGet(s)) /\ OpenGet(s).get.size = s.get.size
<1> DEFINE g == s.get
           past == g.size # NoSize /\ g.size # NoSizeYet /\ (g.seek > g.size \/ (g.seek = g.size /\ g.size > 0))
<1>1. SrcOK(s) /\ s \in Pair /\ g \in GetRec /\ s.gs \in GetSession /\ GetOK(g, s.gs) /\ GetWhole(g, s.gs) /\ N \in Nat
  BY FileCopyAssumption DEF SrcWhole, SrcOK, Pair
<1>2. SrcOK(OpenGet(s)) BY <1>1, OpenGetOK
<1>3. CASE s.gs.st # "closed"
  BY <1>3 DEF OpenGet
<1>4. CASE s.gs.st = "closed" /\ past
  <2> DEFINE k == [g EXCEPT !.pos = g.seek, !.eof = TRUE]
             u == [s EXCEPT !.get.pos = g.seek, !.get.eof = TRUE]
  <2>1. OpenGet(s) = u BY <1>4, Zenon DEF OpenGet
  <2>2. u.get = k /\ u.gs = s.gs BY <1>1 DEF Pair
  <2>3. g.buf = <<>> /\ g.seek \in 0..N BY <1>1, <1>4 DEF GetOK, Reading, GetRec
  <2>4. g.seek = N BY <1>1, <1>4, <2>3 DEF GetWhole
  <2>5. k.pos = N /\ k.buf = <<>> /\ k.size = g.size BY <1>1, <2>3, <2>4 DEF GetRec
  <2> HIDE DEF k, u, past, g
  <2>6. k.pos + Len(k.buf) = N BY <1>1, <2>5, Empty
  <2>7. GetWhole(k, s.gs) BY <1>1, <2>5, <2>6 DEF GetWhole
  <2> QED BY <1>2, <2>1, <2>2, <2>5, <2>7 DEF SrcWhole, g
<1>5. CASE s.gs.st = "closed" /\ ~past
  <2> DEFINE k == [g EXCEPT !.pos = g.seek, !.buf = <<>>]
             h == At(g.seek)
  <2>1. OpenGet(s) = [get |-> k, gs |-> h]
    BY <1>5, Zenon DEF OpenGet, At
  <2>2. g.seek \in 0..N BY <1>1 DEF GetRec
  <2>3. k.size = g.size /\ ~k.eof BY <1>1 DEF GetRec
  <2>4. h.st = "conn" BY <2>2, AtOK
  <2> HIDE DEF k, h, g, past
  <2>5. GetWhole(k, h) BY <1>1, <2>3, <2>4 DEF GetWhole
  <2> QED BY <1>2, <2>1, <2>3, <2>5 DEF SrcWhole, g
<1> QED BY <1>3, <1>4, <1>5

\* Get_LL in each of its outcomes: at the end of the file the session has delivered all of it.
LEMMA GetLLWhole ==
    ASSUME NEW s, SrcWhole(s), ~s.get.eof, ~s.get.removing, NEW r \in GetLL(s)
    PROVE  SrcWhole(r) /\ r.get.size = s.get.size
<1> USE FileCopyAssumption
<1> DEFINE a == OpenGet(s)
           b == RealGet(a)
           fails == [b EXCEPT !.get.err = TRUE]
           ends == [b EXCEPT !.get.eof = TRUE, !.gs = Closed]
           reads(n) == [b EXCEPT !.gs.pos = @ + n, !.gs.real = b.gs.pos + n,
                                 !.get.buf = @ \o SubSeq(Source, b.gs.pos + 1, b.gs.pos + n)]
<1>1. SrcWhole(a) /\ a.get.size = s.get.size
  BY OpenGetWhole
<1>2. SrcWhole(b) /\ b.get.size = s.get.size /\ SrcOK(r)
  <2>1. SrcOK(s) BY DEF SrcWhole
  <2> QED BY <1>1, <2>1, RealGetWhole, GetLLOK
<1>3. b \in Pair /\ b.get \in GetRec /\ b.gs \in GetSession /\ GetOK(b.get, b.gs) /\ GetWhole(b.get, b.gs)
  BY <1>2 DEF SrcWhole, SrcOK, Pair
<1>4. \/ r \in {a, b}
      \/ r = fails
      \/ b.gs.st = "data" /\ b.gs.pos = N /\ r = ends
      \/ /\ b.gs.st = "data" /\ b.gs.pos < N
         /\ \E n \in 1..MinOf(MaxBuf, N - b.gs.pos) : r = reads(n)
  BY Zenon DEF GetLL
<1> HIDE DEF a, b
<1>5. CASE r \in {a, b}
  BY <1>1, <1>2, <1>5
<1>6. CASE r = fails
  <2> DEFINE k == [b.get EXCEPT !.err = TRUE]
  <2>1. fails.get = k /\ fails.gs = b.gs BY <1>3 DEF Pair
  <2>2. k.pos = b.get.pos /\ k.buf = b.get.buf /\ k.eof = b.get.eof /\ k.size = b.get.size
    BY <1>3 DEF GetRec
  <2> HIDE DEF k, fails
  <2>3. GetWhole(k, b.gs) BY <1>3, <2>2, GetWholeFields, Zenon
  <2> QED BY <1>2, <1>6, <2>1, <2>2, <2>3 DEF SrcWhole
<1>7. CASE b.gs.st = "data" /\ b.gs.pos = N /\ r = ends
  <2> DEFINE k == [b.get EXCEPT !.eof = TRUE]
  <2>1. ends.get = k /\ ends.gs = Closed BY <1>3 DEF Pair
  <2>2. k.pos = b.get.pos /\ k.buf = b.get.buf /\ k.size = b.get.size
    BY <1>3 DEF GetRec
  <2>3. b.get.pos + Len(b.get.buf) = N BY <1>3, <1>7 DEF GetOK, Reading
  <2> HIDE DEF k, ends
  <2>4. GetWhole(k, Closed) BY <1>3, <2>2, <2>3, ClosedOK DEF GetWhole
  <2> QED BY <1>2, <1>7, <2>1, <2>2, <2>4 DEF SrcWhole
<1>8. ASSUME b.gs.st = "data", NEW n \in 1..MinOf(MaxBuf, N - b.gs.pos), r = reads(n)
      PROVE  SrcWhole(r) /\ r.get.size = b.get.size
  <2> DEFINE d == b.get.buf \o SubSeq(Source, b.gs.pos + 1, b.gs.pos + n)
             y == b.gs.pos + n
             k == [b.get EXCEPT !.buf = d]
             h == [b.gs EXCEPT !.pos = y, !.real = y]
  <2>1. r.get = k /\ r.gs = h BY <1>3, <1>8 DEF Pair
  <2> HIDE DEF d, y
  <2>2. k.size = b.get.size /\ k.eof = b.get.eof /\ h.st = "data" BY <1>3, <1>8 DEF GetRec, GetSession
  <2>3. ~b.get.eof BY <1>3, <1>8 DEF GetOK, Reading
  <2> HIDE DEF k, h, reads
  <2>4. GetWhole(k, h) BY <1>3, <2>2, <2>3 DEF GetWhole
  <2> QED BY <1>2, <2>1, <2>2, <2>4 DEF SrcWhole
<1> QED BY <1>2, <1>4, <1>5, <1>6, <1>7, <1>8

\* The first n bytes in the buffer of the get peer are taken or skipped.
LEMMA DropGetWhole ==
    ASSUME NEW s, SrcWhole(s), NEW n \in 0..Len(s.get.buf), NEW v,
           v = [s EXCEPT !.get.pos = @ + n, !.get.buf = Rest(@, n)]
    PROVE  SrcWhole(v) /\ v.get.size = s.get.size
<1> DEFINE g == s.get
           b == Rest(g.buf, n)
           x == g.pos + n
           k == [g EXCEPT !.pos = x, !.buf = b]
<1>1. SrcOK(s) /\ s \in Pair /\ g \in GetRec /\ GetOK(g, s.gs) /\ GetWhole(g, s.gs) /\ N \in Nat
  BY FileCopyAssumption DEF SrcWhole, SrcOK, Pair
<1>2. SrcOK(v) BY <1>1, DropGetOK
<1>3. v.get = k /\ v.gs = s.gs
  BY <1>1 DEF Pair
<1>4. g.pos \in 0..N /\ g.buf \in Seq(Offset) /\ Run(g.buf, g.pos)
  BY <1>1 DEF GetOK, GetRec
<1>5. Len(b) = Len(g.buf) - n
  <2>1. g.pos \in Int BY <1>4
  <2> QED BY <1>4, <2>1, RunRest, Zenon
<1>6. x + Len(b) = g.pos + Len(g.buf)
  <2> DEFINE c == Len(g.buf)
             y == g.pos
  <2>1. c \in Nat /\ n \in 0..c /\ y \in 0..N /\ Len(b) = c - n BY <1>4, <1>5
  <2>2. (y + n) + (c - n) = y + c
    <3> HIDE DEF c, y
    <3> QED BY <2>1
  <2> QED BY <2>1, <2>2
<1> HIDE DEF b, x
<1>7. k.pos = x /\ k.buf = b /\ k.eof = g.eof /\ k.size = g.size
  BY <1>1 DEF GetRec
<1> HIDE DEF k
<1>8. GetWhole(k, s.gs) BY <1>1, <1>6, <1>7 DEF GetWhole
<1> QED BY <1>2, <1>3, <1>7, <1>8 DEF SrcWhole

\* What a step leaves of what is known about the source: a size that is known stays.
GetKept(size) == GetWhole(get', gs') /\ (size = N => get'.size = N)

\* The get peer after a step that sets it to one that is whole.
LEMMA GetWholeIs ==
    ASSUME NEW s, SrcWhole(s), SetGet(s)
    PROVE  GetWhole(get', gs') /\ get'.size = s.get.size
  BY DEF SrcWhole, SetGet

\* Do of the get peer: an answer about the size comes only when the size is not known.
LEMMA GetDoWhole ==
    ASSUME GetOK(get, gs), GetWhole(get, gs), GetDo
    PROVE  GetKept(get.size)
<1>1. /\ get \in GetRec /\ gs \in GetSession /\ Getting.get = get /\ Getting.gs = gs /\ Getting \in Pair
      /\ SrcWhole(Getting) /\ N \in Nat
  BY PairOK, FileCopyAssumption DEF GetOK, Getting, SrcWhole, SrcOK
<1>2. CASE SetGet([get |-> [get EXCEPT !.removing = FALSE, !.susp = TRUE], gs |-> Closed])
  <2> DEFINE k == [get EXCEPT !.removing = FALSE, !.susp = TRUE]
  <2>1. k.pos = get.pos /\ k.buf = get.buf /\ k.eof = get.eof /\ k.size = get.size
    BY <1>1 DEF GetRec
  <2>2. get' = k /\ gs' = Closed BY <1>2 DEF SetGet
  <2> HIDE DEF k
  <2>3. GetWhole(k, Closed) BY <2>1, ClosedOK DEF GetWhole
  <2> QED BY <2>1, <2>2, <2>3 DEF GetKept
<1>3. CASE SetGet(Getting)
  BY <1>1, <1>3, GetWholeIs DEF GetKept
<1>4. CASE get.size = NoSizeYet /\ SetGet([Getting EXCEPT !.gs.st = "info"])
  <2> DEFINE h == [gs EXCEPT !.st = "info"]
  <2>1. get' = get /\ gs' = h BY <1>4 DEF SetGet, Getting
  <2>2. h.st = "info" BY <1>1 DEF GetSession
  <2> HIDE DEF h
  <2>3. GetWhole(get, h) BY <1>4, <2>2 DEF GetWhole
  <2> QED BY <2>1, <2>3 DEF GetKept
<1>5. CASE gs.st = "replied" /\ SetGet([get |-> [get EXCEPT !.size = gs.pos], gs |-> Closed])
  <2> DEFINE k == [get EXCEPT !.size = gs.pos]
  <2>1. k.pos = get.pos /\ k.buf = get.buf /\ k.eof = get.eof /\ k.size = gs.pos
    BY <1>1 DEF GetRec
  <2>2. get' = k /\ gs' = Closed BY <1>5 DEF SetGet
  <2> HIDE DEF k
  <2>3. gs.pos \in {N, NoSize} /\ get.size # N BY <1>1, <1>5 DEF GetWhole, NoSizeYet
  <2>4. GetWhole(k, Closed) BY <2>1, <2>3, ClosedOK DEF GetWhole
  <2> QED BY <2>1, <2>2, <2>3, <2>4 DEF GetKept
<1>6. ASSUME ~get.removing, ~get.eof, NEW s \in GetLL(Getting), SetGet(s)
      PROVE  GetKept(get.size)
  <2>1. SrcWhole(s) /\ s.get.size = Getting.get.size BY <1>1, <1>6, GetLLWhole
  <2> QED BY <1>1, <1>6, <2>1, GetWholeIs DEF GetKept
<1>7. \/ SetGet([get |-> [get EXCEPT !.removing = FALSE, !.susp = TRUE], gs |-> Closed])
      \/ SetGet(Getting)
      \/ get.size = NoSizeYet /\ SetGet([Getting EXCEPT !.gs.st = "info"])
      \/ gs.st = "replied" /\ SetGet([get |-> [get EXCEPT !.size = gs.pos], gs |-> Closed])
      \/ ~get.removing /\ ~get.eof /\ \E s \in GetLL(Getting) : SetGet(s)
  BY Zenon DEF GetDo
<1> QED BY <1>2, <1>3, <1>4, <1>5, <1>6, <1>7

\* What the session of the get peer does by itself: the size that comes with the data, and
\* the answer about it, are the size of the source.
LEMMA SourceWhole ==
    ASSUME GetOK(get, gs), GetWhole(get, gs), SrcConnect \/ SrcFail \/ SrcInfo
    PROVE  GetKept(get.size)
<1>1. get \in GetRec /\ gs \in GetSession
  BY DEF GetOK
<1>2. CASE SrcConnect
  <2> DEFINE x == IF get.want THEN N ELSE get.size
             k == [get EXCEPT !.size = x]
  <2>1. k.pos = get.pos /\ k.buf = get.buf /\ k.eof = get.eof /\ k.size = x BY <1>1 DEF GetRec
  <2>2. get' = k BY <1>2 DEF SrcConnect
  <2>3. x \in {get.size, N} OBVIOUS
  <2>4. gs'.st = "data"
    <3>1. PICK real \in {gs.pos, 0} : gs' = [gs EXCEPT !.st = "data", !.real = real]
      BY <1>2 DEF SrcConnect
    <3> QED BY <1>1, <3>1 DEF GetSession
  <2> HIDE DEF k, x
  <2>5. GetWhole(k, gs') BY <2>1, <2>3, <2>4 DEF GetWhole
  <2> QED BY <2>1, <2>2, <2>3, <2>5 DEF GetKept
<1>3. CASE SrcFail
  <2>1. PICK st \in {"conn", "failed"} : gs' = [gs EXCEPT !.st = st, !.real = -1]
    BY <1>3 DEF SrcFail
  <2>2. get' = get BY <1>3 DEF SrcFail
  <2>3. gs'.st = st BY <1>1, <2>1 DEF GetSession
  <2>4. GetWhole(get, gs') BY <2>1, <2>3, GetWholeSession
  <2> QED BY <2>2, <2>4 DEF GetKept
<1>4. CASE SrcInfo
  <2>1. PICK x \in {N, NoSize} : gs.st = "info" /\ gs' = [gs EXCEPT !.st = "replied", !.pos = x]
    BY <1>4 DEF SrcInfo
  <2>2. get' = get BY <1>4 DEF SrcInfo
  <2>3. gs'.st = "replied" /\ gs'.pos = x BY <1>1, <2>1 DEF GetSession
  <2>4. GetWhole(get, gs') BY <2>1, <2>3 DEF GetWhole
  <2> QED BY <2>2, <2>4 DEF GetKept
<1> QED BY <1>2, <1>3, <1>4

-----------------------------------------------------------------------------
(* The put peer. *)

\* Where a put peer that knows its position will be: at its position, unless that is to be
\* corrected when the session is opened; then there is nothing to write.
LEMMA EndIs ==
    ASSUME NEW p, NEW h, NEW w, NEW t, PutOK(p, h, w, t), NotEnd(p)
    PROVE  /\ End(p) \in 0..N
           /\ Fresh(p) => End(p) = p.pos
           /\ ~to_file => p.seek \in 0..N /\ p.seek <= End(p)
           /\ ~to_file /\ p.buf = <<>> => End(p) = p.seek
<1>1. /\ N \in Nat /\ p.pos \in 0..N /\ p.seek \in 0..N /\ Len(p.buf) \in Nat /\ Base(p) \in 0..N
      /\ p.pos = Base(p) + Len(p.buf)
      /\ Fresh(p) \/ p.buf = <<>>
  <2>1. p.seek \in -1..N /\ p.seek # -1 /\ N \in Nat BY BaseOK DEF NotEnd, FileEnd
  <2> QED BY <2>1, BaseOK DEF PutOK
<1>2. CASE to_file
  BY <1>1, <1>2 DEF End
<1>3. CASE ~to_file /\ Fresh(p)
  <2> DEFINE l == Len(p.buf)
  <2>1. p.seek = Base(p) /\ End(p) = p.seek + l /\ l \in Nat BY <1>1, <1>3 DEF Fresh, End
  <2>2. p.buf = <<>> => l = 0 BY Empty
  <2>3. p.pos = Base(p) + l BY <1>1
  <2> HIDE DEF l
  <2> QED BY <1>1, <1>3, <2>1, <2>2, <2>3
<1>4. CASE ~to_file /\ ~Fresh(p)
  <2>1. End(p) = p.seek BY <1>1, <1>4, Empty DEF End
  <2> QED BY <1>1, <1>4, <2>1
<1> QED BY <1>2, <1>3, <1>4

\* What a call leaves of the ends of a put peer that is at o before it and at v after it.
Goes(o, v) ==
    /\ v.put.e_size = o.put.e_size /\ v.put.susp = o.put.susp /\ v.put.done = o.put.done
    /\ o.put.eof => v.put.eof
    /\ v.put.eof => o.put.eof \/ (o.put.e_size = N /\ End(v.put) = N)
    /\ End(v.put) = End(o.put)
    /\ o.put.buf = <<>> => v.put.buf = <<>>
    /\ o.put.buf = <<>> /\ o.wire = <<>> => v.wire = <<>>
    /\ to_file => v.put.seek = o.put.seek

\* Goes holds of two calls when it holds of each.
LEMMA GoesTwice ==
    ASSUME NEW o, NEW v, NEW u, Goes(o, v), Goes(v, u)
    PROVE  Goes(o, u)
  BY DEF Goes

\* A call that only changes another field of the put peer.
LEMMA ChangeGoes ==
    ASSUME NEW o, NEW v, v.put.e_size = o.put.e_size, v.put.susp = o.put.susp, v.put.done = o.put.done,
           v.put.eof = o.put.eof, v.put.pos = o.put.pos, v.put.seek = o.put.seek, v.put.buf = o.put.buf,
           v.wire = o.wire
    PROVE  Goes(o, v)
  BY DEF Goes, End

\* The put peer does not take all to be stored yet, and what it takes to be the end is right.
Unverified(size, o) == DstOK(o) /\ NotEnd(o.put) /\ PutWhole(size, o.put, o.ps, o.target) /\ ~o.put.verify

\* OpenSession takes the target to be complete only where the source ends.
LEMMA OpenPutGoes ==
    ASSUME NEW size, NEW o, Unverified(size, o), ~to_file
    PROVE  /\ Goes(o, OpenPut(o)) /\ ~OpenPut(o).put.verify /\ OpenPut(o) \in Quad
           /\ OpenPut(o).put.eof => o.put.eof \/ o.put.seek = N
           /\ OpenPut(o).put.seek = o.put.seek /\ OpenPut(o).put.buf = o.put.buf /\ OpenPut(o).wire = o.wire
<1> DEFINE p == o.put
           past == p.e_size >= 0 /\ p.size >= 0 /\ p.seek >= p.e_size
           e == p.seek > p.e_size
           t == TRUE
           k == [p EXCEPT !.eof = t, !.err = e]
           q == IF past THEN k ELSE p
           u == OpenPut(o)
<1>1. /\ o \in Quad /\ p \in PutRec /\ PutOK(p, o.ps, o.wire, o.target) /\ NotEnd(p)
      /\ PutWhole(size, p, o.ps, o.target) /\ ~p.verify /\ u \in Quad /\ DstOK(u) /\ N \in Nat
  BY OpenPutOK, FileCopyAssumption DEF DstOK, Quad, Unverified
<1>2. End(p) \in 0..N /\ p.seek \in 0..N /\ p.seek <= End(p) /\ End(p) = p.seek + Len(p.buf)
  BY <1>1, EndIs DEF End
<1>3. past => p.e_size = N /\ p.seek = N /\ End(p) = N
  <2>1. p.e_size = NoSize \/ p.e_size = N BY <1>1 DEF PutWhole
  <2> QED BY <1>1, <1>2, <2>1 DEF NoSize
<1>4. e \in BOOLEAN /\ t \in BOOLEAN /\ t
  OBVIOUS
<1>5. k \in PutRec /\ k.buf = p.buf /\ k.seek = p.seek /\ k.eof = t /\ k.verify = p.verify /\ k.e_size = p.e_size
      /\ k.susp = p.susp /\ k.done = p.done
  <2> HIDE DEF e, t
  <2> QED BY <1>1, <1>4 DEF PutRec
<1> HIDE DEF k, e, t
<1>6. q \in PutRec /\ q.buf = p.buf /\ q.seek = p.seek /\ q.verify = p.verify /\ q.e_size = p.e_size
      /\ q.susp = p.susp /\ q.done = p.done /\ (p.eof => q.eof) /\ (q.eof => p.eof \/ past)
  BY <1>1, <1>4, <1>5
<1>7. \A m, v : /\ v.put = m /\ v.wire = o.wire
                /\ m.buf = q.buf /\ m.seek = q.seek /\ m.verify = q.verify /\ m.e_size = q.e_size
                /\ m.susp = q.susp /\ m.done = q.done /\ m.eof = q.eof
                => /\ Goes(o, v) /\ ~m.verify /\ (m.eof => p.eof \/ p.seek = N)
                   /\ m.seek = p.seek /\ m.buf = p.buf /\ v.wire = o.wire
  <2> HIDE DEF q, past, p
  <2> SUFFICES ASSUME NEW m, NEW v, v.put = m, v.wire = o.wire,
                      m.buf = q.buf, m.seek = q.seek, m.verify = q.verify, m.e_size = q.e_size,
                      m.susp = q.susp, m.done = q.done, m.eof = q.eof
               PROVE  /\ Goes(o, v) /\ ~m.verify /\ (m.eof => p.eof \/ p.seek = N)
                      /\ m.seek = p.seek /\ m.buf = p.buf /\ v.wire = o.wire
    OBVIOUS
  <2>1. End(m) = End(p) BY <1>6 DEF End
  <2>2. Goes(o, v) BY <1>3, <1>6, <2>1 DEF Goes, p
  <2> QED BY <1>1, <1>3, <1>6, <2>2
<1>8. CASE o.ps.st # "closed"
  <2>1. u = o BY <1>8 DEF OpenPut
  <2>2. Goes(o, o) BY ChangeGoes
  <2> QED BY <1>1, <2>1, <2>2
<1>9. CASE o.ps.st = "closed" /\ past /\ ~dated
  <2>1. u = [o EXCEPT !.put = q]
    BY <1>9, Zenon DEF OpenPut, k, e, t
  <2> HIDE DEF q, past
  <2>2. u.put = q /\ u.wire = o.wire BY <1>1, <2>1 DEF Quad
  <2> HIDE DEF u
  <2> QED BY <1>1, <1>7, <2>2 DEF u
<1>10. CASE o.ps.st = "closed" /\ ~(past /\ ~dated)
  <2> DEFINE y == p.seek + Len(p.buf)
             m == [q EXCEPT !.pos = y]
             h == At(p.seek)
  <2>1. u = [o EXCEPT !.put = m, !.ps = h]
    BY <1>10, Zenon DEF OpenPut, past, k, e, t, At
  <2> HIDE DEF q, past, y
  <2>2. m.buf = q.buf /\ m.seek = q.seek /\ m.verify = q.verify /\ m.e_size = q.e_size
        /\ m.susp = q.susp /\ m.done = q.done /\ m.eof = q.eof
    BY <1>6 DEF PutRec
  <2> HIDE DEF m, h
  <2>3. u.put = m /\ u.wire = o.wire BY <1>1, <2>1 DEF Quad
  <2> HIDE DEF u
  <2> QED BY <1>1, <1>7, <2>2, <2>3 DEF u
<1> QED BY <1>8, <1>9, <1>10

\* n bytes of the buffer are sent, and dropped from it: where the peer will be does not change.
LEMMA SentGoes ==
    ASSUME NEW a \in Quad, NEW n \in 0..Len(a.put.buf), ~to_file, Run(a.put.buf, Base(a.put)), Base(a.put) \in Int
    PROVE  LET v == After(ToSession(a, a.put.buf, n), n)
           IN Goes(a, v) /\ v.put.verify = a.put.verify
<1> DEFINE p == a.put
           d == p.buf
           u == ToSession(a, d, n)
           v == After(u, n)
           y == p.seek + n
           b == Rest(d, n)
           w == a.wire \o Front(d, n)
           m == [p EXCEPT !.seek = y]
           k == [m EXCEPT !.buf = b]
<1>1. p \in PutRec /\ d \in Seq(Offset) /\ Len(d) \in Nat /\ p.seek \in -1..N /\ N \in Nat /\ a.wire \in Seq(Offset) /\ n \in Nat
  BY FileCopyAssumption DEF Quad, PutRec
<1>2. Len(b) = Len(d) - n
  BY <1>1, RunRest, Zenon
<1>3. u.put = m /\ u.wire = w
  BY DEF Quad, ToSession
<1> HIDE DEF y, b, w
<1>4. m.seek = y /\ m.buf = d /\ m.e_size = p.e_size /\ m.susp = p.susp /\ m.done = p.done /\ m.eof = p.eof /\ m.verify = p.verify
  BY <1>1 DEF PutRec
<1>5. k.seek = y /\ k.buf = b /\ k.e_size = p.e_size /\ k.susp = p.susp /\ k.done = p.done /\ k.eof = p.eof /\ k.verify = p.verify
  BY <1>1 DEF PutRec
<1>6. v.put = (IF n = 0 THEN m ELSE k) /\ v.wire = w
  <2>1. CASE n = 0 BY <1>3, <2>1 DEF After
  <2>2. CASE n # 0
    <3>1. v = [u EXCEPT !.put.buf = Rest(@, n)] BY <2>2 DEF After
    <3>2. u = [a EXCEPT !.wire = w, !.ps = u.ps, !.put = m]
      BY DEF Quad, ToSession, w, y
    <3>3. v.put = [m EXCEPT !.buf = Rest(@, n)] /\ v.wire = w
      <4> HIDE DEF u, v, m
      <4> QED BY <3>1, <3>2 DEF Quad
    <3> QED BY <1>4, <2>2, <3>3 DEF b
  <2> QED BY <2>1, <2>2
<1> HIDE DEF m, k, u, v
<1>7. End(v.put) = End(p)
  <2> DEFINE l == Len(d)
  <2>1. v.put.seek = y /\ Len(v.put.buf) = l - n
    <3>1. CASE n = 0
      <4>1. v.put.seek = y /\ Len(v.put.buf) = l /\ l \in Nat BY <1>1, <1>4, <1>6, <3>1
      <4> HIDE DEF l
      <4> QED BY <3>1, <4>1
    <3>2. CASE n # 0 BY <1>2, <1>5, <1>6, <3>2
    <3> QED BY <3>1, <3>2
  <2>2. (p.seek + n) + (l - n) = p.seek + l
    <3> DEFINE x == p.seek
    <3>1. x \in Int /\ l \in Nat BY <1>1
    <3> HIDE DEF x, l
    <3> QED BY <1>1, <3>1
  <2> QED BY <2>1, <2>2 DEF End, y
<1>8. d = <<>> => v.put.buf = <<>>
  <2> SUFFICES ASSUME d = <<>> PROVE v.put.buf = <<>>
    OBVIOUS
  <2>1. n = 0 BY Empty
  <2> QED BY <1>4, <1>6, <2>1
<1>9. d = <<>> /\ a.wire = <<>> => v.wire = <<>>
  <2> SUFFICES ASSUME d = <<>>, a.wire = <<>> PROVE w = <<>>
    BY <1>6
  <2>1. n = 0 BY Empty
  <2>2. 0 \in 0..Len(d) /\ Base(p) \in Int BY <1>1
  <2>3. Front(d, 0) \in Seq(Offset) /\ Len(Front(d, 0)) = 0 BY <1>1, <2>2, RunFront, Zenon
  <2>4. Front(d, 0) = <<>> BY <2>3
  <2> QED BY <2>1, <2>4 DEF w
<1>10. v.put.e_size = p.e_size /\ v.put.susp = p.susp /\ v.put.done = p.done /\ v.put.eof = p.eof /\ v.put.verify = p.verify
  BY <1>4, <1>5, <1>6
<1>11. Goes(a, v)
  BY <1>7, <1>8, <1>9, <1>10 DEF Goes
<1> QED BY <1>10, <1>11 DEF u, v

\* Put_LL of the buffer, in each of its outcomes.
LEMMA PutLLGoes ==
    ASSUME NEW size, NEW o, Unverified(size, o), NEW r \in PutLL(o, o.put.buf)
    PROVE  LET v == After(r.o, r.n)
           IN Goes(o, v) /\ ~v.put.verify /\ DstOK(v) /\ Moved(o.put, v.put)
<1> DEFINE p == o.put
           d == p.buf
           v == After(r.o, r.n)
           a == OpenPut(o)
<1>1. /\ o \in Quad /\ p \in PutRec /\ PutOK(p, o.ps, o.wire, o.target) /\ NotEnd(p) /\ ~p.verify /\ DstOK(o)
      /\ d \in Seq(Offset) /\ Len(d) \in Nat /\ Base(p) \in 0..N /\ Run(d, Base(p))
  BY BaseOK DEF DstOK, Quad, Unverified
<1>2. DstOK(v) /\ Moved(p, v.put)
  <2>1. /\ Base(p) + Len(d) <= N /\ (Fresh(p) \/ d = <<>>)
    <3>1. p.pos <= N /\ p.pos = Base(p) + Len(d) BY <1>1, BaseOK
    <3> QED BY <1>1, <3>1 DEF PutOK
  <2>2. r.n \in 0..Len(d) /\ Taken(o, r.o, r.n)
    BY <1>1, <2>1, PutLLOK, Zenon
  <2> QED BY <1>1, <2>2, DropOK, Zenon
<1>3. Outcome(o, d, r) BY <1>1, PutLLIs, Zenon
<1> SUFFICES Goes(o, v) /\ ~v.put.verify
  BY <1>2
<1>4. CASE r = [o |-> [o EXCEPT !.put.err = TRUE], n |-> 0]
  <2> DEFINE k == [p EXCEPT !.err = TRUE]
  <2>1. v = [o EXCEPT !.put.err = TRUE] BY <1>4 DEF After
  <2>2. v.put = k /\ v.wire = o.wire BY <1>1, <2>1 DEF Quad
  <2>3. /\ k.e_size = p.e_size /\ k.susp = p.susp /\ k.done = p.done /\ k.eof = p.eof /\ k.pos = p.pos
        /\ k.seek = p.seek /\ k.buf = p.buf /\ k.verify = p.verify
    BY <1>1 DEF PutRec
  <2> HIDE DEF k, v
  <2> QED BY <1>1, <2>2, <2>3, ChangeGoes
<1>5. ASSUME to_file, NEW n \in 0..Len(d), r = [o |-> ToFile(o, d, n), n |-> n]
      PROVE  Goes(o, v) /\ ~v.put.verify
  <2> DEFINE u == ToFile(o, d, n)
             b == Rest(d, n)
             k == IF n = 0 THEN p ELSE [p EXCEPT !.buf = b]
  <2>1. u.put = p /\ u.wire = o.wire /\ v = After(u, n)
    BY <1>1, <1>5 DEF Quad, ToFile
  <2>2. v.put = k /\ v.wire = o.wire
    <3>1. CASE n = 0 BY <2>1, <3>1 DEF After
    <3>2. CASE n # 0
      <4>1. v = [u EXCEPT !.put.buf = Rest(@, n)] BY <2>1, <3>2 DEF After
      <4>2. u \in Quad
        <5>1. Base(o.put) + Len(d) <= N
          <6>1. p.pos <= N /\ p.pos = Base(p) + Len(d) BY <1>1, BaseOK
          <6> QED BY <6>1
        <5> QED BY <1>1, <1>5, <5>1, WrittenOK, Zenon
      <4> HIDE DEF u, v
      <4> QED BY <2>1, <3>2, <4>1, <4>2 DEF Quad
    <3> QED BY <3>1, <3>2
  <2> HIDE DEF b
  <2>3. /\ k.e_size = p.e_size /\ k.susp = p.susp /\ k.done = p.done /\ k.eof = p.eof /\ k.pos = p.pos
        /\ k.seek = p.seek /\ k.verify = p.verify
    BY <1>1 DEF PutRec
  <2>4. d = <<>> => k.buf = <<>>
    <3> SUFFICES ASSUME d = <<>> PROVE n = 0
      OBVIOUS
    <3> QED BY Empty
  <2>5. End(k) = End(p) BY <1>5, <2>3 DEF End
  <2> HIDE DEF k, v, u
  <2>6. Goes(o, v) BY <2>2, <2>3, <2>4, <2>5 DEF Goes
  <2> QED BY <1>1, <2>2, <2>3, <2>6
<1>6. ASSUME ~to_file PROVE Goes(o, a) /\ ~a.put.verify /\ a \in Quad /\ a.put.buf = d /\ DstOK(a)
  <2>1. DstOK(a) BY <1>1, <1>6, OpenPutOK
  <2> QED BY <1>6, <2>1, OpenPutGoes, Zenon
<1>7. CASE ~to_file /\ r = [o |-> a, n |-> 0]
  <2>1. v = a BY <1>7 DEF After
  <2> QED BY <1>6, <1>7, <2>1, Zenon
<1>8. ASSUME ~to_file, NEW n \in 0..Len(d), r = [o |-> ToSession(a, d, n), n |-> n]
      PROVE  Goes(o, v) /\ ~v.put.verify
  <2>1. Goes(o, a) /\ ~a.put.verify /\ a \in Quad /\ a.put.buf = d /\ DstOK(a) BY <1>6, <1>8
  <2>2. v = After(ToSession(a, a.put.buf, n), n) BY <1>8, <2>1
  <2> HIDE DEF a, v
  <2>3. Run(a.put.buf, Base(a.put)) /\ Base(a.put) \in Int
    <3>1. PutOK(a.put, a.ps, a.wire, a.target) BY <2>1 DEF DstOK
    <3> QED BY <3>1, BaseOK
  <2>4. Goes(a, v) /\ v.put.verify = a.put.verify BY <1>8, <2>1, <2>2, <2>3, SentGoes, Zenon
  <2> QED BY <2>1, <2>4, GoesTwice, Zenon
<1> HIDE DEF v, a
<1> QED BY <1>3, <1>4, <1>5, <1>7, <1>8 DEF Outcome, a

\* Such a call leaves what the put peer takes to be the end right.
LEMMA GoesWhole ==
    ASSUME NEW size, NEW o, Unverified(size, o), NEW v, Goes(o, v), ~v.put.verify
    PROVE  PutWhole(size, v.put, v.ps, v.target)
  BY DEF Unverified, Goes, PutWhole

\* What is said to be stored is as long as the source: when all is sent and the session is
\* closed or the server has confirmed, nothing is on its way.
LEMMA StoreStatusWhole ==
    ASSUME NEW size, NEW o, Unverified(size, o), o.put.eof, o.put.buf = <<>>, NEW v \in StoreStatus(o)
    PROVE  Goes(o, v) /\ PutWhole(size, v.put, v.ps, v.target)
<1> DEFINE p == o.put
<1>1. /\ o \in Quad /\ p \in PutRec /\ PutOK(p, o.ps, o.wire, o.target) /\ NotEnd(p) /\ ~p.verify /\ o.ps \in PutSession
      /\ Core(p, o.ps, o.wire, o.target, Base(p)) /\ Base(p) \in 0..N /\ N \in Nat /\ PutWhole(size, p, o.ps, o.target)
      /\ TargetOK(o.wire, o.target) /\ Len(o.target) \in Nat /\ Len(o.wire) \in Nat
      /\ p.pos = Base(p) + Len(p.buf)
  BY BaseOK DEF DstOK, Quad, PutOK, Unverified, Core
<1>2. End(p) = N /\ Len(o.target) \in 0..N BY <1>1, LenBound DEF PutWhole
<1>3. ASSUME NEW k, k.e_size = p.e_size, k.susp = p.susp, k.done = p.done, k.eof = p.eof, k.pos = p.pos,
             k.seek = p.seek, k.buf = p.buf, NEW u, u.put = k, u.wire = o.wire \/ u.wire = <<>>,
             k.verify => Len(u.target) = N /\ (to_file \/ u.ps.st = "closed")
      PROVE  Goes(o, u) /\ PutWhole(size, u.put, u.ps, u.target)
  <2>1. End(k) = End(p) BY <1>3 DEF End
  <2> HIDE DEF p
  <2>2. Goes(o, u) BY <1>3, <2>1 DEF Goes, p
  <2>3. PutWhole(size, k, u.ps, u.target)
    BY <1>1, <1>2, <1>3, <2>1 DEF PutWhole, p
  <2> QED BY <1>3, <2>2, <2>3
<1>4. CASE o.ps.st \in {"closed", "stored"} /\ v = [Close(o) EXCEPT !.put.verify = TRUE]
  <2> DEFINE c == Close(o)
             k == [p EXCEPT !.verify = TRUE]
  <2>1. ~to_file BY <1>1, <1>4 DEF Core, FileOK
  <2>2. p.seek <= Len(o.target) BY <1>1, <1>4, <2>1, CloseHereOK
  <2>3. p.seek = N BY <1>1, <1>2, <2>1, EndIs
  <2>4. Len(o.target) = N BY <1>1, <1>2, <2>2, <2>3
  <2>5. c \in Quad /\ c.put = p /\ c.ps = Closed /\ c.wire = <<>> /\ c.target = o.target
    BY <1>1, CloseOK
  <2> HIDE DEF c
  <2>6. v.put = k /\ v.ps = Closed /\ v.wire = <<>> /\ v.target = o.target
    BY <1>4, <2>5 DEF Quad, c
  <2>7. k.e_size = p.e_size /\ k.susp = p.susp /\ k.done = p.done /\ k.eof = p.eof /\ k.pos = p.pos
        /\ k.seek = p.seek /\ k.buf = p.buf
    BY <1>1 DEF PutRec
  <2> HIDE DEF k
  <2> QED BY <1>3, <2>4, <2>6, <2>7, ClosedOK
<1>5. CASE to_file /\ o.ps.st = "data" /\ v = [o EXCEPT !.put.verify = TRUE]
  <2> DEFINE k == [p EXCEPT !.verify = TRUE]
  <2>1. Base(p) = N
    <3>1. p.pos = N BY <1>2, <1>5 DEF End
    <3> QED BY <1>1, <3>1, Empty
  <2>2. Base(p) <= Len(o.target) BY <1>1, <1>5 DEF Core, FileOK
  <2>3. Len(o.target) = N BY <1>1, <1>2, <2>1, <2>2
  <2>4. v.put = k /\ v.ps = o.ps /\ v.wire = o.wire /\ v.target = o.target
    BY <1>1, <1>5 DEF Quad
  <2>5. k.e_size = p.e_size /\ k.susp = p.susp /\ k.done = p.done /\ k.eof = p.eof /\ k.pos = p.pos
        /\ k.seek = p.seek /\ k.buf = p.buf
    BY <1>1 DEF PutRec
  <2> HIDE DEF k
  <2> QED BY <1>3, <1>5, <2>3, <2>4, <2>5
<1>6. CASE v = [o EXCEPT !.ps.st = "wait"]
  <2>1. v.put = p /\ v.wire = o.wire BY <1>1, <1>6 DEF Quad
  <2> QED BY <1>1, <1>3, <2>1
<1>7. CASE v = [o EXCEPT !.put.err = TRUE]
  <2> DEFINE k == [p EXCEPT !.err = TRUE]
  <2>1. v.put = k /\ v.wire = o.wire BY <1>1, <1>7 DEF Quad
  <2>2. k.e_size = p.e_size /\ k.susp = p.susp /\ k.done = p.done /\ k.eof = p.eof /\ k.pos = p.pos
        /\ k.seek = p.seek /\ k.buf = p.buf /\ k.verify = p.verify
    BY <1>1 DEF PutRec
  <2> HIDE DEF k
  <2> QED BY <1>1, <1>3, <2>1, <2>2
<1>8. CASE v = o
  BY <1>1, <1>3, <1>8
<1>9. o.ps.st # "failed"
  BY <1>1 DEF PutSession
<1>10. \/ o.ps.st \in {"closed", "stored"} /\ v \in {[Close(o) EXCEPT !.put.verify = TRUE]}
       \/ o.ps.st = "data" /\ to_file /\ v \in {[o EXCEPT !.put.verify = TRUE]}
       \/ v \in {[o EXCEPT !.ps.st = "wait"]}
       \/ v \in {[o EXCEPT !.put.err = TRUE]}
       \/ v \in {o}
  BY <1>9, Zenon DEF StoreStatus
<1> QED BY <1>4, <1>5, <1>6, <1>7, <1>8, <1>10, Zenon

\* case PUT of Do.
LEMMA PutCaseWhole ==
    ASSUME NEW size, NEW o, Unverified(size, o), NEW v \in PutCase(o)
    PROVE  Goes(o, v) /\ PutWhole(size, v.put, v.ps, v.target)
<1> DEFINE Ends(q) == q.put.buf = <<>> /\ q.put.eof /\ ~q.put.err
<1>1. \/ Ends(o) /\ v \in StoreStatus(o)
      \/ \E r \in PutLL(o, o.put.buf) : \/ Ends(After(r.o, r.n)) /\ v \in StoreStatus(After(r.o, r.n))
                                        \/ v = After(r.o, r.n)
  BY Zenon DEF PutCase, After
<1>2. CASE Ends(o) /\ v \in StoreStatus(o)
  BY <1>2, StoreStatusWhole, Zenon
<1>3. ASSUME NEW r \in PutLL(o, o.put.buf), NEW u, u = After(r.o, r.n),
             (Ends(u) /\ v \in StoreStatus(u)) \/ v = u
      PROVE  Goes(o, v) /\ PutWhole(size, v.put, v.ps, v.target)
  <2>1. Goes(o, u) /\ ~u.put.verify /\ DstOK(u) /\ Moved(o.put, u.put) BY <1>3, PutLLGoes
  <2>2. PutWhole(size, u.put, u.ps, u.target) BY <2>1, GoesWhole, Zenon
  <2>3. NotEnd(u.put) BY <2>1 DEF Moved, Unverified
  <2>4. Unverified(size, u) BY <2>1, <2>2, <2>3, Zenon DEF Unverified
  <2>5. CASE v = u BY <2>1, <2>2, <2>5, Zenon
  <2>6. CASE Ends(u) /\ v \in StoreStatus(u)
    <3>1. Goes(u, v) /\ PutWhole(size, v.put, v.ps, v.target) BY <2>4, <2>6, StoreStatusWhole, Zenon
    <3> QED BY <2>1, <3>1, GoesTwice, Zenon
  <2> QED BY <1>3, <2>5, <2>6
<1> QED BY <1>1, <1>2, <1>3, Zenon

\* What a step of the put peer leaves of what it takes to be the end.
PutKept(size) ==
    /\ PutWhole(size, put', ps', target')
    /\ put'.susp = put.susp
    /\ put.eof => put'.eof
    /\ put'.eof => put.eof \/ size = N
    /\ put.buf = <<>> => put'.buf = <<>>
    /\ put.buf = <<>> /\ wire = <<>> => wire' = <<>>
    /\ to_file => put'.seek = put.seek

\* Do of the put peer, in all its cases.
LEMMA PutDoWhole ==
    ASSUME NEW size, PutOK(put, ps, wire, target), PutWhole(size, put, ps, target), PutDo
    PROVE  PutKept(size)
<1> DEFINE o == Putting
<1>1. DstOK(o) /\ o.put = put /\ o.ps = ps /\ o.wire = wire /\ o.target = target
      /\ put \in PutRec /\ ps \in PutSession /\ o \in Quad /\ N \in Nat
  BY QuadOK, BaseOK DEF DstOK
<1>2. CASE SetPut(o)
  BY <1>1, <1>2 DEF SetPut, PutKept
<1>3. CASE put.verify /\ SetPut([o EXCEPT !.put.done = TRUE])
  <2> DEFINE k == [put EXCEPT !.done = TRUE]
  <2>1. put' = k /\ ps' = ps /\ wire' = wire /\ target' = target BY <1>1, <1>3 DEF SetPut, Quad
  <2>2. /\ k.e_size = put.e_size /\ k.susp = put.susp /\ k.eof = put.eof /\ k.pos = put.pos /\ k.verify = put.verify
        /\ k.seek = put.seek /\ k.buf = put.buf
    BY <1>1 DEF PutRec
  <2> HIDE DEF k, o
  <2>3. End(k) = End(put) BY <2>2 DEF End
  <2>4. PutWhole(size, k, ps, target) BY <1>3, <2>2, <2>3 DEF PutWhole
  <2> QED BY <2>1, <2>2, <2>4 DEF PutKept
<1>4. CASE ~put.verify /\ SetPut([o EXCEPT !.ps.st = "info"])
  <2>1. put' = put /\ wire' = wire /\ target' = target BY <1>1, <1>4 DEF SetPut, Quad
  <2>2. PutWhole(size, put, ps', target) BY <1>4 DEF PutWhole
  <2> QED BY <2>1, <2>2 DEF PutKept
<1>5. CASE ~put.verify /\ ps.st = "replied" /\ SetPut([Close(o) EXCEPT !.put = SetSize(put, ps.pos)])
  <2> DEFINE x == IF put.seek # FileEnd THEN put.seek ELSE IF ps.pos >= 0 THEN ps.pos ELSE 0
             y == ps.pos
             k == [put EXCEPT !.size = y, !.seek = x]
  <2>1. put' = k /\ wire' = <<>> /\ target' = target
    <3>1. Close(o).wire = <<>> /\ Close(o).target = target /\ Close(o) \in Quad BY <1>1, CloseOK
    <3>2. SetSize(put, ps.pos) = k BY DEF SetSize
    <3> HIDE DEF o, k
    <3> QED BY <1>5, <3>1, <3>2 DEF SetPut, Quad
  <2>2. put.seek # FileEnd => x = put.seek OBVIOUS
  <2> HIDE DEF x, y
  <2>3. /\ k.e_size = put.e_size /\ k.susp = put.susp /\ k.eof = put.eof /\ k.pos = put.pos /\ k.verify = put.verify
        /\ k.seek = x /\ k.buf = put.buf /\ k.done = put.done
    BY <1>1 DEF PutRec
  <2> HIDE DEF k, o
  <2>4. CASE NotEnd(put)
    <3>1. k.seek = put.seek BY <2>2, <2>3, <2>4 DEF NotEnd
    <3>2. End(k) = End(put) BY <2>3, <3>1 DEF End
    <3>3. PutWhole(size, k, ps', target) BY <1>5, <2>3, <3>2 DEF PutWhole
    <3> QED BY <2>1, <2>3, <3>1, <3>3 DEF PutKept
  <2>5. CASE ~NotEnd(put)
    <3>1. ~to_file /\ ~Fresh(put) /\ put.seek = -1 BY <2>5, EndOK DEF NotEnd, FileEnd
    <3>2. put.buf = <<>> BY <3>1 DEF PutOK
    <3>3. End(put) = -1 BY <3>1, <3>2, Empty DEF End
    <3>4. ~put.eof BY <1>1, <3>3 DEF PutWhole
    <3>5. PutWhole(size, k, ps', target) BY <1>5, <2>3, <3>4 DEF PutWhole
    <3> QED BY <2>1, <2>3, <3>1, <3>5 DEF PutKept
  <2> QED BY <2>4, <2>5
<1>6. ASSUME ~put.verify, NotEnd(put), NEW v \in PutCase(o), SetPut(v)
      PROVE  PutKept(size)
  <2>1. Unverified(size, o) BY <1>1, <1>6 DEF Unverified
  <2>2. Goes(o, v) /\ PutWhole(size, v.put, v.ps, v.target) BY <1>6, <2>1, PutCaseWhole, Zenon
  <2>3. put' = v.put /\ ps' = v.ps /\ wire' = v.wire /\ target' = v.target BY <1>6 DEF SetPut
  <2> HIDE DEF o
  <2>4. put.e_size = N => size = N
    <3>1. put.e_size = NoSize \/ (put.e_size = N /\ size = N) BY DEF PutWhole
    <3> QED BY <1>1, <3>1 DEF NoSize
  <2> QED BY <1>1, <2>2, <2>3, <2>4 DEF Goes, PutKept
<1>7. ~NotEnd(put) => ~to_file /\ put.want /\ put.size = NoSizeYet /\ ps.st \in {"closed", "info", "replied"}
  BY EndOK DEF Opened
<1>8. \/ SetPut(o)
      \/ put.verify /\ SetPut([o EXCEPT !.put.done = TRUE])
      \/ ~put.verify /\ SetPut([o EXCEPT !.ps.st = "info"])
      \/ ~put.verify /\ ps.st = "replied" /\ SetPut([Close(o) EXCEPT !.put = SetSize(put, ps.pos)])
      \/ ~put.verify /\ NotEnd(put) /\ \E v \in PutCase(o) : SetPut(v)
  <2>1. \/ ps.st \notin {"closed", "info", "replied"} \/ ps.st = "closed" \/ ps.st = "info" \/ ps.st = "replied"
    OBVIOUS
  <2> QED BY <1>7, <2>1, Zenon DEF PutDo
<1> HIDE DEF o
<1> QED BY <1>2, <1>3, <1>4, <1>5, <1>6, <1>8, Zenon

-----------------------------------------------------------------------------
(* The steps of the peers, of their sessions and of the server. *)

\* What WInv says after the step.
WGood == ~error' => WholeAt(state', fall', get', gs', put', ps', wire', target', put_eof_pos')

\* The parts of WInv before the step.
LEMMA WFacts ==
    ASSUME WInv, ~error
    PROVE  /\ state \in Last => put.susp /\ Len(target) = N
           /\ state \notin Last => /\ GetWhole(get, gs) /\ PutWhole(get.size, put, ps, target)
                                   /\ Phase(state, fall, get.size, put, wire, target, put_eof_pos)
  BY DEF WInv, WholeAt

\* The get peer or its session takes a step.
LEMMA GetStepWhole ==
    ASSUME WInv, ~error, UNCHANGED <<copy, dest>>, state \notin Last => GetKept(get.size)
    PROVE  WGood
<1>1. state' = state /\ fall' = fall /\ put_eof_pos' = put_eof_pos /\ put' = put /\ ps' = ps /\ wire' = wire /\ target' = target
  BY DEF copy, dest
<1>2. CASE state \in Last
  BY <1>1, <1>2, WFacts DEF WGood, WholeAt
<1>3. CASE state \notin Last
  <2>1. GetWhole(get', gs') /\ (get.size = N => get'.size = N) BY <1>3 DEF GetKept
  <2>2. PutWhole(get'.size, put, ps, target) BY <1>3, <2>1, WFacts DEF PutWhole
  <2>3. Phase(state, fall, get'.size, put, wire, target, put_eof_pos) BY <1>3, <2>1, WFacts DEF Phase
  <2> QED BY <1>1, <1>3, <2>1, <2>2, <2>3 DEF WGood, WholeAt
<1> QED BY <1>2, <1>3

\* The put peer takes a step: it sleeps until the copy begins and when all is confirmed, and
\* it is not called in a state that Do falls through to.
LEMMA PutStepWhole ==
    ASSUME WInv, PutOK(put, ps, wire, target), PutDo, Moved(put, put')
    PROVE  WGood
<1>1. /\ ~error /\ ~fall /\ ~put.susp /\ state' = state /\ fall' = fall /\ put_eof_pos' = put_eof_pos
      /\ get' = get /\ gs' = gs
  BY DEF PutDo, copy, source
<1>2. state \notin Last BY <1>1, WFacts
<1>3. GetWhole(get, gs) /\ PutWhole(get.size, put, ps, target) /\ Phase(state, fall, get.size, put, wire, target, put_eof_pos)
  BY <1>1, <1>2, WFacts
<1>4. PutKept(get.size) BY <1>3, PutDoWhole
<1>5. state \notin {"INITIAL", "GET_INFO_WAIT", "pre_CONFIRM_WAIT", "pre_GET_DONE_WAIT"}
  BY <1>1, <1>3 DEF Phase
<1>6. to_file => put'.pos = put.pos /\ put'.seek = put.seek BY <1>4 DEF Moved, Fresh, PutKept
<1>7. Phase(state, fall, get.size, put', wire', target', put_eof_pos)
  BY <1>3, <1>4, <1>5, <1>6 DEF Phase, PutKept, Moved, Early
<1> QED BY <1>1, <1>2, <1>3, <1>4, <1>7 DEF WGood, WholeAt, PutKept

\* With a closed session, or a local file, the target does not change by itself.
LEMMA DestQuiet ==
    ASSUME PutOK(put, ps, wire, target), to_file \/ ps.st = "closed",
           DstConnect \/ DstComplete \/ DstStore \/ DstFail \/ DstStored \/ DstInfo
    PROVE  target' = target /\ (to_file \/ ps'.st = "closed")
<1>1. wire = <<>> /\ (to_file => ps.st \in {"data", "refused"})
  BY DEF PutOK, Core, FileOK, ClosedAt, Opened
<1> QED BY <1>1 DEF DstConnect, DstComplete, DstStore, DstFail, DstStored, DstInfo

\* The session of the put peer or the server takes a step: what is confirmed stays stored.
LEMMA DestWhole ==
    ASSUME WInv, PutOK(put, ps, wire, target),
           DstConnect \/ DstComplete \/ DstStore \/ DstFail \/ DstStored \/ DstInfo
    PROVE  WGood
<1>1. /\ ~error /\ ~fall /\ state' = state /\ fall' = fall /\ put_eof_pos' = put_eof_pos /\ get' = get /\ gs' = gs
      /\ put' = put
  BY DEF DstConnect, DstComplete, DstStore, DstFail, DstStored, DstInfo, Outside, DstStays, copy, source
<1>2. DstStore \/ ~put.susp
  BY DEF DstConnect, DstComplete, DstFail, DstStored, DstInfo
<1>3. TargetOK(wire, target) /\ Len(wire) \in Nat /\ Len(target) \in Nat /\ N \in Nat /\ wire \in Seq(Offset)
  BY BaseOK DEF PutOK, Core
<1>4. DstStore => Len(target) # N
  <2> SUFFICES ASSUME DstStore PROVE Len(target) # N
    OBVIOUS
  <2>1. wire # <<>> BY DEF DstStore
  <2>2. Len(wire) # 0 BY <1>3, <2>1
  <2>3. Len(target) + Len(wire) <= N BY <1>3 DEF TargetOK
  <2> QED BY <1>3, <2>2, <2>3
<1>5. state \notin Last BY <1>1, <1>2, <1>4, WFacts
<1>6. GetWhole(get, gs) /\ PutWhole(get.size, put, ps, target) /\ Phase(state, fall, get.size, put, wire, target, put_eof_pos)
  BY <1>1, <1>5, WFacts
<1>7. wire = <<>> => wire' = <<>>
  BY DEF DstConnect, DstComplete, DstStore, DstFail, DstStored, DstInfo
<1>8. put.verify => target' = target /\ (to_file \/ ps'.st = "closed")
  BY <1>6, DestQuiet DEF PutWhole
<1>9. PutWhole(get.size, put, ps', target')
  BY <1>6, <1>8 DEF PutWhole
<1>10. Phase(state, fall, get.size, put, wire', target', put_eof_pos)
  BY <1>1, <1>6, <1>7 DEF Phase
<1> QED BY <1>1, <1>5, <1>6, <1>9, <1>10 DEF WGood, WholeAt

-----------------------------------------------------------------------------
(* The steps of FileCopy::Do. *)

\* The put peer q is p, but for being suspended or not.
Twin(p, q) ==
    /\ q.pos = p.pos /\ q.buf = p.buf /\ q.seek = p.seek /\ q.eof = p.eof
    /\ q.e_size = p.e_size /\ q.verify = p.verify /\ q.done = p.done

\* What is known of a put peer does not depend on whether it is suspended.
LEMMA TwinWhole ==
    ASSUME NEW p, NEW q, Twin(p, q)
    PROVE  /\ End(q) = End(p) /\ (Fresh(q) <=> Fresh(p))
           /\ \A size, h, t : PutWhole(size, p, h, t) => PutWhole(size, q, h, t)
  BY DEF Twin, End, Fresh, Base, PutWhole

\* Suspending or resuming the put peer.
LEMMA SuspendPutWhole ==
    ASSUME NEW o \in Quad, NEW b \in BOOLEAN
    PROVE  LET u == SuspendPut(o, b)
           IN Twin(o.put, u.put) /\ u.put.susp = b /\ u.ps = o.ps /\ u.wire = o.wire /\ u.target = o.target
<1> DEFINE k == [o.put EXCEPT !.susp = b]
           u == SuspendPut(o, b)
<1>1. u.put = k /\ u.ps = o.ps /\ u.wire = o.wire /\ u.target = o.target
  BY DEF Quad, SuspendPut
<1>2. Twin(o.put, k) /\ k.susp = b
  BY DEF Quad, PutRec, Twin
<1> HIDE DEF k, u
<1> QED BY <1>1, <1>2 DEF u

\* The peers after a step that sets them to those that are whole, and ends the call in DO_COPY.
LEMMA CopyOnWhole ==
    ASSUME NEW s, SrcWhole(s), s.get.size = get.size, SetGet(s), NEW o, SetPut(o),
           PutWhole(get.size, o.put, o.ps, o.target), o.put.eof => get.size = N, state' = "DO_COPY"
    PROVE  WGood
<1>1. GetWhole(get', gs') /\ get'.size = get.size BY GetWholeIs
<1>2. put' = o.put /\ ps' = o.ps /\ wire' = o.wire /\ target' = o.target BY DEF SetPut
<1>3. Phase(state', fall', get'.size, put', wire', target', put_eof_pos')
  BY <1>1, <1>2 DEF Phase, Early
<1> QED BY <1>1, <1>2, <1>3 DEF WGood, WholeAt, Last

\* What WInv says in a state in which Do is called.
LEMMA DoFacts ==
    ASSUME IInv, WInv, ~error
    PROVE  /\ state \notin Last => /\ SrcWhole(Getting) /\ SrcWhole(G) /\ G.get.size = get.size
                                   /\ PutWhole(get.size, put, ps, target) /\ GetWhole(get, gs)
                                   /\ Phase(state, fall, get.size, put, wire, target, put_eof_pos)
           /\ Putting \in Quad /\ Putting.put = put /\ Putting.ps = ps /\ Putting.wire = wire /\ Putting.target = target
           /\ P = Putting /\ Getting.get = get /\ Getting.gs = gs
<1>1. Putting \in Quad /\ Putting.put = put /\ Putting.ps = ps /\ Putting.wire = wire /\ Putting.target = target
      /\ P = Putting /\ Getting.get = get /\ Getting.gs = gs
  BY Facts, QuadOK DEF Getting
<1>2. ASSUME state \notin Last
      PROVE  /\ SrcWhole(Getting) /\ SrcWhole(G) /\ G.get.size = get.size
             /\ PutWhole(get.size, put, ps, target) /\ GetWhole(get, gs)
             /\ Phase(state, fall, get.size, put, wire, target, put_eof_pos)
  <2>1. GetWhole(get, gs) /\ PutWhole(get.size, put, ps, target) /\ Phase(state, fall, get.size, put, wire, target, put_eof_pos)
    BY <1>2, WFacts
  <2>2. SrcWhole(Getting) BY <1>1, <2>1, Facts DEF SrcWhole
  <2>3. SrcWhole(G) /\ G.get.size = get.size BY <1>1, <2>2, RealGetWhole DEF G
  <2> QED BY <2>1, <2>2, <2>3
<1> QED BY <1>1, <1>2

\* The same in DO_COPY, where the put peer knows its position.
LEMMA CopyingWhole ==
    ASSUME IInv, WInv, ~error, state = "DO_COPY"
    PROVE  /\ SrcWhole(G) /\ G.get.size = get.size
           /\ SrcWhole(Resumed(G)) /\ Resumed(G).get.size = get.size
           /\ PutWhole(get.size, put, ps, target) /\ (put.eof => get.size = N)
           /\ End(put) = put.pos /\ (put.eof => put.pos = N)
           /\ Twin(put, PutResumed.put) /\ PutResumed.ps = ps /\ PutResumed.wire = wire /\ PutResumed.target = target
           /\ PutWhole(get.size, PutResumed.put, PutResumed.ps, PutResumed.target)
           /\ (PutResumed.put.eof => get.size = N)
<1>1. state \notin Last BY DEF Last
<1>2. /\ SrcWhole(G) /\ G.get.size = get.size /\ PutWhole(get.size, put, ps, target)
      /\ Phase(state, fall, get.size, put, wire, target, put_eof_pos)
  BY <1>1, DoFacts
<1>3. FALSE \in BOOLEAN OBVIOUS
<1>4. SrcWhole(Resumed(G)) /\ Resumed(G).get.size = get.size
  BY <1>2, <1>3, SuspendGetWhole DEF Resumed
<1>5. put.eof => get.size = N BY <1>2 DEF Phase
<1>6. End(put) = put.pos BY Facts, CopyingFacts, EndIs
<1>7. Twin(put, PutResumed.put) /\ PutResumed.ps = ps /\ PutResumed.wire = wire /\ PutResumed.target = target
  BY <1>3, DoFacts, SuspendPutWhole DEF PutResumed
<1>8. PutWhole(get.size, PutResumed.put, PutResumed.ps, PutResumed.target)
  BY <1>2, <1>7, TwinWhole
<1>9. PutResumed.put.eof = put.eof BY <1>7 DEF Twin
<1> QED BY <1>2, <1>4, <1>5, <1>6, <1>7, <1>8, <1>9 DEF PutWhole

\* A step that fails: nothing is promised then.
LEMMA FailWhole ==
    ASSUME Fail
    PROVE  WGood
  BY DEF Fail, WGood

\* The end of the source is reached: the put peer is there.
LEMMA AtEofWhole ==
    ASSUME IInv, WInv, Copying, AtEof(G, P), put.pos = N
    PROVE  WGood
<1>1. state = "DO_COPY" /\ ~error BY DEF Copying, Turn
<1>2. CASE SizeOK
  <2>1. SetGet(Resumed(G)) /\ SetPut(PutResumed) /\ state' = "pre_CONFIRM_WAIT" /\ fall'
    BY <1>2 DEF AtEof, Enter, PutResumed
  <2>2. GetWhole(get', gs') /\ get'.size = get.size BY <1>1, <2>1, CopyingWhole, GetWholeIs
  <2>3. put' = PutResumed.put /\ ps' = ps /\ target' = target BY <1>1, <2>1, CopyingWhole DEF SetPut
  <2>4. PutWhole(get'.size, put', ps', target') BY <1>1, <2>2, <2>3, CopyingWhole
  <2>5. End(put') = N /\ Fresh(put')
    <3>1. Twin(put, put') /\ End(put) = N /\ Fresh(put) BY <1>1, <2>3, CopyingWhole, CopyingFacts
    <3> QED BY <3>1, TwinWhole
  <2>6. Phase(state', fall', get'.size, put', wire', target', put_eof_pos')
    BY <2>1, <2>5 DEF Phase, Early
  <2> QED BY <2>1, <2>2, <2>4, <2>6 DEF WGood, WholeAt, Last
<1>3. CASE ~SizeOK
  <2>1. Fail BY <1>3 DEF AtEof
  <2> QED BY <2>1, FailWhole
<1> QED BY <1>2, <1>3

\* DO_COPY at the end of the source.
LEMMA EofWhole ==
    ASSUME IInv, WInv, DoCopy_Eof
    PROVE  WGood
<1>1. Copying /\ ~error /\ state = "DO_COPY" /\ AtEof(G, P) /\ G.get.buf = <<>> /\ G.get.eof /\ P.put.pos = G.get.pos
  BY DEF DoCopy_Eof, InStep, Copying, Turn
<1>2. GetWhole(G.get, G.gs) /\ G.get.pos \in 0..N /\ P.put.pos = put.pos
  BY <1>1, CopyingWhole, CopyingFacts DEF SrcWhole
<1>3. G.get.pos + Len(G.get.buf) = N BY <1>1, <1>2 DEF GetWhole
<1>4. put.pos = N BY <1>1, <1>2, <1>3, Empty
<1> QED BY <1>1, <1>4, AtEofWhole

\* Seek takes back what the put peer takes to be the end.
LEMMA SeekPutWhole ==
    ASSUME NEW o \in Quad, NEW x \in {0, FileEnd}
    PROVE  LET u == SeekPut(o, x)
           IN /\ u.put.e_size = o.put.e_size /\ u.put.susp = o.put.susp
              /\ u.put.eof => o.put.eof
              /\ u.put.verify = o.put.verify /\ u.put.done = o.put.done
              /\ o.put.pos # x => u.put.buf = <<>> /\ (to_file => u.put.seek = u.put.pos) /\ u.wire \in {<<>>, o.wire}
<1> DEFINE p == o.put
           u == SeekPut(o, x)
           to == IF x = FileEnd THEN Len(o.target) ELSE x
           y == p.pos - Len(p.buf)
           f == FALSE
           q == [p EXCEPT !.seek = x, !.pos = y, !.buf = <<>>, !.eof = f]
           w == TRUE
           Same(m) == /\ m.e_size = p.e_size /\ m.susp = p.susp /\ ~m.eof /\ m.verify = p.verify /\ m.done = p.done
                      /\ m.buf = <<>>
<1>1. p \in PutRec BY DEF Quad
<1>2. q = [p EXCEPT !.seek = x, !.pos = @ - Len(p.buf), !.buf = <<>>, !.eof = FALSE]
  BY <1>1 DEF PutRec
<1>3. f \in BOOLEAN /\ ~f OBVIOUS
<1> HIDE DEF to, y, f, w
<1>4. Same(q) /\ Same([q EXCEPT !.seek = to, !.pos = to]) /\ Same([q EXCEPT !.want = w, !.size = NoSizeYet])
      /\ Same([q EXCEPT !.pos = x]) /\ [q EXCEPT !.seek = to, !.pos = to].seek = [q EXCEPT !.seek = to, !.pos = to].pos
  BY <1>1, <1>3 DEF PutRec
<1>5. CASE p.pos = x
  BY <1>5 DEF SeekPut
<1>6. CASE p.pos # x /\ to_file
  <2> DEFINE m == [q EXCEPT !.seek = to, !.pos = to]
  <2>1. u = [o EXCEPT !.put = m, !.ps.pos = to]
    BY <1>2, <1>6, Zenon DEF SeekPut, to
  <2> HIDE DEF q, m, u
  <2>2. u.put = m /\ u.wire = o.wire BY <2>1 DEF Quad
  <2>3. Same(m) /\ m.seek = m.pos BY <1>4 DEF m
  <2> QED BY <2>2, <2>3 DEF u
<1>7. CASE p.pos # x /\ ~to_file /\ x = FileEnd
  <2> DEFINE m == [q EXCEPT !.want = w, !.size = NoSizeYet]
  <2>1. u = [Close(o) EXCEPT !.put = m]
    BY <1>2, <1>7, Zenon DEF SeekPut, w
  <2> HIDE DEF q, m, u
  <2>2. u.put = m /\ u.wire = <<>> BY <2>1, CloseOK DEF Quad
  <2>3. Same(m) BY <1>4 DEF m
  <2> QED BY <1>7, <2>2, <2>3 DEF u
<1>8. CASE p.pos # x /\ ~to_file /\ x # FileEnd
  <2> DEFINE m == [q EXCEPT !.pos = x]
  <2>1. u = [Close(o) EXCEPT !.put = m]
    BY <1>2, <1>8, Zenon DEF SeekPut
  <2> HIDE DEF q, m, u
  <2>2. u.put = m /\ u.wire = <<>> BY <2>1, CloseOK DEF Quad
  <2>3. Same(m) BY <1>4 DEF m
  <2> QED BY <1>8, <2>2, <2>3 DEF u
<1> QED BY <1>5, <1>6, <1>7, <1>8

\* DO_COPY when the put peer is behind.
LEMMA PutBehindWhole ==
    ASSUME IInv, WInv, DoCopy_PutBehind
    PROVE  WGood
<1>1. state = "DO_COPY" /\ ~error /\ SetPut(PutResumed) /\ P.put.pos \in 0..N
      /\ (Fail \/ (state' = "DO_COPY" /\ SetGet(SeekGet(Resumed(G), P.put.pos))))
  <2>1. state = "DO_COPY" /\ ~error BY DEF DoCopy_PutBehind, Copying, Turn
  <2> QED BY <2>1, Facts DEF DoCopy_PutBehind, Leave, Enter
<1>2. CASE state' = "DO_COPY" /\ SetGet(SeekGet(Resumed(G), P.put.pos))
  <2> DEFINE s == SeekGet(Resumed(G), P.put.pos)
  <2>1. SrcWhole(s) /\ s.get.size = get.size BY <1>1, CopyingWhole, SeekGetWhole
  <2> HIDE DEF s
  <2>2. SetGet(s) BY <1>2 DEF s
  <2> QED BY <1>1, <1>2, <2>1, <2>2, CopyingWhole, CopyOnWhole
<1> QED BY <1>1, <1>2, FailWhole

\* DO_COPY when the get peer is behind: the target is not said to be complete unless the size
\* of the source is known, and the put peer is not sought back when it has said so itself.
LEMMA GetBehindWhole ==
    ASSUME IInv, WInv, DoCopy_GetBehind
    PROVE  WGood
<1> DEFINE skip == P.put.pos - G.get.pos
           n == MinOf(skip, Len(G.get.buf))
           v == [G EXCEPT !.get.pos = @ + n, !.get.buf = Rest(@, n)]
           u == SeekPut(PutResumed, G.get.pos)
<1>1. Copying /\ ~error /\ state = "DO_COPY" /\ G.get.pos < put.pos
  <2>1. Copying /\ ~error /\ state = "DO_COPY" /\ P.put.pos > G.get.pos BY DEF DoCopy_GetBehind, Copying, Turn
  <2> QED BY <2>1, CopyingFacts
<1>2. /\ G.get.pos \in 0..N /\ put.pos \in 0..N /\ P.put = put /\ N \in Nat /\ SkipMin \in Nat
      /\ G.get.buf \in Seq(Offset) /\ Len(G.get.buf) \in Nat
  <2>1. G.get.buf \in Seq(Offset) BY <1>1, CopyingFacts DEF GetRec
  <2> QED BY <1>1, <2>1, Facts, CopyingFacts, FileCopyAssumption
<1>3. skip = put.pos - G.get.pos /\ skip \in Nat /\ n \in 0..Len(G.get.buf)
  <2>1. skip = put.pos - G.get.pos BY <1>2
  <2>2. skip \in Nat BY <1>1, <1>2, <2>1
  <2> HIDE DEF skip
  <2> QED BY <1>2, <2>1, <2>2 DEF MinOf
<1>4. CASE get.size >= 0 /\ put.pos >= get.size /\ AtEof(G, P)
  <2>1. GetWhole(G.get, G.gs) /\ G.get.size = get.size BY <1>1, CopyingWhole DEF SrcWhole
  <2>2. get.size = N BY <1>4, <2>1 DEF GetWhole, NoSize, NoSizeYet
  <2>3. put.pos = N BY <1>2, <1>4, <2>2
  <2> QED BY <1>1, <1>4, <2>3, AtEofWhole
<1>5. CASE state' = "DO_COPY" /\ SetGet(Resumed(v)) /\ SetPut(PutResumed)
  <2>1. SrcWhole(v) /\ v.get.size = get.size
    <3>1. SrcWhole(G) /\ G.get.size = get.size BY <1>1, CopyingWhole
    <3> QED BY <1>3, <3>1, DropGetWhole, Zenon
  <2> HIDE DEF v
  <2>2. SrcWhole(Resumed(v)) /\ Resumed(v).get.size = get.size
    <3>1. FALSE \in BOOLEAN OBVIOUS
    <3> QED BY <2>1, <3>1, SuspendGetWhole DEF Resumed
  <2> QED BY <1>1, <1>5, <2>2, CopyingWhole, CopyOnWhole
<1>6. CASE ~(get.size >= 0 /\ put.pos >= get.size) /\ state' = "DO_COPY" /\ ~(skip < SkipMin)
           /\ SetGet(Resumed(G)) /\ SetPut(u)
  <2>1. G.get.pos = 0
    <3>1. Lag(G.get.pos, put.pos) BY <1>1, CopyingFacts
    <3> QED BY <1>1, <1>3, <1>6, <3>1 DEF Lag
  <2>2. ~PutResumed.put.eof /\ PutWhole(get.size, PutResumed.put, PutResumed.ps, PutResumed.target)
    <3>1. ~put.eof BY <1>1, <1>2, <1>6, CopyingWhole
    <3>2. PutResumed.put.eof = put.eof BY <1>1, CopyingWhole DEF Twin
    <3> QED BY <1>1, <3>1, <3>2, CopyingWhole
  <2>3. /\ u.put.e_size = PutResumed.put.e_size /\ ~u.put.eof
        /\ u.put.verify = PutResumed.put.verify /\ u.put.done = PutResumed.put.done
    <3>1. PutResumed \in Quad BY <1>1, CopyingFacts DEF DstOK
    <3> QED BY <2>1, <2>2, <3>1, SeekPutWhole
  <2> HIDE DEF u
  <2>4. PutWhole(get.size, u.put, u.ps, u.target) BY <2>2, <2>3 DEF PutWhole
  <2> QED BY <1>1, <1>6, <2>3, <2>4, CopyingWhole, CopyOnWhole
<1>7. \/ get.size >= 0 /\ put.pos >= get.size /\ AtEof(G, P)
      \/ state' = "DO_COPY" /\ SetGet(Resumed(v)) /\ SetPut(PutResumed)
      \/ ~(get.size >= 0 /\ put.pos >= get.size) /\ state' = "DO_COPY" /\ ~(skip < SkipMin)
         /\ SetGet(Resumed(G)) /\ SetPut(u)
  <2>1. CanSeekPut(P.put, G.get.pos) BY <1>2, Facts DEF CanSeekPut
  <2>2. IF get.size >= 0 /\ P.put.pos >= get.size THEN AtEof(G, P)
        ELSE /\ Leave
             /\ IF ~CanSeekPut(P.put, G.get.pos) \/ skip < SkipMin
                THEN SetGet(Resumed(v)) /\ SetPut(PutResumed)
                ELSE SetGet(Resumed(G)) /\ SetPut(u)
    BY Zenon DEF DoCopy_GetBehind
  <2>3. Leave => state' = "DO_COPY" BY <1>1 DEF Leave, Enter
  <2>4. P.put.pos = put.pos BY <1>2
  <2> HIDE DEF skip, n, v, u
  <2> QED BY <2>1, <2>2, <2>3, <2>4, Zenon
<1> HIDE DEF skip, n, v, u
<1> QED BY <1>4, <1>5, <1>6, <1>7

\* DO_COPY when there is nothing to copy now.
LEMMA NoDataWhole ==
    ASSUME IInv, WInv, DoCopy_NoData
    PROVE  WGood
<1> DEFINE s == SuspendGet(G, Full)
           o == SuspendPut(P, Idle)
<1>1. state = "DO_COPY" /\ ~error /\ state' = "DO_COPY" /\ SetGet(s) /\ SetPut(o)
  BY DEF DoCopy_NoData, InStep, Copying, Turn, Leave, Enter
<1>2. Full \in BOOLEAN /\ Idle \in BOOLEAN BY DEF Full, Idle
<1>3. SrcWhole(s) /\ s.get.size = get.size
  <2>1. SrcWhole(G) /\ G.get.size = get.size BY <1>1, CopyingWhole
  <2> QED BY <1>2, <2>1, SuspendGetWhole, Zenon
<1>4. Twin(put, o.put) /\ o.ps = ps /\ o.target = target
  <2>1. P \in Quad /\ P.put = put /\ P.ps = ps /\ P.target = target BY <1>1, DoFacts
  <2> QED BY <1>2, <2>1, SuspendPutWhole
<1> HIDE DEF s, o
<1>5. PutWhole(get.size, o.put, o.ps, o.target) /\ (o.put.eof => get.size = N)
  <2>1. o.put.eof = put.eof BY <1>4 DEF Twin
  <2> QED BY <1>1, <1>4, <2>1, CopyingWhole, TwinWhole
<1> QED BY <1>1, <1>3, <1>5, CopyOnWhole

\* What a put peer reports is as it was.
SameReport(p, q) == q.e_size = p.e_size /\ q.eof = p.eof /\ q.verify = p.verify /\ q.done = p.done

\* Put of data that belongs before the end of the source does not make the put peer take
\* itself to be finished.
LEMMA PutDataWhole ==
    ASSUME NEW size, NEW o, Unverified(size, o), Fresh(o.put), ~o.put.eof, o.put.pos < N,
           NEW d \in Seq(Offset), Run(d, o.put.pos), o.put.pos + Len(d) <= N, NEW v \in Put(o, d)
    PROVE  SameReport(o.put, v.put)
<1> DEFINE p == o.put
<1>1. /\ o \in Quad /\ p \in PutRec /\ PutOK(p, o.ps, o.wire, o.target) /\ NotEnd(p) /\ DstOK(o) /\ ~p.verify
      /\ PutWhole(size, p, o.ps, o.target)
  BY DEF DstOK, Quad, Unverified
<1>2. \A e, b : e \in Quad => SameReport(e.put, BufferPut(e, b).put)
  <2> SUFFICES ASSUME NEW e \in Quad, NEW b PROVE SameReport(e.put, BufferPut(e, b).put)
    OBVIOUS
  <2> DEFINE c == e.put.buf \o b
             y == e.put.pos + Len(b)
             k == [e.put EXCEPT !.buf = c, !.pos = y]
  <2>1. BufferPut(e, b).put = k BY DEF BufferPut, Quad
  <2> HIDE DEF c, y
  <2>2. SameReport(e.put, k) BY DEF Quad, PutRec, SameReport
  <2> HIDE DEF k
  <2> QED BY <2>1, <2>2
<1>3. CASE v = BufferPut(o, d)
  BY <1>1, <1>2, <1>3
<1>4. ASSUME p.buf = <<>>, NEW r \in PutLL(o, d), v = BufferPut([r.o EXCEPT !.put.pos = @ + r.n], Rest(d, r.n))
      PROVE  SameReport(p, v.put)
  <2> DEFINE a == OpenPut(o)
             u == r.o
             y == u.put.pos + r.n
             m == [u.put EXCEPT !.pos = y]
             e == [u EXCEPT !.put.pos = @ + r.n]
  <2>1. N \in Nat /\ p.pos \in 0..N /\ p.pos = Base(p) + Len(p.buf) /\ Base(p) \in 0..N BY <1>1, BaseOK
  <2>2. Base(p) = p.pos BY <1>4, <2>1, Empty
  <2>3. r.n \in 0..Len(d) /\ Taken(o, u, r.n)
    <3>1. Base(p) + Len(d) <= N /\ Run(d, Base(p)) BY <2>2
    <3> QED BY <1>1, <1>4, <3>1, PutLLOK, Zenon
  <2>4. u \in Quad BY <2>3 DEF Taken
  <2>5. Outcome(o, d, r) BY <1>1, <1>4, PutLLIs, Zenon
  <2>6. ASSUME ~to_file PROVE SameReport(p, a.put) /\ a \in Quad
    <3>1. p.seek # N BY <2>1, <2>2, <2>6 DEF Fresh
    <3>2. /\ Goes(o, a) /\ ~a.put.verify /\ a \in Quad /\ (a.put.eof => p.eof \/ p.seek = N)
      BY <2>6, OpenPutGoes
    <3>3. p.eof \in BOOLEAN /\ a.put.eof \in BOOLEAN /\ p.verify \in BOOLEAN /\ a.put.verify \in BOOLEAN
      BY <1>1, <3>2 DEF Quad, PutRec
    <3>4. a.put.e_size = p.e_size /\ a.put.done = p.done BY <3>2 DEF Goes
    <3>5. a.put.eof = p.eof BY <3>1, <3>2, <3>3
    <3>6. a.put.verify = p.verify BY <1>1, <3>2, <3>3
    <3> HIDE DEF a, p
    <3> QED BY <3>2, <3>4, <3>5, <3>6 DEF SameReport
  <2>7. SameReport(p, u.put)
    <3>1. CASE u = [o EXCEPT !.put.err = TRUE]
      <4> DEFINE k == [p EXCEPT !.err = TRUE]
      <4>1. u.put = k BY <1>1, <3>1 DEF Quad
      <4>2. SameReport(p, k) BY <1>1 DEF PutRec, SameReport
      <4> HIDE DEF k
      <4> QED BY <4>1, <4>2
    <3>2. ASSUME NEW n, u = ToFile(o, d, n) PROVE SameReport(p, u.put)
      <4>1. u.put = p BY <1>1, <3>2 DEF Quad, ToFile
      <4> QED BY <4>1 DEF SameReport
    <3>3. CASE ~to_file /\ u = a BY <2>6, <3>3
    <3>4. ASSUME ~to_file, NEW n, u = ToSession(a, d, n) PROVE SameReport(p, u.put)
      <4> DEFINE x == a.put.seek + n
                 k == [a.put EXCEPT !.seek = x]
      <4>1. SameReport(p, a.put) /\ a \in Quad BY <2>6, <3>4
      <4> HIDE DEF a
      <4>2. u.put = k BY <3>4, <4>1 DEF Quad, ToSession
      <4> HIDE DEF x
      <4>3. SameReport(a.put, k) BY <4>1 DEF Quad, PutRec, SameReport
      <4> HIDE DEF k
      <4> QED BY <4>1, <4>2, <4>3 DEF SameReport
    <3>5. \/ u = [o EXCEPT !.put.err = TRUE]
          \/ \E n \in 0..Len(d) : u = ToFile(o, d, n)
          \/ ~to_file /\ u = a
          \/ ~to_file /\ \E n \in 0..Len(d) : u = ToSession(a, d, n)
      <4>1. \A x, n : r = [o |-> x, n |-> n] => u = x OBVIOUS
      <4> HIDE DEF u
      <4> QED BY <2>5, <4>1, Zenon DEF Outcome
    <3> QED BY <3>1, <3>2, <3>3, <3>4, <3>5, Zenon
  <2> HIDE DEF a, u
  <2>8. e.put = m /\ e \in Quad /\ SameReport(u.put, m)
    <3>1. y \in 0..N
      <4>1. u.put.pos = p.pos BY <2>3 DEF Taken
      <4>2. p.pos + r.n \in 0..N
        <5>1. p.pos + Len(d) <= N OBVIOUS
        <5> HIDE DEF p
        <5> QED BY <2>1, <2>3, <5>1, Within
      <4> QED BY <4>1, <4>2
    <3>2. e = [u EXCEPT !.put = m] BY <2>4 DEF Quad
    <3> HIDE DEF y, e
    <3>3. m \in PutRec /\ SameReport(u.put, m) BY <2>4, <3>1 DEF Quad, PutRec, SameReport
    <3> HIDE DEF m
    <3> QED BY <2>4, <3>2, <3>3 DEF Quad
  <2>9. v = BufferPut(e, Rest(d, r.n)) BY <1>4, Zenon DEF e, u
  <2> HIDE DEF e, m
  <2>10. SameReport(e.put, v.put) BY <1>2, <2>8, <2>9, Zenon
  <2> QED BY <2>7, <2>8, <2>10 DEF SameReport
<1>5. \/ v = BufferPut(o, d)
      \/ p.buf = <<>> /\ \E r \in PutLL(o, d) : v = BufferPut([r.o EXCEPT !.put.pos = @ + r.n], Rest(d, r.n))
  BY Zenon DEF Put
<1> QED BY <1>3, <1>4, <1>5, Zenon

\* DO_COPY when data passes from the get peer to the put peer: the put peer has not taken itself
\* to be finished, for there is more of the source.
LEMMA DataWhole ==
    ASSUME IInv, WInv, DoCopy_Data
    PROVE  WGood
<1> DEFINE d == G.get.buf
           v == [G EXCEPT !.get.pos = @ + Len(d), !.get.buf = Rest(@, Len(d))]
           s == SuspendGet(v, Full)
<1>1. state = "DO_COPY" /\ ~error /\ state' = "DO_COPY" /\ put.pos = G.get.pos /\ d # <<>>
      /\ SetGet(SuspendGet([G EXCEPT !.get.pos = @ + Len(G.get.buf), !.get.buf = <<>>], Full))
      /\ \E o \in Put(PutResumed, d) : SetPut(o)
  <2>1. state = "DO_COPY" /\ ~error BY DEF DoCopy_Data, InStep, Copying, Turn
  <2> QED BY <2>1, CopyingFacts DEF DoCopy_Data, InStep, Leave, Enter
<1>2. /\ SrcOK(G) /\ d \in Seq(Offset) /\ Run(d, put.pos) /\ put.pos + Len(d) <= N /\ G \in Pair
      /\ Len(d) \in 0..Len(d) /\ put.pos < N
  <2>1. SrcOK(G) /\ G \in Pair /\ d \in Seq(Offset) BY <1>1, Facts, CopyingFacts DEF GetRec
  <2>2. Run(d, G.get.pos) /\ G.get.pos + Len(d) <= N BY <2>1 DEF SrcOK, GetOK
  <2>3. Len(d) \in 0..Len(d) /\ Len(d) \in Nat BY <2>1
  <2>4. Len(d) # 0 BY <1>1, <2>1
  <2>5. put.pos \in 0..N /\ N \in Nat BY Facts, FileCopyAssumption
  <2>6. put.pos < N
    <3> DEFINE l == Len(d)
    <3>1. put.pos + l <= N BY <1>1, <2>2
    <3> HIDE DEF l
    <3> QED BY <2>3, <2>4, <2>5, <3>1 DEF l
  <2> QED BY <1>1, <2>1, <2>2, <2>3, <2>6
<1>3. Rest(d, Len(d)) = <<>>
  <2>1. 0 \in Int /\ put.pos \in Int BY Facts
  <2>2. Rest(d, Len(d)) \in Seq(Offset) /\ Len(Rest(d, Len(d))) = Len(d) - Len(d)
    BY <1>2, <2>1, RunRest, Zenon
  <2>3. Len(d) \in Nat BY <1>2
  <2>4. Len(Rest(d, Len(d))) = 0 BY <2>2, <2>3
  <2> HIDE DEF d
  <2> QED BY <2>2, <2>4
<1>4. SetGet(s)
  <2>1. v = [G EXCEPT !.get.pos = @ + Len(G.get.buf), !.get.buf = <<>>]
    BY <1>2, <1>3 DEF Pair
  <2> QED BY <1>1, <2>1, Zenon
<1>5. SrcWhole(v) /\ v.get.size = get.size
  <2>1. SrcWhole(G) /\ G.get.size = get.size BY <1>1, CopyingWhole
  <2> QED BY <1>2, <2>1, DropGetWhole, Zenon
<1> HIDE DEF v
<1>6. SrcWhole(s) /\ s.get.size = get.size
  <2>1. Full \in BOOLEAN BY DEF Full
  <2> QED BY <1>5, <2>1, SuspendGetWhole, Zenon
<1> HIDE DEF s
<1>7. PICK o \in Put(PutResumed, d) : SetPut(o) BY <1>1
<1>8. ~o.put.eof /\ PutWhole(get.size, o.put, o.ps, o.target)
  <2> DEFINE r == PutResumed
  <2>1. /\ DstOK(r) /\ Fresh(r.put) /\ NotEnd(r.put) /\ r.put.pos = put.pos
        /\ PutWhole(get.size, r.put, r.ps, r.target) /\ Twin(put, r.put)
    BY <1>1, CopyingFacts, CopyingWhole
  <2>2. ~put.eof
    <3>1. put.pos # N BY <1>2, Facts
    <3> QED BY <1>1, <3>1, CopyingWhole
  <2>3. ~r.put.eof BY <2>1, <2>2 DEF Twin
  <2>4. ~r.put.verify /\ ~r.put.done BY <2>1, <2>3 DEF PutWhole
  <2> HIDE DEF d, r
  <2>5. Unverified(get.size, r) BY <2>1, <2>4 DEF Unverified
  <2>6. Run(d, r.put.pos) /\ r.put.pos + Len(d) <= N /\ r.put.pos < N BY <1>2, <2>1
  <2>7. o \in Put(r, d) BY <1>7 DEF r
  <2>8. SameReport(r.put, o.put) BY <1>2, <2>1, <2>3, <2>5, <2>6, <2>7, PutDataWhole, Zenon
  <2> QED BY <2>1, <2>3, <2>4, <2>8 DEF SameReport, PutWhole
<1> HIDE DEF d
<1> QED BY <1>1, <1>4, <1>6, <1>7, <1>8, CopyOnWhole

\* A step that only changes a field of the get peer that is not about what it has read.
LEMMA GetFieldWhole ==
    ASSUME NEW s, SrcWhole(s), NEW k \in GetRec, NEW v, v = [s EXCEPT !.get = k],
           k.pos = s.get.pos, k.buf = s.get.buf, k.seek = s.get.seek, k.eof = s.get.eof,
           k.removing = s.get.removing, k.size = s.get.size
    PROVE  SrcWhole(v) /\ v.get.size = s.get.size
<1>1. SrcOK(s) /\ s \in Pair /\ GetWhole(s.get, s.gs) BY DEF SrcWhole, SrcOK
<1>2. SrcOK(v) /\ v.get = k BY <1>1, GetChangeOK, Zenon
<1>3. v.gs = s.gs BY <1>1 DEF Pair
<1>4. GetWhole(k, s.gs) BY <1>1, GetWholeFields, Zenon
<1> QED BY <1>2, <1>3, <1>4 DEF SrcWhole

\* case INITIAL when the size of the source is to be found first.
LEMMA InfoWhole ==
    ASSUME IInv, WInv, Initial_Info
    PROVE  WGood
<1> DEFINE t == TRUE
           f == FALSE
           m == [put EXCEPT !.want = t, !.size = NoSizeYet, !.susp = t]
           k == [get EXCEPT !.start = f, !.susp = f, !.want = t]
<1>1. state = "INITIAL" /\ ~error /\ state' = "GET_INFO_WAIT"
  BY DEF Initial_Info, Turn, Enter
<1>2. /\ SrcWhole(Getting) /\ PutWhole(get.size, put, ps, target)
      /\ Phase("INITIAL", fall, get.size, put, wire, target, put_eof_pos)
  BY <1>1, DoFacts DEF Last
<1>3. SetPut([Putting EXCEPT !.put = m]) /\ SetGet([Getting EXCEPT !.get = k])
  <2>1. SetPut(SuspendPut([Putting EXCEPT !.put.want = TRUE, !.put.size = NoSizeYet], TRUE))
        /\ SetGet([Getting EXCEPT !.get.start = FALSE, !.get.susp = FALSE, !.get.want = TRUE])
    BY DEF Initial_Info
  <2>2. SuspendPut([Putting EXCEPT !.put.want = TRUE, !.put.size = NoSizeYet], TRUE) = [Putting EXCEPT !.put = m]
    BY Facts DEF SuspendPut, Quad
  <2>3. [Getting EXCEPT !.get.start = FALSE, !.get.susp = FALSE, !.get.want = TRUE] = [Getting EXCEPT !.get = k]
    BY Facts DEF Pair
  <2> QED BY <2>1, <2>2, <2>3, Zenon
<1>4. t \in BOOLEAN /\ f \in BOOLEAN /\ t OBVIOUS
<1> HIDE DEF t, f
<1>5. Twin(put, m) /\ m.susp = t
  BY <1>4, Facts DEF PutRec, Twin
<1>6. k \in GetRec /\ k.pos = get.pos /\ k.buf = get.buf /\ k.seek = get.seek /\ k.eof = get.eof /\ k.removing = get.removing
      /\ k.size = get.size
  BY <1>4, Facts DEF GetRec
<1> HIDE DEF m, k
<1>7. put' = m /\ ps' = ps /\ wire' = wire /\ target' = target
  BY <1>3, DoFacts, <1>1 DEF SetPut, Quad
<1>8. GetWhole(get', gs') /\ get'.size = get.size
  <2> DEFINE v == [Getting EXCEPT !.get = k]
  <2>1. SrcWhole(v) /\ v.get.size = Getting.get.size
    BY <1>1, <1>2, <1>6, DoFacts, GetFieldWhole
  <2> HIDE DEF v
  <2>2. SetGet(v) BY <1>3 DEF v
  <2> QED BY <1>1, <2>1, <2>2, DoFacts, GetWholeIs
<1>9. PutWhole(get.size, m, ps, target) BY <1>2, <1>5, TwinWhole
<1>10. Phase("GET_INFO_WAIT", fall', get.size, m, wire, target, put_eof_pos')
  BY <1>2, <1>4, <1>5 DEF Phase, Early, Twin
<1> QED BY <1>1, <1>7, <1>8, <1>9, <1>10 DEF WGood, WholeAt, Last

\* case GET_INFO_WAIT.
LEMMA InfoWaitWhole ==
    ASSUME IInv, WInv, GetInfoWait
    PROVE  WGood
<1>1. state = "GET_INFO_WAIT" /\ ~error /\ (Fail \/ state' \in {"GET_INFO_WAIT", "INITIAL"})
      /\ get' = get /\ gs' = gs /\ put' = put /\ ps' = ps /\ wire' = wire /\ target' = target
  BY DEF GetInfoWait, Turn, Enter, Leave, source, dest
<1>2. GetWhole(get, gs) /\ PutWhole(get.size, put, ps, target)
      /\ Phase("GET_INFO_WAIT", fall, get.size, put, wire, target, put_eof_pos)
  BY <1>1, DoFacts DEF Last
<1>3. CASE state' \in {"GET_INFO_WAIT", "INITIAL"}
  <2>1. Phase(state', fall', get.size, put, wire, target, put_eof_pos')
    BY <1>2, <1>3 DEF Phase, Early
  <2> QED BY <1>1, <1>2, <1>3, <2>1 DEF WGood, WholeAt, Last
<1> QED BY <1>1, <1>3, FailWhole

\* case INITIAL: what is said to be the size of the source is so.
LEMMA InitialWhole ==
    ASSUME IInv, WInv, Initial
    PROVE  WGood
<1> DEFINE t == TRUE
           wg == get.want \/ get.size = NoSizeYet
           g == [get EXCEPT !.want = wg]
           e == IF Known(get.size) THEN get.size ELSE put.e_size
           wp == put.want \/ cont
           p == [put EXCEPT !.e_size = e, !.want = wp]
           o == [Putting EXCEPT !.put = p]
           s == [Getting EXCEPT !.get = g]
           gt == [g EXCEPT !.start = t]
           st == [Getting EXCEPT !.get = gt]
<1>1. state = "INITIAL" /\ ~error /\ get.pos = 0 /\ put.pos = 0
  <2>1. state = "INITIAL" /\ ~error BY DEF Initial, Turn
  <2> QED BY <2>1, Facts DEF GlueAt
<1>2. /\ SrcWhole(Getting) /\ PutWhole(get.size, put, ps, target) /\ GetWhole(get, gs)
      /\ Phase("INITIAL", fall, get.size, put, wire, target, put_eof_pos)
  BY <1>1, DoFacts DEF Last
<1>3. ~put.eof /\ ~put.verify /\ ~put.done /\ put.buf = <<>> /\ wire = <<>> /\ (to_file => put.seek = put.pos)
  BY <1>2 DEF Phase, PutWhole, Early
<1>4. wg \in BOOLEAN /\ t \in BOOLEAN /\ wp \in BOOLEAN
  <2>1. get.want \in BOOLEAN BY Facts DEF GetRec
  <2> QED BY <2>1, Zenon
<1>5. e \in Int /\ (e = NoSize \/ (e = N /\ get.size = N))
  <2>1. e \in Int BY Facts DEF GetRec, PutRec
  <2>2. e = NoSize \/ (e = N /\ get.size = N) BY <1>2 DEF PutWhole, GetWhole, Known
  <2> QED BY <2>1, <2>2
<1> HIDE DEF t, wg, e, wp
<1>6. g \in GetRec /\ g.pos = get.pos /\ g.buf = get.buf /\ g.seek = get.seek /\ g.eof = get.eof /\ g.removing = get.removing
      /\ g.size = get.size
  BY <1>4, Facts DEF GetRec
<1>7. p \in PutRec /\ p.pos = put.pos /\ p.buf = put.buf /\ p.seek = put.seek /\ p.eof = put.eof /\ p.e_size = e
      /\ p.verify = put.verify /\ p.done = put.done
  BY <1>4, <1>5, Facts DEF PutRec
<1> HIDE DEF g, p
<1>8. gt \in GetRec /\ gt.pos = get.pos /\ gt.buf = get.buf /\ gt.seek = get.seek /\ gt.eof = get.eof /\ gt.removing = get.removing
      /\ gt.size = get.size
  BY <1>4, <1>6 DEF GetRec
<1> HIDE DEF gt
<1>9. Getting.get = get BY DEF Getting
<1>10. SrcWhole(s) /\ s.get.size = get.size
  BY <1>2, <1>6, <1>9, GetFieldWhole
<1>11. SrcWhole(st) /\ st.get.size = get.size
  BY <1>2, <1>8, <1>9, GetFieldWhole
<1>12. o.put = p /\ o.ps = ps /\ o.wire = wire /\ o.target = target /\ o \in Quad
  BY <1>1, <1>7, DoFacts DEF Quad
<1> HIDE DEF o, s, st
<1>13. CASE cont
  <2> DEFINE v == SeekPut(o, FileEnd)
             u == SuspendPut(v, FALSE)
             r == SuspendGet(s, TRUE)
  <2>1. SetGet(r) /\ SetPut(u) /\ state' = "PUT_WAIT"
    BY <1>13, Zenon DEF Initial, Enter, g, p, o, s, wg, e, wp
  <2>2. v \in Quad
    <3>1. DstOK(o)
      <4>1. Fresh(put) BY <1>1, Facts DEF GlueAt
      <4>2. NotEnd(put) BY <4>1, Facts, EndOK
      <4>3. p.can = put.can BY <1>4, <1>5, Facts DEF p, PutRec
      <4>4. PutOK(p, ps, wire, target) BY <1>7, <4>2, <4>3, Facts, PutFields, Zenon
      <4> QED BY <1>12, <4>4 DEF DstOK
    <3>2. o.put.pos = 0 /\ FileEnd # 0 BY <1>1, <1>7, <1>12 DEF FileEnd
    <3>3. DstOK(v) BY <3>1, <3>2, SeekPutOK
    <3> QED BY <3>3 DEF DstOK
  <2>3. /\ v.put.e_size = e /\ ~v.put.eof /\ ~v.put.verify /\ ~v.put.done
        /\ v.put.buf = <<>> /\ (to_file => v.put.seek = v.put.pos) /\ v.wire = <<>>
    <3>1. o.put.pos # FileEnd BY <1>1, <1>7, <1>12 DEF FileEnd
    <3> QED BY <1>3, <1>7, <1>12, <3>1, SeekPutWhole
  <2> HIDE DEF v
  <2>4. Twin(v.put, u.put) /\ u.wire = v.wire
    <3>1. FALSE \in BOOLEAN OBVIOUS
    <3> QED BY <2>2, <3>1, SuspendPutWhole
  <2>5. SrcWhole(r) /\ r.get.size = get.size
    <3>1. TRUE \in BOOLEAN OBVIOUS
    <3> QED BY <1>10, <3>1, SuspendGetWhole
  <2> HIDE DEF u, r
  <2>6. GetWhole(get', gs') /\ get'.size = get.size BY <2>1, <2>5, GetWholeIs
  <2>7. put' = u.put /\ wire' = <<>> BY <2>1, <2>3, <2>4 DEF SetPut
  <2>8. PutWhole(get.size, put', ps', target') BY <1>5, <2>3, <2>4, <2>7 DEF PutWhole, Twin
  <2>9. Phase("PUT_WAIT", fall', get.size, put', wire', target', put_eof_pos')
    BY <2>3, <2>4, <2>7 DEF Phase, Early, Twin
  <2> QED BY <2>1, <2>6, <2>8, <2>9 DEF WGood, WholeAt, Last
<1>14. CASE ~cont
  <2> DEFINE r == SuspendGet(st, FALSE)
  <2>1. SetGet(r) /\ SetPut(o) /\ state' = "DO_COPY"
    <3>1. [Getting EXCEPT !.get = [g EXCEPT !.start = TRUE]] = st BY DEF st, gt, t
    <3>2. SetGet(SuspendGet([Getting EXCEPT !.get = [g EXCEPT !.start = TRUE]], FALSE)) /\ SetPut(o) /\ state' = "DO_COPY"
      BY <1>14, Zenon DEF Initial, Enter, g, p, o, wg, e, wp
    <3> QED BY <3>1, <3>2, Zenon
  <2>2. SrcWhole(r) /\ r.get.size = get.size
    <3>1. FALSE \in BOOLEAN OBVIOUS
    <3> QED BY <1>11, <3>1, SuspendGetWhole
  <2> HIDE DEF r
  <2>3. ~o.put.eof /\ PutWhole(get.size, o.put, o.ps, o.target)
    BY <1>3, <1>5, <1>7, <1>12 DEF PutWhole
  <2> QED BY <2>1, <2>2, <2>3, CopyOnWhole
<1> QED BY <1>13, <1>14

\* A put peer with nothing to write and nothing on its way is no further than the target reaches.
LEMMA SettledWhole ==
    ASSUME NEW p, NEW h, NEW w, NEW t, PutOK(p, h, w, t), NotEnd(p), p.buf = <<>>, w = <<>>,
           to_file => p.seek = p.pos, p.seek >= N
    PROVE  End(p) = N /\ Len(t) = N
<1>1. /\ N \in Nat /\ TargetOK(w, t) /\ Len(t) \in Nat /\ Len(w) \in Nat /\ Core(p, h, w, t, Base(p))
      /\ Base(p) \in 0..N /\ p.pos = Base(p) + Len(p.buf) /\ p.pos \in 0..N
  BY BaseOK DEF PutOK, Core
<1>2. Len(t) \in 0..N /\ Len(w) = 0 /\ Base(p) = p.pos
  <2>1. Len(t) \in 0..N BY <1>1, LenBound, Zenon
  <2>2. Len(w) = 0 /\ Len(p.buf) = 0 BY Empty
  <2>3. Base(p) = p.pos BY <1>1, <2>2
  <2> QED BY <2>1, <2>2, <2>3
<1>3. CASE to_file
  <2>1. p.pos = N BY <1>1, <1>3
  <2>2. p.pos <= Len(t) BY <1>1, <1>2, <1>3 DEF Core, FileOK
  <2> QED BY <1>1, <1>2, <1>3, <2>1, <2>2 DEF End
<1>4. CASE ~to_file
  <2>1. p.seek = N /\ End(p) = N BY <1>1, <1>4, EndIs
  <2>2. p.seek <= Len(t) BY <1>1, <1>2, <1>4, <2>1 DEF Core, OpenOK, ClosedAt
  <2> QED BY <1>1, <1>2, <2>1, <2>2
<1> QED BY <1>3, <1>4

\* case PUT_WAIT: the target is complete when it reaches to the size of the source.
LEMMA PutWaitWhole ==
    ASSUME IInv, WInv, PutWait
    PROVE  WGood
<1> DEFINE complete == put.seek # FileEnd /\ get.size >= 0 /\ put.seek >= get.size
           s == IF get.can THEN SeekGet(Getting, P.put.pos) ELSE Getting
           t == TRUE
           k == [s.get EXCEPT !.start = t]
           v == [s EXCEPT !.get = k]
           r == SuspendGet(v, FALSE)
<1>1. state = "PUT_WAIT" /\ ~error BY DEF PutWait, Turn
<1>2. /\ SrcWhole(Getting) /\ PutWhole(get.size, put, ps, target) /\ GetWhole(get, gs)
      /\ Phase("PUT_WAIT", fall, get.size, put, wire, target, put_eof_pos)
  BY <1>1, DoFacts DEF Last
<1>3. put.buf = <<>> /\ wire = <<>> /\ (to_file => put.seek = put.pos)
  BY <1>2 DEF Phase, Early
<1>4. complete => get.size = N /\ End(put) = N /\ Len(target) = N
  <2> SUFFICES ASSUME complete PROVE get.size = N /\ End(put) = N /\ Len(target) = N
    OBVIOUS
  <2>1. get.size = N BY <1>2 DEF GetWhole, NoSize, NoSizeYet
  <2>2. NotEnd(put) BY DEF NotEnd
  <2> QED BY <1>3, <2>1, <2>2, Facts, SettledWhole
<1>5. CASE UNCHANGED <<source, dest>>
           /\ (state' = "PUT_WAIT" \/ (complete /\ fall' /\ state' \in {"pre_CONFIRM_WAIT", "pre_GET_DONE_WAIT"}))
  <2>1. get' = get /\ gs' = gs /\ put' = put /\ ps' = ps /\ wire' = wire /\ target' = target
    BY <1>5 DEF source, dest
  <2> HIDE DEF complete
  <2>2. Phase(state', fall', get.size, put, wire, target, put_eof_pos')
    BY <1>2, <1>4, <1>5 DEF Phase, Early
  <2> QED BY <1>2, <1>5, <2>1, <2>2 DEF WGood, WholeAt, Last
<1>6. CASE SetPut(P) /\ SetGet(SuspendGet([s EXCEPT !.get.start = TRUE], FALSE)) /\ state' = "DO_COPY"
  <2>1. SrcWhole(s) /\ s.get.size = get.size
    <3>1. P.put.pos \in 0..N /\ Getting.get = get BY Facts
    <3> QED BY <1>2, <3>1, SeekGetWhole
  <2> HIDE DEF s
  <2>2. s \in Pair /\ s.get \in GetRec BY <2>1 DEF SrcWhole, SrcOK, Pair
  <2>3. [s EXCEPT !.get.start = TRUE] = v BY <2>2 DEF Pair
  <2>4. t \in BOOLEAN OBVIOUS
  <2> HIDE DEF t
  <2>5. k \in GetRec /\ k.pos = s.get.pos /\ k.buf = s.get.buf /\ k.seek = s.get.seek /\ k.eof = s.get.eof
        /\ k.removing = s.get.removing /\ k.size = s.get.size
    BY <2>2, <2>4 DEF GetRec
  <2> HIDE DEF k
  <2>6. SrcWhole(v) /\ v.get.size = get.size BY <2>1, <2>5, GetFieldWhole
  <2> HIDE DEF v
  <2>7. SrcWhole(r) /\ r.get.size = get.size
    <3>1. FALSE \in BOOLEAN OBVIOUS
    <3> QED BY <2>6, <3>1, SuspendGetWhole
  <2>8. SetGet(r) BY <1>6, <2>3, Zenon
  <2> HIDE DEF r
  <2>9. PutWhole(get.size, P.put, P.ps, P.target) /\ (P.put.eof => get.size = N)
    BY <1>1, <1>2, DoFacts DEF Phase, Early
  <2> QED BY <1>6, <2>7, <2>8, <2>9, CopyOnWhole
<1>7. \/ Fail
      \/ UNCHANGED <<source, dest>>
         /\ (state' = "PUT_WAIT" \/ (complete /\ fall' /\ state' \in {"pre_CONFIRM_WAIT", "pre_GET_DONE_WAIT"}))
      \/ SetPut(P) /\ SetGet(SuspendGet([s EXCEPT !.get.start = TRUE], FALSE)) /\ state' = "DO_COPY"
  <2>1. CASE put.err BY <2>1, Zenon DEF PutWait
  <2>2. CASE ~put.err /\ (complete \/ ~IOReady)
    <3>1. /\ UNCHANGED <<source, dest>>
          /\ IF ~complete THEN Leave ELSE IF dated THEN Enter("pre_CONFIRM_WAIT", TRUE) ELSE Enter("pre_GET_DONE_WAIT", TRUE)
      BY <2>2, Zenon DEF PutWait
    <3> HIDE DEF complete
    <3> QED BY <1>1, <3>1 DEF Leave, Enter
  <2>3. CASE ~put.err /\ ~complete /\ IOReady
    <3>1. SetPut(P) /\ SetGet(SuspendGet([s EXCEPT !.get.start = TRUE], FALSE)) /\ Enter("DO_COPY", TRUE)
      BY <2>3, Zenon DEF PutWait
    <3> QED BY <2>3, <3>1, Zenon DEF Enter
  <2> QED BY <2>1, <2>2, <2>3
<1> HIDE DEF complete, s
<1> QED BY <1>5, <1>6, <1>7, FailWhole

\* case pre_CONFIRM_WAIT: the end is announced to the put peer where the source ends.
LEMMA PreConfirmWhole ==
    ASSUME IInv, WInv, PreConfirmWait
    PROVE  WGood
<1> DEFINE t == TRUE
           f == FALSE
           e == IF Known(get.size) THEN get.size ELSE put.e_size
           q == [put EXCEPT !.eof = t, !.e_size = e, !.susp = f]
           s == SuspendGet(Getting, TRUE)
<1>1. /\ state = "pre_CONFIRM_WAIT" /\ ~error /\ state' = "CONFIRM_WAIT" /\ put_eof_pos' = put.pos /\ SetGet(s)
      /\ SetPut(SuspendPut([Putting EXCEPT !.put.eof = TRUE, !.put.e_size = IF Known(get.size) THEN get.size ELSE @], FALSE))
  <2>1. state = "pre_CONFIRM_WAIT" /\ ~error /\ P = Putting /\ Putting.put = put BY Facts DEF PreConfirmWait
  <2>2. state' = "CONFIRM_WAIT" /\ put_eof_pos' = put.pos /\ SetGet(s)
        /\ SetPut(SuspendPut([Putting EXCEPT !.put.eof = TRUE, !.put.e_size = IF Known(get.size) THEN get.size ELSE @], FALSE))
    BY <2>1, Zenon DEF PreConfirmWait, Enter
  <2> QED BY <2>1, <2>2
<1>2. /\ SrcWhole(Getting) /\ Getting.get = get /\ PutWhole(get.size, put, ps, target) /\ GetWhole(get, gs)
      /\ Phase("pre_CONFIRM_WAIT", fall, get.size, put, wire, target, put_eof_pos)
  BY <1>1, DoFacts DEF Last
<1>3. SetPut([Putting EXCEPT !.put = q])
  <2>1. SuspendPut([Putting EXCEPT !.put.eof = TRUE, !.put.e_size = IF Known(get.size) THEN get.size ELSE @], FALSE)
        = [Putting EXCEPT !.put = q]
    BY Facts DEF SuspendPut, Quad
  <2> QED BY <1>1, <2>1, Zenon
<1>4. t \in BOOLEAN /\ f \in BOOLEAN /\ t OBVIOUS
<1>5. e \in Int /\ (e = NoSize \/ (e = N /\ get.size = N))
  <2>1. e \in Int BY Facts DEF GetRec, PutRec
  <2>2. e = NoSize \/ (e = N /\ get.size = N) BY <1>2 DEF PutWhole, GetWhole, Known
  <2> QED BY <2>1, <2>2
<1> HIDE DEF t, f, e
<1>6. q.pos = put.pos /\ q.buf = put.buf /\ q.seek = put.seek /\ q.eof /\ q.e_size = e /\ q.verify = put.verify
      /\ q.done = put.done
  BY <1>4, <1>5, Facts DEF PutRec
<1> HIDE DEF q
<1>7. put' = q /\ ps' = ps /\ wire' = wire /\ target' = target
  BY <1>1, <1>3, DoFacts DEF SetPut, Quad
<1>8. GetWhole(get', gs') /\ get'.size = get.size
  <2>1. TRUE \in BOOLEAN OBVIOUS
  <2>2. SrcWhole(s) /\ s.get.size = get.size BY <1>2, <2>1, SuspendGetWhole
  <2> HIDE DEF s
  <2> QED BY <1>1, <2>2, GetWholeIs
<1>9. End(q) = N /\ (Fresh(q) \/ get.size = N)
  BY <1>2, <1>6 DEF Phase, End, Fresh, Base
<1>10. PutWhole(get.size, q, ps, target)
  BY <1>2, <1>5, <1>6, <1>9 DEF PutWhole
<1>11. Phase("CONFIRM_WAIT", fall', get.size, q, wire, target, put.pos)
  BY <1>6, <1>9 DEF Phase, Early
<1> QED BY <1>1, <1>7, <1>8, <1>10, <1>11 DEF WGood, WholeAt, Last

\* case CONFIRM_WAIT: what is confirmed is as long as the source; back to copying the put peer
\* goes with the size of the source known, or without having taken itself to be finished.
LEMMA ConfirmWhole ==
    ASSUME IInv, WInv, ConfirmWait
    PROVE  WGood
<1>1. state = "CONFIRM_WAIT" /\ ~error /\ NotEnd(put)
  <2>1. state = "CONFIRM_WAIT" /\ ~error BY DEF ConfirmWait, Turn
  <2> QED BY <2>1, Facts DEF GlueAt
<1>2. GetWhole(get, gs) /\ PutWhole(get.size, put, ps, target)
      /\ Phase("CONFIRM_WAIT", fall, get.size, put, wire, target, put_eof_pos)
  BY <1>1, DoFacts DEF Last
<1>3. get' = get /\ gs' = gs /\ put' = put /\ ps' = ps /\ wire' = wire /\ target' = target /\ put_eof_pos' = put_eof_pos
  <2>1. SetPut(Putting) /\ UNCHANGED source BY Facts, Zenon DEF ConfirmWait
  <2>2. put_eof_pos' = put_eof_pos BY DEF ConfirmWait, Settled
  <2> QED BY <2>1, <2>2 DEF SetPut, Putting, source
<1>4. \/ Fail
      \/ state' = "CONFIRM_WAIT"
      \/ state' = "DO_COPY" /\ put_eof_pos # put.pos
      \/ state' = "pre_GET_DONE_WAIT" /\ fall' /\ put.done
  <2>1. P.put = put /\ put.seek # FileEnd BY <1>1, Facts DEF NotEnd
  <2> QED BY <1>1, <2>1 DEF ConfirmWait, Leave, Enter, PutDone
<1>5. CASE state' = "CONFIRM_WAIT"
  <2>1. Phase("CONFIRM_WAIT", fall', get.size, put, wire, target, put_eof_pos) BY <1>2 DEF Phase, Early
  <2> QED BY <1>2, <1>3, <1>5, <2>1 DEF WGood, WholeAt, Last
<1>6. CASE state' = "DO_COPY" /\ put_eof_pos # put.pos
  <2>1. Phase("DO_COPY", fall', get.size, put, wire, target, put_eof_pos) BY <1>2, <1>6 DEF Phase, Early
  <2> QED BY <1>2, <1>3, <1>6, <2>1 DEF WGood, WholeAt, Last
<1>7. CASE state' = "pre_GET_DONE_WAIT" /\ fall' /\ put.done
  <2>1. Len(target) = N BY <1>2, <1>7 DEF PutWhole
  <2>2. Phase("pre_GET_DONE_WAIT", fall', get.size, put, wire, target, put_eof_pos) BY <1>7, <2>1 DEF Phase, Early
  <2> QED BY <1>2, <1>3, <1>7, <2>2 DEF WGood, WholeAt, Last
<1> QED BY <1>4, <1>5, <1>6, <1>7, FailWhole

\* case pre_GET_DONE_WAIT: the put peer is called no more.
LEMMA PreGetDoneWhole ==
    ASSUME IInv, WInv, PreGetDoneWait
    PROVE  WGood
<1>1. state = "pre_GET_DONE_WAIT" /\ ~error /\ state' = "GET_DONE_WAIT" /\ SetPut(SuspendPut(Putting, TRUE))
  BY DEF PreGetDoneWait, Enter
<1>2. Phase("pre_GET_DONE_WAIT", fall, get.size, put, wire, target, put_eof_pos)
  BY <1>1, DoFacts DEF Last
<1>3. Len(target) = N BY <1>2 DEF Phase
<1>4. put'.susp /\ target' = target
  <2>1. TRUE \in BOOLEAN OBVIOUS
  <2>2. Putting \in Quad /\ Putting.target = target BY <1>1, DoFacts
  <2> QED BY <1>1, <2>1, <2>2, SuspendPutWhole DEF SetPut
<1> QED BY <1>1, <1>3, <1>4 DEF WGood, WholeAt, Last

\* case GET_DONE_WAIT: the target is left alone.
LEMMA GetDoneWhole ==
    ASSUME IInv, WInv, GetDoneWait
    PROVE  WGood
<1>1. state = "GET_DONE_WAIT" /\ ~error /\ state' \in Last /\ put' = put /\ target' = target
  <2>1. state = "GET_DONE_WAIT" /\ ~error BY DEF GetDoneWait, Turn
  <2>2. state' \in Last BY <2>1 DEF GetDoneWait, Fail, Leave, Enter, Last
  <2>3. UNCHANGED dest BY DEF GetDoneWait
  <2> QED BY <2>1, <2>2, <2>3 DEF dest
<1>2. put.susp /\ Len(target) = N BY <1>1, WFacts DEF Last
<1> QED BY <1>1, <1>2 DEF WGood, WholeAt

\* FileCopy::Do, all cases.
LEMMA DoWhole ==
    ASSUME IInv, WInv, Do
    PROVE  WGood
<1>1. CASE DoCopy_Error
  <2>1. Fail BY <1>1 DEF DoCopy_Error
  <2> QED BY <2>1, FailWhole
<1>2. CASE DoCopy_PosUnknown
  <2>1. state = "DO_COPY" /\ put.seek = FileEnd BY <1>2 DEF DoCopy_PosUnknown, Turn
  <2> QED BY <2>1, Facts DEF GlueAt, NotEnd
<1> QED BY <1>1, <1>2, InfoWhole, InfoWaitWhole, InitialWhole, PutWaitWhole, PutBehindWhole, GetBehindWhole, EofWhole,
           NoDataWhole, DataWhole, PreConfirmWhole, ConfirmWhole, PreGetDoneWhole, GetDoneWhole, Zenon DEF Do

-----------------------------------------------------------------------------
(* The invariant holds initially and is kept by every step. *)

\* The invariant holds after a step whose outcome is WGood.
LEMMA WKeeps ==
    ASSUME WGood, UNCHANGED kind
    PROVE  WInv'
<1>1. to_file' = to_file BY DEF kind, to_file
<1> QED BY <1>1 DEF WGood, WInv, WholeAt, GetWhole, PutWhole, Phase, Fresh, Base, End

\* A copy that has just been made: the size of the source is known and right, or not known.
LEMMA WInvInit ==
    ASSUME Init
    PROVE  WInv
<1>1. PICK size \in {N, NoSizeYet} : get = GetPeer(size) BY DEF Init
<1>2. get.size = size /\ ~get.eof /\ gs = Closed BY <1>1 DEF GetPeer, Init
<1>3. /\ put.pos = 0 /\ put.seek = 0 /\ put.buf = <<>> /\ ~put.eof /\ put.susp /\ put.e_size = NoSize
      /\ ~put.verify /\ ~put.done
  BY DEF PutPeer, Init
<1>4. state = "INITIAL" /\ wire = <<>> BY DEF Init
<1>5. GetWhole(get, gs) BY <1>2, ClosedOK DEF GetWhole
<1>6. PutWhole(get.size, put, ps, target) BY <1>3 DEF PutWhole
<1>7. Phase(state, fall, get.size, put, wire, target, put_eof_pos) BY <1>3, <1>4 DEF Phase, Early
<1> QED BY <1>4, <1>5, <1>6, <1>7 DEF WInv, WholeAt, Last

\* The inductive step, over FileCopy::Do, both peers, and both sessions.
LEMMA WInvNext ==
    ASSUME Reliable, IInv, WInv, [Next]_vars
    PROVE  WInv'
<1>1. CASE Do
  <2>1. UNCHANGED kind BY <1>1, DoGood
  <2> QED BY <1>1, <2>1, DoWhole, WKeeps
<1>2. CASE GetDo \/ SrcConnect \/ SrcFail \/ SrcInfo
  <2>1. ~error /\ UNCHANGED <<kind, copy, dest>>
    <3>1. ~error BY <1>2 DEF GetDo, SrcConnect, SrcFail, SrcInfo, Outside
    <3>2. UNCHANGED <<kind, copy, dest>> BY <1>2, Facts, GetDoStep, SourceStep, Zenon
    <3> QED BY <3>1, <3>2
  <2>2. state \notin Last => GetKept(get.size)
    BY <1>2, <2>1, Facts, WFacts, GetDoWhole, SourceWhole
  <2> QED BY <2>1, <2>2, GetStepWhole, WKeeps
<1>3. CASE PutDo
  <2>1. Moved(put, put') /\ UNCHANGED kind BY <1>3, Facts, PutDoStep, Zenon
  <2> QED BY <1>3, <2>1, Facts, PutStepWhole, WKeeps
<1>4. CASE DstConnect \/ DstComplete \/ DstStore \/ DstFail \/ DstStored \/ DstInfo
  <2>1. UNCHANGED kind
    BY <1>4 DEF DstConnect, DstComplete, DstStore, DstFail, DstStored, DstInfo, DstStays
  <2> QED BY <1>4, <2>1, Facts, DestWhole, WKeeps
<1>5. CASE UNCHANGED vars
  <2>1. UNCHANGED <<kind, copy, source, dest>> BY <1>5 DEF vars
  <2>2. to_file' = to_file BY <2>1 DEF kind, to_file
  <2>3. WGood BY <2>1 DEF WInv, WGood, copy, source, dest
  <2> QED BY <2>1, <2>3, WKeeps
<1> QED BY <1>1, <1>2, <1>3, <1>4, <1>5, Zenon DEF Next, Sessions, Failures

\* With every byte of the target in its place, a target as long as the source is the source.
LEMMA WInvFaithful ==
    ASSUME IInv, WInv
    PROVE  Faithful
<1> SUFFICES ASSUME ~error, state \in Last PROVE target = Source
  BY DEF Faithful, Last
<1>1. Len(target) = N BY WFacts
<1>2. target \in Seq(Offset) /\ Run(target, 0) BY DEF IInv, PutOK, Core, TargetOK
<1>3. N \in Nat BY FileCopyAssumption
<1>4. DOMAIN target = 1..N /\ target \in [1..N -> Offset] BY <1>1, <1>2
<1>5. \A i \in 1..N : target[i] = i - 1 BY <1>2, <1>4 DEF Run
<1> QED BY <1>4, <1>5 DEF Source

\* For files of any size, any buffers, any number of failures of the source, and a target that
\* is a local file or on a server that does not fail: when FileCopy::Do ends without an error,
\* or is about to remove the source, the target is equal to the source.
THEOREM CopyFaithful == Reliable => (Spec => []Faithful)
<1> SUFFICES ASSUME Reliable PROVE Spec => []Faithful
  OBVIOUS
<1>1. Init => IInv /\ WInv BY IInvInit, WInvInit
<1>2. IInv /\ WInv /\ [Next]_vars => IInv' /\ WInv' BY IInvNext, WInvNext
<1>3. IInv /\ WInv => Faithful BY WInvFaithful
<1> QED BY <1>1, <1>2, <1>3, PTL DEF Spec
=============================================================================
