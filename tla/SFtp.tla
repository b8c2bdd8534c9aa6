-------------------------------- MODULE SFtp --------------------------------
(***************************************************************************)
(* SFTP sessions (SFtp.cc): requests with numbers, several on their way,    *)
(* answers that may come in another order, and what a closed operation      *)
(* leaves behind on a connection that is used again.                        *)
(*                                                                         *)
(* Operators map w = [f |-> session, c |-> connection] to what a call       *)
(* leaves.  Left out: ssh and its prompts, packet formats, listings and     *)
(* CHANGE_DIR, attributes, links, rate limits; a WRITE carries one byte and *)
(* is sent at once.                                                         *)
(***************************************************************************)
EXTENDS Integers, Sequences, FiniteSets

CONSTANTS
    Sessions,
    ModesOf,      \* session -> what its user does
    Priority,     \* session -> FileAccess::priority
    Takeover,     \* net:connection-takeover
    Limit,        \* net:connection-limit
    N,            \* length of a file
    GetFrom, PutFrom, \* offsets at which files are opened
    K,            \* files that GetInfoArray asks about
    SizeRead,     \* sftp:size-read
    MaxFlight,    \* sftp:max-packets-in-flight
    MaxOutOfOrder,
    MaxBuf,       \* max_buf
    Overtaken,    \* requests whose answers may overtake each other
    ShortReads,   \* a READ may return less than asked for within the file
    Faults,       \* bound: refusals and lost connections
    MaxOpens      \* bound: operations of users

ASSUME SFtpAssumption ==
    /\ IsFiniteSet(Sessions) /\ DOMAIN ModesOf = Sessions /\ DOMAIN Priority = Sessions
    /\ \A s \in Sessions : ModesOf[s] \subseteq {"RETRIEVE", "STORE", "REMOVE", "ARRAY_INFO"}
    /\ {Limit, N, K, SizeRead, MaxFlight, MaxOutOfOrder, MaxBuf, Faults, MaxOpens} \subseteq Nat
    /\ MaxFlight > 0
    /\ GetFrom \cup PutFrom \subseteq 0..N /\ {Takeover, ShortReads} \subseteq BOOLEAN

VARIABLES
    ses,      \* session -> the fields of SFtp and its bases
    conn,     \* session -> its connection, the network and the server behind it
    user,     \* session -> what its user has opened and read
    stored,   \* session -> the file on the server that it stores
    opens, faults

vars == <<ses, conn, user, stored, opens, faults>>

NoFile == <<>>
NoBuf == [on |-> FALSE, data |-> <<>>, eof |-> FALSE]      \* file_buf
NoHandle == 0

\* Init and FileAccess::Close.  A file to be stored and a list have no size known.
NewSession ==
    [mode |-> "CLOSED", state |-> "DISCONNECTED", error |-> "OK", file |-> NoFile, pos |-> 0,
     req_pos |-> 0, handle |-> NoHandle, eof |-> FALSE, buf |-> NoBuf, size |-> -1, slow |-> 1,
     ooo |-> <<>>, susp |-> FALSE, next |-> 1, info |-> {}]

NoConn == [on |-> FALSE]
\* Requests sent and answers on their way; expect_queue: request -> [req, tag]; what the server
\* has open, and which questions about files it has refused
NewConn == [on |-> TRUE, net |-> "syn", id |-> 1, out |-> <<>>, wire |-> <<>>, expect |-> <<>>, handles |-> {},
            refused |-> {}]

Init ==
    /\ ses = [s \in Sessions |-> NewSession] /\ conn = [s \in Sessions |-> NoConn]
    /\ user = [s \in Sessions |-> [open |-> [file |-> NoFile, from |-> 0], got |-> <<>>, eof |-> FALSE]]
    /\ stored = [s \in Sessions |-> <<>>]
    /\ opens = 0 /\ faults = 0

W(s) == [f |-> ses[s], c |-> conn[s]]
SetW(s, w) == ses' = [ses EXCEPT ![s] = w.f] /\ conn' = [conn EXCEPT ![s] = w.c]
Fails(w, error) == [w EXCEPT !.f.error = error]

-----------------------------------------------------------------------------
(* Requests and what is expected for them.                                 *)

\* SendRequest(Packet)
Send(w, req, tag) ==
    [w EXCEPT !.c.id = @ + 1, !.c.out = Append(@, [id |-> w.c.id, req |-> req]),
              !.c.expect = [i \in DOMAIN @ \cup {w.c.id} |-> IF i = w.c.id THEN [req |-> req, tag |-> tag] ELSE @[i]]]

Request(k, for, pos, n) == [k |-> k, for |-> for, pos |-> pos, n |-> n, h |-> NoHandle]
OnHandle(f, k, pos, n) == [Request(k, f.file, pos, n) EXCEPT !.h = f.handle]

QueueSize(c) == Cardinality(DOMAIN c.expect)              \* RespQueueSize
HasExpect(c, tag) == \E i \in DOMAIN c.expect : c.expect[i].tag = tag
HasExpectBefore(c, id, tag) == \E i \in DOMAIN c.expect : c.expect[i].tag = tag /\ i < id

\* CloseHandle
CloseHandle(w, tag) ==
    IF w.f.handle = NoHandle THEN w ELSE [Send(w, OnHandle(w.f, "CLOSE", 0, 0), tag) EXCEPT !.f.handle = NoHandle]

\* Fault: the answer to an OPEN is ignored like the others.
TagForgetting(tag) == IF tag = "STALE" THEN "STALE" ELSE "IGNORE"
\* What is made of each expectation
TagWhenClosed(tag) == IF tag \in {"HANDLE", "STALE"} THEN "STALE" ELSE "IGNORE"

\* CloseExpectQueue
CloseExpectQueue(c) ==
    [c EXCEPT !.expect = [i \in DOMAIN c.expect |-> [req |-> c.expect[i].req, tag |-> TagWhenClosed(c.expect[i].tag)]]]

\* Fault: a store whose connection is lost begins again by itself.
DisconnectQuietly(w) ==
    [f |-> [w.f EXCEPT !.state = "DISCONNECTED", !.handle = NoHandle, !.buf = NoBuf, !.ooo = <<>>,
                       !.susp = FALSE, !.next = 1], c |-> NoConn]

\* Fault: files that were asked about are not asked about again.
DisconnectOnward(w) == [DisconnectQuietly(w) EXCEPT !.f.next = w.f.next]

\* DisconnectLL
Disconnect(w) ==
    [f |-> [w.f EXCEPT !.state = "DISCONNECTED", !.handle = NoHandle, !.buf = NoBuf, !.ooo = <<>>,
                       !.susp = FALSE, !.next = 1,
                       !.error = IF w.f.mode = "STORE" THEN "STORE_FAILED" ELSE @],
     c |-> NoConn]

\* Close
CloseSession(w) ==
    LET v == IF w.f.state = "CONNECTING" THEN Disconnect(w) ELSE w
        u == IF v.c.on THEN CloseHandle([v EXCEPT !.c = CloseExpectQueue(v.c)], "IGNORE") ELSE v
    IN  [u EXCEPT !.f = [NewSession EXCEPT !.state = IF u.c.on THEN "CONNECTED" ELSE "DISCONNECTED",
                                           !.slow = u.f.slow, !.req_pos = u.f.req_pos]]

\* SendRequest: what an operation begins with
SendRequest(w) ==
    LET f == w.f
        v == [w EXCEPT !.f.slow = 1, !.f.state = "WAITING"]
    IN  CASE f.mode = "RETRIEVE" -> Send(v, Request("OPEN", f.file, 0, 0), "HANDLE")
          [] f.mode = "STORE" -> Send(v, Request("CREATE", f.file, f.pos, 0), "HANDLE")
          [] f.mode = "REMOVE" -> Send(v, Request("REMOVE", f.file, 0, 0), "DEFAULT")
          [] f.mode = "ARRAY_INFO" -> v

\* The files before m that still need information (fi->need)
Needed(f, m) == {i \in f.next..(m - 1) : <<i, i>> \notin f.info}

\* SendArrayInfoRequests: the loop asks about each such file, and ends behind the last file or when
\* as many requests are on their way as may be.
EndsBefore(w, m) == m > K \/ QueueSize(w.c) + Cardinality(Needed(w.f, m)) >= MaxFlight
ArrayEnd(w) ==
    CHOOSE m \in w.f.next..(K + 1) : EndsBefore(w, m) /\ \A l \in w.f.next..(m - 1) : ~EndsBefore(w, l)
Asks(w, asked, id) ==
    Request("STAT", w.f.file, CHOOSE i \in asked : w.c.id + Cardinality(Needed(w.f, i)) = id, 0)
Ask(w, end) ==
    LET asked == Needed(w.f, end)
        n == Cardinality(asked)
        ids == w.c.id..(w.c.id + n - 1)
    IN  [f |-> [w.f EXCEPT !.next = end],
         c |-> [w.c EXCEPT !.id = @ + n,
                           !.out = @ \o [k \in 1..n |-> [id |-> w.c.id + k - 1, req |-> Asks(w, asked, w.c.id + k - 1)]],
                           !.expect = [i \in DOMAIN @ \cup ids |-> IF i \in ids THEN [req |-> Asks(w, asked, i), tag |-> "INFO"] ELSE @[i]]]]
SendArrayInfo(w) ==
    LET v == Ask(w, ArrayEnd(w)) IN IF DOMAIN v.c.expect = {} THEN [v EXCEPT !.f.state = "DONE"] ELSE v

-----------------------------------------------------------------------------
(* Answers.                                                                *)

\* Fault: the end is told although data before it may still come.
EofEarly(w, id) ==
    LET v == [w EXCEPT !.f.eof = TRUE, !.f.state = "DONE"] IN IF w.f.buf.on THEN [v EXCEPT !.f.buf.eof = TRUE] ELSE v

\* HandleExpect, the label eof
Eof(w, id) ==
    LET v == [w EXCEPT !.f.eof = TRUE, !.f.state = "DONE"] IN
    IF w.f.buf.on /\ w.f.ooo = <<>> /\ ~HasExpectBefore(w.c, id, "DATA") THEN [v EXCEPT !.f.buf.eof = TRUE] ELSE v

\* Less has come than was asked for: unless more has been requested already, the next request
\* begins there, else what is missing is requested again.
Short(w, r) ==
    LET end == r.req.pos + Len(r.data) IN
    IF r.req.pos + r.req.n = w.f.req_pos THEN [w EXCEPT !.f.req_pos = end]
    ELSE Send(w, OnHandle(w.f, "READ", end, r.req.n - Len(r.data)), "DATA")

\* HandleExpect, DATA: the answer to a READ
HandleData(w, r) ==
    LET f == w.f
        v == [w EXCEPT !.f.slow = IF @ < MaxFlight THEN @ + 1 ELSE @]
    IN  IF r.t = "status" THEN IF r.code = "eof" THEN Eof(v, r.id) ELSE Fails(v, "NO_FILE")
        ELSE IF r.req.pos # f.pos + Len(f.buf.data)
        THEN IF Len(f.ooo) >= MaxOutOfOrder THEN Disconnect(v) ELSE [v EXCEPT !.f.ooo = Append(@, r)]
        ELSE LET u == [v EXCEPT !.f.buf.data = @ \o r.data] IN
             IF f.eof THEN Eof(u, r.id) ELSE IF r.req.n > Len(r.data) THEN Short(u, r) ELSE u

\* HandleExpect, HANDLE
HandleHandle(w, r) ==
    IF r.t # "handle" THEN Fails(w, "NO_FILE")
    ELSE LET v == [w EXCEPT !.f.handle = r.h, !.f.state = IF w.f.mode = "STORE" THEN "FILE_SEND" ELSE "FILE_RECV",
                            !.f.buf = [NoBuf EXCEPT !.on = TRUE], !.f.req_pos = w.f.pos]
         IN  IF w.f.mode = "RETRIEVE" THEN Send(v, OnHandle(v.f, "FSTAT", 0, 0), "INFO") ELSE v

\* HandleExpect, WRITE_STATUS
HandleWritten(w, r) == IF r.t = "status" /\ r.code = "ok" THEN w ELSE Fails(w, "NO_FILE")

HandleInfo(w, r) ==
    IF w.f.mode = "ARRAY_INFO"
    THEN IF r.t = "attrs" THEN [w EXCEPT !.f.info = @ \cup {<<r.req.pos, r.of>>}] ELSE w
    ELSE [w EXCEPT !.f.size = IF r.t = "attrs" THEN N ELSE -1]

\* HandleExpect
HandleExpect(w, r, tag) ==
    CASE tag = "HANDLE" -> HandleHandle(w, r)
      [] tag = "STALE" /\ r.t = "handle" ->
           Send(w, [Request("CLOSE", r.req.for, 0, 0) EXCEPT !.h = r.h], "IGNORE")
      [] tag = "DATA" -> HandleData(w, r)
      [] tag = "INFO" -> HandleInfo(w, r)
      [] tag = "WRITE_STATUS" -> HandleWritten(w, r)
      [] tag = "DEFAULT" -> IF r.t = "status" /\ r.code = "ok" THEN [w EXCEPT !.f.state = "DONE"] ELSE Fails(w, "NO_FILE")
      [] OTHER -> w

\* HandleReplies, an answer that was kept and is now in its place
OutOfOrder(w) ==
    LET f == w.f
        at == {i \in DOMAIN f.ooo : f.ooo[i].req.pos = f.pos + Len(f.buf.data)}
        i == CHOOSE i \in at : \A j \in at : i <= j
    IN  IF ~f.buf.on \/ at = {} THEN w
        ELSE HandleExpect([w EXCEPT !.f.ooo = SubSeq(@, 1, i - 1) \o SubSeq(@, i + 1, Len(@))], f.ooo[i], "DATA")

\* HandleReplies, the end when nothing more is expected
LateEof(w) ==
    IF w.f.eof /\ w.f.buf.on /\ w.f.ooo = <<>> /\ ~HasExpect(w.c, "DATA") THEN [w EXCEPT !.f.buf.eof = TRUE] ELSE w

\* HandleReplies, the packet at i: in order, or overtaking
HandlePacket(w, i) ==
    LET r == w.c.wire[i]
        e == w.c.expect[r.id]
        v == [w EXCEPT !.c.wire = SubSeq(@, 1, i - 1) \o SubSeq(@, i + 1, Len(@)),
                       !.c.expect = [j \in DOMAIN @ \ {r.id} |-> @[j]]]
    IN  HandleExpect(v, [r EXCEPT !.req = e.req], e.tag)

\* Answers may come in another order than the requests were sent in.
Comes(c, i) == i = 1 \/ \A j \in 1..i : c.wire[j].req.k \in Overtaken

\* HandleReplies: what it may leave, as one answer has come or none
HandleReplies(w) ==
    LET v == LateEof(OutOfOrder(w)) IN
    IF ~v.c.on THEN {v}
    ELSE IF v.c.wire = <<>> THEN IF v.c.net = "lost" THEN {v, Disconnect(v)} ELSE {v}
    ELSE {v} \cup (IF v.f.susp THEN {} ELSE {HandlePacket(v, i) : i \in {j \in DOMAIN v.c.wire : Comes(v.c, j)}})

-----------------------------------------------------------------------------
(* Do, in the states of a connection.                                      *)

DoConnected(w) == IF w.f.mode = "CLOSED" THEN w ELSE SendRequest(w)

\* FILE_SEND: one byte, or the end of the file
DoSend(w) ==
    LET f == w.f
        b == Head(f.buf.data)
        v == Send(w, OnHandle(f, "WRITE", f.req_pos, b[2]), "WRITE_STATUS")
    IN  IF (f.buf.data = <<>> /\ ~f.eof) \/ QueueSize(w.c) > MaxFlight THEN w
        ELSE IF f.buf.data = <<>> THEN [CloseHandle(w, "DEFAULT") EXCEPT !.f.state = "WAITING"]
        ELSE [v EXCEPT !.f.buf.data = Tail(@), !.f.req_pos = @ + 1]

DoState(w) ==
    IF w.f.error # "OK" \/ ~w.c.on THEN w
    ELSE CASE w.f.state = "CONNECTING" ->
                IF w.c.net = "lost" THEN Disconnect(w)
                ELSE IF w.c.net = "syn" THEN w ELSE DoConnected([w EXCEPT !.f.state = "CONNECTED"])
           [] w.f.state = "CONNECTED" -> DoConnected(w)
           [] w.f.state = "FILE_RECV" -> [w EXCEPT !.f.susp = Len(w.f.buf.data) >= MaxBuf]
           [] w.f.state = "FILE_SEND" -> DoSend(w)
           [] w.f.state = "WAITING" /\ w.f.mode = "ARRAY_INFO" -> SendArrayInfo(w)
           [] OTHER -> w

\* Do with a connection
Do(s) ==
    /\ ses[s].error = "OK" /\ conn[s].on
    /\ \E w \in IF ses[s].state = "CONNECTING" THEN {W(s)} ELSE HandleReplies(W(s)) : SetW(s, DoState(w))
    /\ UNCHANGED <<user, stored, opens, faults>>

-----------------------------------------------------------------------------
(* Connecting.                                                             *)

Idle(o) == conn[o].on /\ ses[o].state = "CONNECTED" /\ ses[o].mode = "CLOSED"
LimitReached == Cardinality({o \in Sessions : conn[o].on}) >= Limit
NeedsConnection(s) == ses[s].error = "OK" /\ ses[s].state = "DISCONNECTED" /\ ses[s].mode # "CLOSED"

\* MoveConnectionHere: with all that is still expected on it
TakeConnection(s, o) ==
    /\ NeedsConnection(s) /\ o # s /\ Idle(o)
    /\ ses' = [ses EXCEPT ![s].state = "CONNECTED", ![o] = Disconnect(W(o)).f]
    /\ conn' = [conn EXCEPT ![s] = conn[o], ![o] = NoConn]
    /\ UNCHANGED <<user, stored, opens, faults>>

\* GetBetterConnection at the limit: the connection of a less important session is closed.
Interrupt(s, o) ==
    /\ NeedsConnection(s) /\ o # s /\ ~\E i \in Sessions \ {s} : Idle(i)
    /\ LimitReached /\ conn[o].on /\ Takeover /\ Priority[o] < Priority[s]
    /\ SetW(o, Disconnect(W(o)))
    /\ UNCHANGED <<user, stored, opens, faults>>

\* Do, DISCONNECTED: ssh is started.
Connect(s) ==
    /\ NeedsConnection(s) /\ ~LimitReached /\ ~\E o \in Sessions \ {s} : Idle(o)
    /\ ses' = [ses EXCEPT ![s].state = "CONNECTING"]
    /\ conn' = [conn EXCEPT ![s] = NewConn]
    /\ UNCHANGED <<user, stored, opens, faults>>

IdleTimeout(s) == Idle(s) /\ SetW(s, Disconnect(W(s))) /\ UNCHANGED <<user, stored, opens, faults>>

\* CheckTimeout
Timeout(s) ==
    /\ faults < Faults /\ faults' = faults + 1
    /\ ses[s].error = "OK" /\ conn[s].on /\ conn[s].wire = <<>>
    /\ ses[s].mode # "CLOSED" /\ ses[s].state # "CONNECTED"
    /\ SetW(s, Disconnect(W(s)))
    /\ UNCHANGED <<user, stored, opens>>

-----------------------------------------------------------------------------
(* Users.                                                                  *)

\* Read: more is requested, and a byte is taken.
RequestMoreData(w) ==
    Send([w EXCEPT !.f.req_pos = @ + SizeRead], OnHandle(w.f, "READ", w.f.req_pos, SizeRead), "DATA")
MayRequest(w) ==
    LET f == w.f  n == QueueSize(w.c) IN
    /\ f.state = "FILE_RECV" /\ ~f.buf.eof
    /\ n < (IF f.size >= 0 THEN MaxFlight ELSE f.slow) /\ n < MaxOutOfOrder - Len(f.ooo)
    /\ f.size < 0 \/ f.req_pos < f.size \/ n < 2

UserReads(s) ==
    LET f == ses[s]
        w == IF MayRequest(W(s)) THEN RequestMoreData(W(s)) ELSE W(s)
        ends == f.state = "DONE" /\ (~f.buf.on \/ (f.buf.data = <<>> /\ f.buf.eof))
    IN
    /\ f.mode = "RETRIEVE" /\ f.error = "OK" /\ ~user[s].eof
    /\ IF ends THEN user' = [user EXCEPT ![s].eof = TRUE] /\ UNCHANGED <<ses, conn>>
       ELSE IF f.buf.data = <<>> THEN SetW(s, w) /\ UNCHANGED user
       ELSE /\ SetW(s, [w EXCEPT !.f.buf.data = Tail(@), !.f.pos = @ + 1])
            /\ user' = [user EXCEPT ![s].got = Append(@, Head(f.buf.data))]
    /\ UNCHANGED <<stored, opens, faults>>

\* Write (Do, which it begins with, is an action of its own)
UserWrites(s) ==
    LET f == ses[s] IN
    /\ f.mode = "STORE" /\ f.error = "OK" /\ f.state = "FILE_SEND" /\ ~f.eof
    /\ f.pos < N /\ Len(f.buf.data) < MaxBuf
    /\ ses' = [ses EXCEPT ![s].pos = @ + 1, ![s].buf.data = Append(@, <<f.file, f.pos>>)]
    /\ UNCHANGED <<conn, user, stored, opens, faults>>

\* StoreStatus, when all is written
UserEnds(s) ==
    LET f == ses[s] IN
    /\ f.mode = "STORE" /\ f.error = "OK" /\ f.state = "FILE_SEND" /\ ~f.eof /\ f.pos = N
    /\ ses' = [ses EXCEPT ![s].eof = TRUE]
    /\ UNCHANGED <<conn, user, stored, opens, faults>>

Open(s, mode, at) ==
    LET file == <<s, opens + 1>> IN
    /\ ses[s].mode = "CLOSED" /\ opens < MaxOpens
    /\ opens' = opens + 1
    /\ ses' = [ses EXCEPT ![s].mode = mode, ![s].file = file, ![s].pos = at]
    /\ user' = [user EXCEPT ![s] = [open |-> [file |-> file, from |-> at], got |-> <<>>, eof |-> FALSE]]
    /\ stored' = [stored EXCEPT ![s] = [i \in 1..at |-> i - 1]]
    /\ UNCHANGED <<conn, faults>>

UserOpens(s) ==
    \E mode \in ModesOf[s] :
      \E at \in CASE mode = "RETRIEVE" -> GetFrom [] mode = "STORE" -> PutFrom [] OTHER -> {0} : Open(s, mode, at)

\* Close, at any time
UserCloses(s) ==
    /\ ses[s].mode # "CLOSED" /\ SetW(s, CloseSession(W(s)))
    /\ user' = [user EXCEPT ![s] = [open |-> [file |-> NoFile, from |-> 0], got |-> <<>>, eof |-> FALSE]]
    /\ UNCHANGED <<stored, opens, faults>>

-----------------------------------------------------------------------------
(* The network and the server.                                             *)

Established(s) ==
    /\ conn[s].on /\ conn[s].net = "syn"
    /\ conn' = [conn EXCEPT ![s].net = "up"]
    /\ UNCHANGED <<ses, user, stored, opens, faults>>

Lose(s) ==
    /\ conn[s].on /\ conn[s].net # "lost" /\ faults < Faults /\ faults' = faults + 1
    /\ \E n \in 0..Len(conn[s].wire) :
         conn' = [conn EXCEPT ![s].net = "lost", ![s].wire = SubSeq(@, 1, n), ![s].out = <<>>]
    /\ UNCHANGED <<ses, user, stored, opens>>

Bytes(file, from, n) == [i \in 1..n |-> <<file, from + i - 1>>]
Write(file, at, x) == [i \in 1..(IF at < Len(file) THEN Len(file) ELSE at + 1) |->
                         IF i = at + 1 THEN x ELSE IF i <= Len(file) THEN file[i] ELSE -1]

\* The answers to a request that is granted
Granted(r) ==
    LET q == r.req
        reply == [id |-> r.id, req |-> q, t |-> "status", code |-> "ok", h |-> NoHandle, data |-> <<>>, of |-> 0]
        most == IF q.n < N - q.pos THEN q.n ELSE N - q.pos
    IN  CASE q.k \in {"OPEN", "CREATE"} -> {[reply EXCEPT !.t = "handle", !.h = r.id]}
          [] q.k \in {"STAT", "FSTAT"} -> {[reply EXCEPT !.t = "attrs", !.of = q.pos]}
          [] q.k = "READ" /\ q.pos >= N -> {[reply EXCEPT !.code = "eof"]}
          [] q.k = "READ" /\ q.pos < N ->
               {[reply EXCEPT !.t = "data", !.data = Bytes(q.for, q.pos, n)] : n \in IF ShortReads THEN 1..most ELSE {most}}
          [] OTHER -> {reply}
Refused(r) == [id |-> r.id, req |-> r.req, t |-> "status", code |-> "fail", h |-> NoHandle, data |-> <<>>, of |-> 0]

\* The server does what is asked, in the order of the requests.
ServerAnswers(s) ==
    /\ conn[s].on /\ conn[s].net = "up" /\ conn[s].out # <<>>
    /\ LET c == conn[s]
           r == Head(c.out)
           q == r.req
           Reply(a, handles) == conn' = [conn EXCEPT ![s].out = Tail(@), ![s].wire = Append(@, a), ![s].handles = handles]
       IN  \/ /\ \E a \in Granted(r) :
                   Reply(a, CASE a.t = "handle" -> c.handles \cup {a.h}
                              [] q.k = "CLOSE" -> c.handles \ {q.h}
                              [] OTHER -> c.handles)
              /\ stored' = [stored EXCEPT ![s] = CASE q.k = "CREATE" /\ q.for = ses[s].file /\ q.pos = 0 -> <<>>
                                                  [] q.k = "WRITE" /\ q.for = ses[s].file -> Write(@, q.pos, q.n)
                                                  [] OTHER -> @]
              /\ UNCHANGED faults
           \/ /\ faults < Faults /\ faults' = faults + 1
              /\ conn' = [conn EXCEPT ![s].out = Tail(@), ![s].wire = Append(@, Refused(r)),
                                     ![s].handles = IF q.k = "CLOSE" THEN @ \ {q.h} ELSE @,
                                     ![s].refused = IF q.k = "STAT" THEN @ \cup {<<q.for, q.pos>>} ELSE @]
              /\ UNCHANGED stored
    /\ UNCHANGED <<ses, user, opens>>

-----------------------------------------------------------------------------
Next ==
    \E s \in Sessions :
      \/ Do(s) \/ Connect(s) \/ IdleTimeout(s) \/ Timeout(s)
      \/ \E o \in Sessions : TakeConnection(s, o) \/ Interrupt(s, o)
      \/ UserOpens(s) \/ UserReads(s) \/ UserWrites(s) \/ UserEnds(s) \/ UserCloses(s)
      \/ Established(s) \/ Lose(s) \/ ServerAnswers(s)

Spec == Init /\ [][Next]_vars

-----------------------------------------------------------------------------
(* Properties.                                                             *)

TypeOK ==
    \A s \in Sessions :
      LET f == ses[s] IN
      /\ f.state \in {"DISCONNECTED", "CONNECTING", "CONNECTED", "FILE_RECV", "FILE_SEND", "WAITING", "DONE"}
      /\ f.state # "DISCONNECTED" => conn[s].on
      /\ f.state \in {"FILE_RECV", "FILE_SEND"} => f.buf.on
      /\ conn[s].on => \A i \in DOMAIN conn[s].wire : conn[s].wire[i].id \in DOMAIN conn[s].expect
      /\ f.pos \in 0..N /\ Len(f.ooo) <= MaxOutOfOrder

\* Reading through a session is reading a file in order, whatever the order of the answers,
\* repeated requests and lost connections (Read, HandleExpect).
AsStream == INSTANCE Stream WITH
    Readers <- Sessions,
    open <- [s \in Sessions |-> user[s].open], got <- [s \in Sessions |-> user[s].got],
    ended <- [s \in Sessions |-> user[s].eof]
ReadsAsStream == AsStream!Spec

\* A handle that the server has open is the one the session uses, or its answer or the request
\* to close it are still on their way: none is forgotten, whenever operations are closed and
\* connections taken over (CloseExpectQueue, HANDLE_STALE).
HandlesKept ==
    TypeOK /\ \A s \in Sessions : conn[s].on /\ conn[s].net # "lost" =>
      \A h \in conn[s].handles :
        \/ ses[s].handle = h
        \/ \E i \in DOMAIN conn[s].out : conn[s].out[i].req.k = "CLOSE" /\ conn[s].out[i].req.h = h
        \/ \E i \in DOMAIN conn[s].wire :
             conn[s].wire[i].h = h /\ conn[s].expect[conn[s].wire[i].id].tag \in {"HANDLE", "STALE"}

\* A store is reported done only when the server has all of the file.
StoredAll ==
    \A s \in Sessions :
      ses[s].mode = "STORE" /\ ses[s].state = "DONE" /\ ses[s].error = "OK" => stored[s] = [i \in 1..N |-> i - 1]

\* GetInfoArray ends with every file's information noted for the right file, unless the server has
\* refused it: also when the connection is lost between (SendArrayInfoRequests, DisconnectLL).
InfoRight ==
    \A s \in Sessions :
      LET f == ses[s] IN
      /\ \A i \in f.info : i[1] = i[2]
      /\ f.mode = "ARRAY_INFO" /\ f.state = "DONE" =>
           \A i \in 1..K : <<i, i>> \in f.info \/ <<f.file, i>> \in conn[s].refused

=============================================================================
